# TLA+ verification of the order matching engine

TLA+ modules, TLC models and TLAPS proofs for the program under `src/`: a C++
limit order book server with a Python gateway and clients.  Line numbers below
are those of the files under `src/`.

## 1. The system

    s_client.py, marketMaker.py, stress_test.py          trader_ui.py
             |  binary TCP                                    |  gRPC
             |                              gateway.py (10 workers + a listener)
             |                                                |  binary TCP
             v                                                v
    TcpServer (select loop) -> ClientGateway -> MatchingEngine -> OrderBook
                                    |                        \--> ObjectPool
                                orders.bin                    Logger (own thread)

The C++ server is single threaded apart from the logger's worker: one `select`
loop calls back into `ClientGateway`, which calls the engine and sends what
comes of it before it returns.  Concurrency proper is in the logger, in
`gateway.py`, and between the server and its clients.

| Component | State | Operations | What makes it correct |
|---|---|---|---|
| `ObjectPool` (`include/object_pool.h`) | the objects, a stack of free indices | `allocate`, `deallocate`, `available` | no object is handed out while in use, or returned twice: left to the caller |
| `OrderBook` (`src/order_book.cpp`) | two maps price -> list of `Order*`, a map id -> (`Order*`, list iterator) | `add_order`, `cancel_order`, best prices, L1, L2, counts | maps and lookup agree; no empty level; the quotes say what can trade |
| `MatchingEngine` (`src/matching_engine.cpp`) | pool, books by symbol, trade history, counters | `process_new_order`, `cancel_order`, queries | price-time priority, never crossed, no over-fill, all-or-nothing FOK, no lost slot, the loop ends |
| `Logger` (`logging/`) | a queue, one mutex, one condition variable, an exit flag, a worker | `log_internal`, `flush`, destructor, `processLogs` | every line written once and in order; `flush` and the destructor return, and not too early |
| `ClientGateway` (`src/client_gateway.cpp`) | sessions by descriptor with receive buffer and user, subscriptions by symbol | connect, message, disconnect; login, order, cancel, market data | framing survives any split of the stream; reports agree with the book; a reused descriptor inherits nothing |
| Event log (`src/client_gateway.cpp`) | `orders.bin` | append before processing, `replayEvents` at start | the replayed books are the books before the crash |
| `TcpServer` (`src/tcp_server.cpp`) | descriptors, `running_` | `start`, `sendPacket`, close | every accepted descriptor is closed once, nothing is sent to a closed one |
| gRPC gateway (`gateway/gateway.py`) | id counter, queues by user, streams and snapshot queues by symbol, one socket | five RPCs in worker threads, one listener thread | unique ids, each report in the queue its user reads, whole messages on the wire |
| Trader UI (`client/trader_ui.py`) | a blotter of open orders | submit, cancel, apply a report | an order is in the blotter while it is in the book |
| Other clients | none that lasts | submit orders | (environment) |
| Wire protocol, configuration, `main`, tests, benchmark | | | (no behaviour of their own) |

Interactions: the gateway of the server owns nothing of the engine; it reads
books through `get_order_book` after `process_new_order` has returned.  The
engine shares `Order` objects between pool, price lists and lookup by pointer,
so a slot that is given back too early is seen by all of them.  `gateway.py`
chooses the order ids that the engine trusts.

The behaviours that are hard to test, each at its line, are the `hazards` of
`PROJECT.json`.  In short: long sequences of orders, partial fills and cancels
that reuse slots, levels and ids; unsigned arithmetic; an exhausted pool; the
end of the matching loop; messages cut anywhere by `recv`, and descriptors that
are used again; the windows between unlocking and writing, and between looking
at a flag and blocking, in the logger; crashes at any step, a log that is only
ever appended to, and its replay; a connection whose other end has gone; the
counter, the dict and the list that eleven threads of `gateway.py` share
without a lock, and its pool of workers that streams fill up.

## 2. Modules

| Module | Models | Extends |
|---|---|---|
| `ObjectPool` | `ObjectPool<Order>`: operators on the free stack | |
| `OrderBook` | `Order`, `OrderBook` and the part of `can_fill_completely` that walks a book: operators on a record | `ObjectPool` |
| `MatchingEngine` | `MatchingEngine`: state, actions, properties | `OrderBook` |
| `Exchange` | abstract: a set of resting orders, an incoming one, a tape | |
| `EngineRefinesExchange` | the refinement mapping | `MatchingEngine`, instance of `Exchange` |
| `EngineClaims` | what comments and documents say and the code does not do | `EngineRefinesExchange` |
| `MCEngine` | the instances for TLC | `EngineClaims` |
| `BookLemmas` | proved: induction over finite sets, sums over them, and facts about lists, levels, books and the free stack | `MatchingEngine`, `TLAPS` |
| `MatchingEngineProofs` | the inductive invariant of the engine and its theorems | `BookLemmas` |
| `ExchangeProofs` | the proofs that the engine implements `Exchange`, and that fills and history agree | `MatchingEngineProofs`, `EngineRefinesExchange` |
| `ClientGateway` | `TcpServer::start` and `ClientGateway`, composed with the engine | `MatchingEngine` |
| `GatewayProofs` | the inductive invariant of the server and its theorems | `ClientGateway`, `ExchangeProofs` |
| `MarketDataProofs` | the proofs about what clients are sent: snapshots and reports | `GatewayProofs` |
| `MCGateway` | its instances | `ClientGateway` |
| `EventLog` | `orders.bin`, crash, restart, `replayEvents`, composed with the server | `ClientGateway` |
| `EventLogProofs` | the inductive invariants across crashes and restarts and their theorems | `EventLog`, `GatewayProofs` |
| `MCEventLog` | its instances | `EventLog` |
| `GatewayService` | `gateway/gateway.py` | |
| `ServiceProofs` | the inductive invariant of the gRPC gateway and its theorems | `GatewayService`, `TLAPS` |
| `MCService` | its instance | `GatewayService` |
| `Logger` | the logger | |
| `LoggerProofs` | the inductive invariant of the logger and its theorems | `Logger`, `TLAPS` |
| `MCLogger` | its instances | `Logger` |

### Engine: state and actions

`mem` is the pool's array, and a slot number stands for an `Order*`, so that
aliasing is kept: a book holds slots, never orders, and a slot given back and
handed out again changes what every list that still holds it sees.
`free_indices` is the pool's stack, `order_books` and `created` are
`order_books_` (the code creates a book at first use), `trade_history` the
history, `trades` the vector a call returns.  `taker` is `order_ptr` while a
call is in its matching loop, and stands for the program counter.

| Action | Code |
|---|---|
| `RejectPoolExhausted`, `RejectInvalid`, `KillFok` | the early returns of `process_new_order` |
| `BeginMatching` | the call up to the loop |
| `MatchStep` | one iteration of either loop, with the removal of a filled maker |
| `ReturnFilled`, `ReturnIOC`, `ReturnMarket`, `ReturnResting` | what the call does with the order after the loop |
| `CancelOrder` | `cancel_order` |

The program is single threaded, so splitting the loop into steps adds no
interleaving: a cancel or another order needs `taker = NoSlot`.  It lets the
properties look at every iteration, and makes "the call returns" a liveness
property.  The two mirrored loops (and the mirrored halves of every book
operation) are one definition with the side as a parameter; where the code is
*not* symmetric, as in `can_fill_completely`, neither is the model.

Abstractions.  Prices are integers: the code compares and copies them and
subtracts two in `getSpread`.  `Quantity` is an integer modulo
`QuantityModulus`, and sums and differences wrap around.  An order's timestamp
is never read by the engine; in the model it is the time of arrival, so that
`Exchange` can speak of time priority without knowing of lists.
`Order.status` is set once and never changed or read by the engine, and is left
out, as are the statistics and the log lines.

### Environment

`Next` lets clients submit an id only when it does not rest in the book of that
symbol (`FreshId`).  The engine checks nothing of the kind, and the run
`reused_id`, whose `SpecAnyId` drops the assumption, shows what then happens.  A
filled, cancelled or refused order's id may be used again, and the same id may
rest in two symbols at once.  Cancels come for any id and any symbol.

### Server: state and actions

`ClientGateway` extends the engine's module: its actions take the engine's
actions as conjuncts, and `EngineAsSpecified` checks that what the server does to
the engine is what `Spec` allows.

| Variable | Code |
|---|---|
| `clients`, `fds` | the vector of descriptors and the set `select` reported, less those the round has passed |
| `sessions`, `subscriptions`, `event_log` | the members of `ClientGateway`; the log as the sequence of the requests in it |
| `serving`, `processing` | where the thread is: in `onMessage` for a descriptor, in `process_new_order` |
| `sent` | what the last handler sent, with the descriptor |
| `peer`, `wire` | the other end of each descriptor, and what it sends that was not received |
| `unhandled`, `shown`, `submitted`, `connections` | for properties and bounds: messages not handled, last snapshots, ids used, connections made |

| Action | Code |
|---|---|
| `Select`, `SelectAndAccept` | one round of the loop up to its `for`, without and with a new client |
| `ReceiveSome`, `Disconnect` | one iteration of the `for`: `recv` and `onMessage` up to its loop; the disconnects |
| `NothingToHandle` | `onMessage` leaves its loop: too little, or an invalid length |
| `handleLogin`, `handleSubscriptionRequest`, `handleMarketDataRequest`, `handleOrderCancel`, `Ignored` | one iteration of the loop: packet, handler, broadcast, erase |
| `handleNewOrder`, `EngineRuns`, `ReportOrder` (or `ReportCrashes`) | the same for an order: log and call, the engine's steps, reports, broadcasts and erase |
| `ClientConnects`, `ClientCloses` | the environment |

A message on the wire is two units, header and body, and a `recv` returns up to
`RecvSize` units, so it can end inside a message or span several.  `exact` says
whether an order's symbol came without trailing spaces.  A handler sends all its
packets in one step, `sent`, in the code's order; the descriptors of one
broadcast are in any order.  Types of order other than MARKET and LIMIT cannot
come over the wire (line 178).

Clients act when the server is about to `select`.  What arrives while it is busy
is seen at the next `select` or `recv` anyway, and a `recv` may return any part of what
is there, so no behaviour of the server is lost.  Messages have the size of
their structs and order ids are used once per behaviour.

Sends.  What is sent arrives whole; `peer` says whether the other end still
listens.  A client that has closed answers the first packet with a reset, and
from then on a send raises SIGPIPE, which ends the process: `crashed` may become
true in any handler that sends (`RaisesSigpipe`), or by the null pointer of
`ReportCrashes`.  Nothing but a restart follows a crash.

### Event log: state and actions

`EventLog` puts the server into a life of several processes.  `event_log` is
the file, a sequence of records; `replay_pos` is the position of `infile` in
bytes, and `Offset` the bytes before a record, 49 for an order and 32 for a
cancel.  `Crash` may come after any step, within an order or a replay too; the
file outlives it, for every record is flushed to the operating system.
`Restart` is `main` with or without `--replay-mode`: new pool, books, sessions,
and the log opened for appending.  `ReplayNext` reads 49 bytes and hands them to
`process_new_order`, whose steps are `ReplayEngine`; `ReplayDone` is the read
that finds less.  `Live` is any step of the server.  A crash between the write of
an order and its handling is `Crash` after `handleNewOrder`; between the write of
a cancel and its handling, `CrashInCancel`.

`handled`, `known` and `forgot` are for the properties.  `handled` is the set of
records that some process has handled to their end: the one that logged them,
when the handler returns, or a replay, when `process_new_order` returns from an
order whose 49 bytes were that record.  A cancel that is replayed is not among
them, nor an order that a replay reads in two pieces or not at all.  `known` is
the last of them and what the engine held when it was handled first; `forgot`
says that some restart did not replay.

At a position where a record begins, what is read is that order, or, for a
cancel, the order that its bytes and the first 17 of the next record make up
(`Misread`): the fields up to the side are in the same place, the type is the
low byte of the next record's `seq_num`, and price and quantity are what follows
there.  `gateway.py` leaves `seq_num` at 0, and the cancel is replayed as a
MARKET order; `s_client.py:70-72` counts its packets from 1, and
`client_gateway.cpp:178` takes any byte but 0 for LIMIT: the cancel then comes
back as an order of a tiny price, which may rest.  The constant `Opening` says
for each message what its first bytes make, and the scripts of `replay` have
records of both kinds.  Where no record begins, what is read is any order of the
instance.

### gRPC gateway: state and actions

| Variable | Code |
|---|---|
| `waiting`, `thread` | the executor's queue, and each worker: the line it is at, its call and its locals |
| `listener` | the same for the thread of `tcp_listener_loop` |
| `order_id_counter`, `user_queues`, `md_streams` | the attributes |
| `queues` | every `queue.Queue` that was made, by number: what the dict and the list refer to |
| `from_ome`, `connected`, `subscribed`, `booked` | the engine and the connection to it (external) |
| the others | for properties and bounds |

A step is one access to something shared, which is what the interpreter may
switch threads between: `+=` is `LoadCounter` and `StoreCounter`, the `return`
reads again (`ReturnCounter`); `in`, the assignment and the lookup of
`user_queues` are three steps, in the streams and in the listener; the listener's
`for` over `md_streams` is an index that `remove` does not adjust
(`PutSnapshot`).  `queue.Queue` has its own lock: `put` and `get` are one step,
and `get` on an empty queue may give up at any time.  A request of a snapshot
drops those of other symbols and begins its wait anew with each (`TakesOther`).  A stream looks its queue up
anew in each iteration (`LookupQueue`).  The engine answers in the order of what
it is sent, through `from_ome`, so answers take any time to be read; it does not
answer a query for a symbol without a book, as in `ClientGateway`.  It has other
clients, and sends a snapshot of a subscribed symbol whenever they trade, for ever
(`OmeBroadcasts`).
`OmeGoes` breaks the connection: a first part of what was on its way still
arrives, a send raises or is taken and lost (`SendFails`), and the listener ends.
A token is valid or not, by choice (`TakeCall`, `ReturnCounter`).

### Logger: state and actions

One action for each stretch of code between two points where another thread can
interfere.  A wait with a predicate is a loop: evaluate under the mutex, block
and release in one step, reacquire; `cv` is the set of blocked threads.
`notify_one` wakes any one of them.  Looking at the predicate and blocking are
two steps although the mutex is held throughout, because `exit_flag_` and the
notifications of the destructor do not respect the mutex: they can come between
the two.  A spurious wakeup is an action of the environment.

## 3. What is model-checked

| Run | Instance | Shows |
|---|---|---|
| `books` | two users; LIMIT orders of 2 prices, 2 sizes and 3 ids, FOK and MARKET orders, bids with the same ids in a second symbol; pool of 3, 4 accepted orders | the structural properties, through an exhausted pool and reused slots; the engine implements `Exchange` |
| `types` | all five types, refused requests, 2 ids, pool of 3, 3 accepted orders, quantities modulo 4 | what may rest, fills against the history, leaks, FOK all or nothing, and that calls return |
| `fok` | FOK orders against a few limits | a FOK order killed though the book can fill it (violated) |
| `reused_id` | ids not fresh | a filled order stays in the book (violated) |
| `logger_threads` | three threads that log and flush, 5 calls, a spurious wakeup | no line lost, doubled or out of order; nothing lost at exit |
| `logger_main` | the one thread that logs in this program, 6 calls | its lines are written and its `flush` returns |
| `logger_exit` | one thread | the destructor may hang (violated) |
| `gateway` | two descriptors, two connections, five client scripts | framing, sessions, subscriptions, snapshots, reports; the engine is used as specified; messages are handled |
| `keeps_serving` | one client that may leave | the server dies of SIGPIPE (violated) |
| `replay` | one descriptor, three connections, four orders of both numberings and a cancel, two crashes with restarts | a replay rebuilds the books and the trades; each process leaves at most one record unhandled; what rests is in the log and the replay ends, until it strays |
| `replay_cancels` | a bid and its cancel, one crash | the cancelled bid is back after the replay (violated) |
| `service` | two workers, one user, three calls of five kinds, endless snapshots, the engine goes once | queues, ids, broadcasts; what ends, and what can keep a call or the pool waiting |

### Properties of the engine

- `PoolSafety`: a slot is free, matching or resting, one of them at most, and
  free at most once.  `deallocate` checks none of it.
- `LookupAgreesWithLists`: lookup and lists name the same slots, once each,
  under the id, side and price of the order behind the slot.
- `LevelsNeverEmpty`: `front()` is defined wherever the code takes it.
- `NotCrossed`: the best bid is below the best ask, except while an order is
  matching.
- `RestingOrdersAreLive`, `TakerIsLive`: nothing rests that is filled, invalid
  or of a type that may not rest; no fill beyond the quantity, in spite of the
  wrapping arithmetic.
- `FilledMatchesHistory`: what the orders say was filled is what the history
  says was traded.
- `OnlyFokAndMarketLeak`: a slot that is neither free nor reachable held a
  killed FOK or an unfilled MARKET order: these two leaks are what the code
  does, and there is no other.
- `QuotesMatchLiveOrders`: the L2 quote, computed from the lists, shows the best
  prices of the orders that the lookup can cancel, best first, and with each
  what is left of them, as `uint64_t` adds it up; L1, spread and counts agree.
- `FokAllOrNothing`, `LoopProgress` (action properties), `CallReturns`
  (liveness), `RefinesExchange` (refinement).

### Properties of the server

- `SubscribersAreLoggedIn`: subscriptions are kept by descriptor, and a
  descriptor that is used again starts without any.
- `StreamInOrder`: for each connection, messages not yet handled = receive
  buffer followed by the wire, at every moment and for every cut.
- `SubscribersSeeTheBook`: the last snapshot a subscriber got is the book as it
  is, unless an order is being processed: no change goes unannounced.
- `EngineAsSpecified`: every step of the server is a step of the engine's `Spec`
  or leaves the engine alone, so what is proved of `Spec` holds in the server
  (`PromisesAreKept`, section 4).
- `TakerReportsAgree`: the last report of an order states the fill it has in the
  book, or that it is filled.
- `MessagesAreHandled` (liveness): whatever is sent is handled, unless an
  invalid length comes before it, the connection ends or the server crashes.
  The exception for invalid lengths is what the code does: `onMessage` returns
  with the header still in the buffer, and the session is deaf from then on.

### Properties of the event log

- `ReplayRestores`: when a replay has read the records that were handled to
  their end, the queues (with what is left of each order) and the trades are
  what they were when the last of them had been handled, whatever crashes came
  in between.  Claimed while only orders were handled and every restart
  replayed: a cancel in the log breaks it (`ReplayProcessesHistory`, which the
  run `replay_cancels` refutes), as does a restart without `--replay-mode`.
- `AtMostOneCutShort`: no process leaves more than one record that nobody has
  handled to its end, cancels in the log or not, replayed or not.  While every
  restart replays, what was cut short is made up for before the next record is
  logged, as long as no cancel is in front of it: of the orders up to the first
  cancel, only the last record can be unhandled.  Behind a cancel no more is
  claimed, since the replay reads those records in pieces: after a bid, its
  cancel and an offer that a crash cuts short, the replay ends in the middle of
  the offer, which is never handled.
- `RestingIsLogged`: with cancels and with restarts of either kind, what rests is
  in the log as it was submitted.  Claimed until the replay strays (`Strayed`):
  until it reads at a position where no record begins, as it does behind a
  cancel that is not the last record but one, or reads a cancel as a LIMIT order.
  Both may rest although nobody submitted them.  A cancel that is read as a
  MARKET order is inside the claim: it brings the id of the very order that it
  cancelled, trades, and leaves nothing.
- `ReplayEnds` (liveness): the loop of the replay ends, with a cancel at the end
  of the file too, unless it strays.  What it reads then may bring an id that
  rests already, and with a file that is long enough the matching loop may never
  end (section 5).

### Properties of the gRPC gateway

- `ReportsInOrder`: every report that the listener has put is taken once and in
  order, or waits in the queue that is the user's now.  It does not hold for a
  user whose queue was replaced by a stream that had found none (`replaced`):
  the two tests and assignments race, and the reports in the first queue are
  lost.  A queue that the listener replaces is empty, so that order of the race
  is harmless, and the run shows it.
- `IdsAreUnique`: no id is given twice unless two workers were in
  `get_order_id` at once (`raced`); if they were, both may read the same number.
- `BroadcastReachesAll`: a snapshot goes into no queue twice, and misses at most
  as many of the waiting queues as were removed during the broadcast.  That one
  may be missed is what the code does.
- `CallsEnd` (liveness): every call that is not a stream returns, and a stream
  gives its worker back when the trader has hung up, also when the engine is
  gone.  One exception: a request of a snapshot that is sent those of another
  symbol for ever begins its three seconds anew with each and never returns
  (`TakesOther`); the run has such behaviours.
- `CallsAreTaken` (liveness): a waiting call is taken, unless from some time on
  every worker has a stream whose trader stays or such a request.
- `ReportsReachTheStream` (liveness): a stream gets the reports that wait for its
  user, even if it began on another queue.

### Bounds

- `PoolSize`: 3 or 4.  Three slots are a taker, a maker and one order that
  neither touches; with four accepted orders every slot is reused and the pool
  runs dry.
- `MaxOrders`: 3 or 4 accepted orders.  It bounds `clock`, hence the history.
  Refused requests and cancels are not counted.  Four orders are enough for a
  queue of two, a second level and a taker that crosses both.
- `MaxPrice`, prices: 1 and 2 (0 and -1 for refused and MARKET orders).  Two
  levels of a side are enough for a level to be better, equal or worse.
- Quantities: two sizes, so that maker and taker are each filled in part, and
  both at once.  `QuantityModulus` is 8 where nothing should wrap and 4 in
  `types`, where the sizes 1, 2 and 3 make the check of a FOK order hit, miss
  and wrap around to its target.
- `MaxCalls`: 3 to 6 calls of the logger; `MaxSpurious`: one spurious wakeup,
  enough to put any waiter back before its predicate at any moment.
- `Scripts`: five sequences of messages, with a request before the login and
  every type after it, an order and its counterpart on one and on two connections, a cancel
  of a live, a filled and an unknown order, a padded symbol, a refused order, an
  unknown type and an invalid length.
- `RecvSize` 3 with two units a message: cuts within a message and `recv`s that
  hold one and a half.
- `MaxConnections` 2 on two descriptors: both at once, or one after the other
  on one descriptor.  `PoolSize` and `MaxOrders` are 2 there: the engine has
  runs of its own.

- `replay`: at most three records in the life of one process and four in the
  file; `MaxRestarts` 2, so that a crash in a replay is followed by another
  replay, and `PoolSize` 3.  A cancel ends the file, or is followed by an order
  with `seq_num` 0 or another, or by two orders, of which the replay reads the
  first half as it strays.  Three connections, because a file that is one order
  longer gives a replay that has strayed the means to loop for ever, and the
  history grows with each round: `ReplayEnds` and `RestingIsLogged` say nothing of
  such a replay, and TLC would not end.
- `service`: two workers are every race that the lack of a lock allows between
  two calls, with the listener as a third thread; `MaxCalls` 3 leaves a call
  waiting, or starts one after another has ended.  `MaxBacklog` 1 lets the engine
  send unasked only when the listener has nothing before it and no market data
  queue holds anything; it may do so again and again, and what the calls
  themselves cause comes on top.  One user is enough for the
  liveness properties; that users do not get in each other's way is proved
  (`QueuesAreOwned`).

Symmetry of the ids (and of the threads other than `Main`) is used in runs of
safety properties only.

### Fairness

`FairSpec` of `MatchingEngine` is weak fairness of `EngineStep`: the thread
inside `process_new_order` keeps running; nobody need submit or cancel.
`FairSpec` of `Logger` is weak fairness of each thread's own steps.  The mutex
needs no strong fairness in `logger_main`, whose one client and one worker
cannot starve each other for ever within a bounded number of calls.  No call
need begin, and the destructor need not run.

`FairGatewaySpec` is weak fairness of the server's thread as a whole: which
descriptor a round serves first is left open, and clients need do nothing.
`FairEventLogSpec` is weak fairness of the replay, which `main` runs through;
nobody need restart anything.  `FairServiceSpec` is weak fairness of each
worker and of the listener, which are threads of one interpreter; a `get` has a
timeout, so a worker in it can go on whenever its queue is empty.  Nothing keeps
the engine from sending between any two of them: it need not answer, it need not
stop, and traders need not hang up.

The liveness of the logger is claimed for one logging thread, which is what the
program has.  With two, a thread waiting in `flush` can swallow the
`notify_one` meant for the worker, since both wait on one condition variable,
and a line then waits for the next one.

## 4. What is proved

Proved with TLAPS for every value of the constants that meets the assumptions,
and for every behaviour; the runs show the same formulas on small instances.

| Module | Theorem | States |
|---|---|---|
| `MatchingEngineProofs` | `Invariance` | `Spec => []IInv` |
| | `TypeCorrectness`, `PoolIsSafe`, `LookupIsConsistent`, `FrontIsDefined`, `NeverCrossed`, `OnlyLiveOrdersRest`, `NeverOverfilled` | the seven conjuncts of `IInv` |
| | `LoopAlwaysProgresses` | `Spec => LoopProgress` |
| | `LeaksAreKnown` | `Spec => []OnlyFokAndMarketLeak` |
| | `QuotesAreRight` | `Spec => []QuotesMatchLiveOrders` |
| `ExchangeProofs` | `ArrivalInvariance` | `Spec => []EInv` |
| | `EngineImplementsExchange` | `Spec => RefinesExchange` |
| | `FokIsAllOrNothing` | `Spec => FokAllOrNothing` |
| | `FillsAreReported` | `Spec => []FilledMatchesHistory` |
| `LoggerProofs` | `LoggerInvariance` | `Spec => []LInv` |
| | `LoggerTypeCorrectness`, `NoLineIsLostOrDoubled`, `DestructorLosesNothing` | `TypeOK`, `EveryLineOnce`, `NothingLostAtExit` |
| | `FlushWaitsForAllButOne` | `Spec => FlushLeavesAtMostOne` |
| `GatewayProofs` | `GatewayInvariance` | `GatewaySpec => []GInv` |
| | `GatewayTypeCorrectness`, `OnlyLoggedInSubscribe`, `StreamIsKept` | `GatewayTypeOK`, `SubscribersAreLoggedIn`, `StreamInOrder` |
| | `EngineUnderServer` | `GatewaySpec => EngineAsSpecified` |
| | `PromisesAreKept` | `GatewaySpec` implies `RefinesExchange`, `PoolSafety`, `NotCrossed`, `FilledMatchesHistory` and `QuotesMatchLiveOrders` |
| `MarketDataProofs` | `BooksAreAnnounced` | `GatewaySpec => []SubscribersSeeTheBook` |
| | `ReportsAreRight` | `GatewaySpec => TakerReportsAgree` |
| `EventLogProofs` | `LogInvariance` | `EventLogSpec => []LInv` |
| | `HandledButForOne`, `RestingOrdersAreLogged` | `AtMostOneCutShort`, `RestingIsLogged` |
| | `RestartsAreSafe` | `EventLogSpec` implies `StreamInOrder` and `SubscribersAreLoggedIn`, and, while no replay has strayed, `PoolSafety`, `LookupAgreesWithLists`, `NotCrossed` and `QuotesMatchLiveOrders` |
| | `ReplaysRestore` | `EventLogSpec => []ReplayRestores` |
| `ServiceProofs` | `ServiceInvariance` | `ServiceSpec => []SInv` |
| | `IdsUnlessRaced`, `ReportsKeepTheirOrder`, `BroadcastMissesOnlyLeavers` | `IdsAreUnique`, `ReportsInOrder`, `BroadcastReachesAll` |

Assumptions.  `EngineAssumption` (bounds are naturals, requests are well formed
orders), `QuantityModulusAssumption` (positive), `NoOrderAssumption` (the blank
of the pool is no order that can arrive), `LoggerAssumption`,
`GatewayAssumption` (scripts are sequences of messages with the fields the
handlers read, none with an id twice), `EventLogAssumption` (the number of
restarts is a natural, a cancel also has a user and a side, which a replay
reads, and the first bytes of a message make some type, price and quantity, MARKET
and LIMIT both allowed) and `ServiceAssumption` (calls have a method, a user and a symbol, and the bounds are
naturals),
which TLC evaluates in the runs; and
`FreshId`, which is part of `Spec` and is *derived* for the server from what
`ClientConnects` asks of clients.

**The engine.**  None of the seven invariants is inductive alone, and their
conjunction `IInv` is.  Removing a filled maker goes *by id*, so `PoolSafety`
after a match needs the lookup to lead from the maker's id to the maker's slot
(`LookupAgreesWithLists`); the maker exists only if no level is empty
(`LevelsNeverEmpty`); the lookup stays one-to-one only if the resting order's
id was fresh, and it stays so while the call runs only because the taker is in
no list (`PoolSafety` again); an order rests uncrossed (`NotCrossed`) because
the loop has ended, which for a type that may rest means that the best price of
the other side is not acceptable; and the wrapped differences are true
differences only while nothing is over-filled (`TakerIsLive`,
`RestingOrdersAreLive`).  `IInv` is regrouped into a part about each book and a
part about the variables one by one (`Regroup`); the lemmas on `add_order` and
`cancel_order` (`BookLemmas`) say what the two do to a consistent book, and one
lemma for each action carries the invariant over its step.

What the engine keeps does not all need `FreshId`: `SafeInv` is `IInv` with
`TakerMayRest` for `TakerIsLive`, which asks for a fresh id only of an order that
may rest.  A step with such an order keeps `SafeInv`, and that is what there is
during a replay, where a cancel read as a MARKET order brings the id of the very
order that it cancelled.

**Quotes.**  The code computes them from the lists, the property counts with the
orders that the lookup finds.  A level's nodes and the ids at its price are in
bijection, so their sums agree, modulo `QuantityModulus` as the code adds them;
and each quoted price has a rank, the number of prices that are better, which
says at once that prices come best first, each once, and that none is missing.

**The refinement.**  `Exchange` knows a set of orders and their times of arrival,
the engine knows lists.  `EInv` adds to `IInv` what relates the two:
`ArrivalOrder` (each queue is in the order of arrival and no two orders have the
same time, so the front of the best level is the one order with priority, and
no two slots collapse into one element of the set), and `FokCovered` (while a
FOK order matches, the acceptable orders of the other side cover what is left
of it).  The latter is where the unsigned check pays: the walk sums modulo
`QuantityModulus` and accepts only an exact hit, and the proof shows that a hit,
wrapped or not, means that at least the quantity asked for is there, since the
true sum is then the quantity plus a multiple of the modulus.  The sums are over
nodes of the lists in the engine and over orders in `Exchange`; `BookLemmas` moves
them along the bijection.  Each action of the engine is then one action of
`Ex!Next`, or a stutter.

**History.**  `FilledMatchesHistory` is a sum over a growing tape.  `HInv` adds
`NothingNewer` (no trade is newer than the clock), so that an order that arrives
has no trade yet even when its id was used before.

**The logger.**  `LInv` says where each thread is, who holds the mutex, who is
blocked, and that each line is in exactly one of the file, the worker's hands
and the queue, in order; the windows of `processLogs` without the mutex are
cases of their own.  It is proved for any number of threads, calls and
spurious wakeups.

**The server.**  `ServerInv` is about the server and its log alone: the types,
`StreamKept` (messages not yet handled = buffer followed by wire, by position, so
that the front of the buffer is always the front of a message), `IdsOnce` (an id
is in what is still unhandled of one connection, or in the log, and never in
both) and `SubscribersAreLoggedIn`.  It holds whatever the engine does.  `GInv`
adds `IInv` and `LiveIsLogged`: an order that is live, and may rest, is in the
log.  The two together turn the clients' promise to use an id once into `FreshId`
at the moment when a handler calls the engine, and with it each step of the
server is one of `Next` or a stutter: `EngineUnderServer`.  `PromisesAreKept`
composes that with the theorems above.

**What clients are sent.**  `MarketInv` relates what each client was shown last to
the quote of the book, but for the one symbol whose order is being processed.
A step of the engine changes the quote of no other symbol, since a book lists
only orders of its own symbol.  At the end of the handler the snapshot goes to
every subscriber: the broadcast skips who is not logged in, and
`SubscribersAreLoggedIn` says that this is nobody.  A symbol without a book is not
broadcast, and was shown to nobody.  For the reports, `CallOf` follows the call
of the order in hand: the handler does not read the fill from the engine but
reduces a copy by the trades it was returned, so the proof carries "filled = the
sum of the trades of this call" from the first iteration to the return.  It also
carries that no trade was with an order of the same id: else the last report
under that id would be the maker's.

**Crashes and restarts.**  `LInv` is `ServerInv` with the state of the file: a
replay has read whole orders' worth of bytes and not beyond the end
(`ReplayState`); each process leaves at most one record unhandled, and, while all
restarts replay, what is unhandled in front of the first cancel is the last
record, and is being handled, was cut short by the crash, or is still before the
replay (`HandledState`); and the engine holds only what it was given of the log
(`LogGiven`), which in a replay is the part that was read.  That keeps the id of
the next record out of the books, because an id is in the log once.  The first
parts hold whatever the file makes of the engine; what is said of the engine
(`EngineState`) is said while no replay has strayed, and includes replays that
read a cancel as a MARKET order.  `ReplayRestores` compares two processes,
and no invariant of one engine implies it.  `RInv` adds `Repeats`: the state of
the engine, and what is known from before a crash, are both on the run that the
engine makes of the log.  The engine's steps are written as functions on the
values of its state (`EngineAt`), so a run is a sequence of values that outlives
the process; any two runs on one log agree as far as both go (`RunsAgree`), also
when the log has grown since, and a run has one idle state for each number of
records (`IdleIsUnique`).  So when the replay has handled as many records as were
handled before, it is in the same state.  That the records are 49 bytes each, as
long as there are only orders, leads from `replay_pos` to their number.

**The gRPC gateway.**  `SInv` says who uses which queue: each number that the
dict, a stream in `get` or the listener before its `put` holds was made, is of
one user only, and is on no list of market data (`QueuesAreOwned`), so that a
report and a snapshot never meet in a queue.  `ReportsNumbered` counts the
reports by where they are: the number a report has, and those to its user
behind it, add up to what was sent, also when the connection breaks and takes
the last of them.  `QueueIsCurrent` is what makes the race on the dict harmless
for a user whose queue no stream has replaced: who looked a queue up has the
one that the dict has now, or one that is empty and that nobody will fill.  With
the three, `ReportsInOrder` is inductive.  For a broadcast, the queues that are
neither served nor still to come are at most as many as left (`BroadcastKept`):
the iterator is an index, and a removal before it moves one queue to a place it
has passed.  The number of workers, users and calls is not bounded; before it
was proved, `SInv` was checked with two workers, two users and three calls.

Sums and finite sets.  The library's induction theorems have an operator as
parameter, which these provers cannot instantiate; with a *set* as the predicate
the same induction over finite sets can be proved and used (`SubsetInduction`,
`AddingInduction` in `BookLemmas`), and every fact about sums rests on it.  Sums
over sequences are written as sums over their positions, for which these facts
serve; for `SelectSeq`, `SortSeq` and `FoldLeft` there are none.

**Only model-checked**: liveness, because fairness and `ENABLED` are beyond the
prover: `CallReturns`, `LinesAreWritten`, `FlushReturns`, `MessagesAreHandled`,
`ReplayEnds`, `CallsEnd`, `CallsAreTaken`, `ReportsReachTheStream`.
`LoopProgress` is the part of `CallReturns` that is proved: no iteration of the
matching loop is in vain.  Every invariant and every action property that a
passing run checks is a theorem.

## 5. Findings

Shown by a run each:

1. `matching_engine.cpp:162` (`fok`): the unsigned `needed_qty <= 0` accepts only
   an exact sum; a FOK order smaller than what it would take is killed.  In the
   same loop (line 168), a FOK sell is checked from the lowest bid up and gives
   up at the first one below its price.
2. `matching_engine.cpp:76`, `order_book.cpp:19` (`reused_id`): an id submitted
   again while it rests leaves a filled order in the book whose slot is free.
3. `logger.cpp:24` (`logger_exit`): the destructor can miss the worker and hang.
   The server's `main` never returns, so this concerns the tests and the
   benchmark.
4. `tcp_server.cpp:33` (`keeps_serving`): a send to a client that has gone raises
   SIGPIPE, and nothing ignores it.
5. `client_gateway.cpp:277` (`replay_cancels`): cancels are written to the log and
   not replayed; behind one, the file is read at the wrong offset.

Seen while modelling:

- `matching_engine.cpp:46`: an unfilled MARKET order's slot is lost, though the
  comment at line 51 says "Deallocate if fully filled or a market order"; so is a
  killed FOK order's (line 29).  `OnlyFokAndMarketLeak` proves that these are all.
- `client_gateway.cpp:228`: the report for the resting side carries an order id
  where its user belongs, goes to the taker's connection and always says
  "filled" (the comment at line 222: "Send to otherside of user").  In
  `gateway.py`, which routes by user, it may land in the queue of a user whose
  number is that id.
- `client_gateway.cpp:234`: the book is looked up by the symbol as it came; a
  padded one has no book, and the null pointer is used (`ReportCrashes`, reached
  in the run `gateway`).
- `logger.hpp:44`: `flush` returns when the queue is empty, which may be before
  the last line is in the file; `FlushLeavesAtMostOne` is what holds.
- `client_gateway.cpp:260`: an order that the engine refuses is reported as new.
- `client_gateway.cpp:178`: a cancel that is read as an order is replayed as a
  MARKET order of its side if the next record's `seq_num` is 0, and else as a
  LIMIT order under the id that it cancelled.  `add_order` then overwrites the
  lookup if that order rests again, as it does (finding 2, from the log).
- `matching_engine.cpp:61-78`: behind a cancel the replay may read an id a second
  time.  Two bids of one id, the first of them filled: the lookup leads to the
  second, which is removed in its place, and the filled one stays at the front.
  The next sell trades a quantity of 0 with it for ever, and the server does not
  start.
- A restart without `--replay-mode` goes on appending to the old log.
- `gateway.py:89`: the ids of orders start again at 1 with every start of the
  gateway, while the engine and its books go on (types.h:8: "64-bit unique
  identifier").
- `gateway.py:218`: a snapshot request starts its three seconds again with every
  snapshot of another symbol, since all of them go to its queue; it times out
  only if they pause.  While they do not, the call never returns and its worker is
  lost to the pool; `CallsEnd` and `CallsAreTaken` hold but for that (`TakesOther`).
- `gateway.py` serves `Login` and sets `user_id` in reports; `proto/trading.proto`
  declares neither.

## 6. Not modelled, and the plan

Left out for good: the counters of the engine (never read), formatting and the
minimum level of the logger, parsing of the command line, the widgets of the
UI, the scripts that drive the server.

Left out of the modules:

- sends that a full socket buffer cuts or loses, in the server (`send` on a
  non-blocking socket) and in the gateway (`sendall` in parts): both need a
  reader that stays behind, and the readers are scripts here;
- messages shorter than their struct: what is read beyond them is, to the
  engine, an order with arbitrary fields, and the scripts hold arbitrary orders;
- torn writes of the log and failures of the machine: `flush` reaches the
  operating system, and no `fsync` promises more;
- the `is_open()` checks of the two files (`logger.cpp:67`,
  `client_gateway.cpp:129` and `332`): both are taken to be open, so that what the
  properties say of the file is said of a server that could open it;
- prices that are not numbers: a NaN from the wire compares false with every
  price, and as a key breaks the order of the map of levels;
- the blotter of the UI, one thread that follows one stream.

Still to do: `sendall` in parts with a bounded buffer, and a second misread
cancel in `replay`.
