# A verification project for the prediction market

This directory holds TLA+ models of the prediction market's trading core, the
TLC configurations that check them on small instances, and TLAPS proofs of what
matters most for every instance. `PROJECT.json` lists components, runs, mutants,
the definition-to-source map, hazards, findings and theorems.

Paths below are relative to the repository; `service.go` and `order_batch.go`
are in `go-backend/internal/trading/`.

## 1. The system

| Component | State it keeps | Operations | Interacts with |
|---|---|---|---|
| Trading service (`service.go`) | markets, orders, balances, positions, index of engine ids, failure latch | `CreateMarketFor`, `Deposit`, `Place`, `Cancel`, `ResolveFor`, `RecoverEngine`, `Close` | engines (gRPC, through the router), WAL, projector, quotes |
| Order admission (`order_batch.go`) | `pending`, `running`, `closed`, worker goroutine | `enqueue`, `drainOrders`, `placeBatchWithQuotes` | HTTP callers, trading service |
| Durability (`service.go`, `checkpoint.go`) | WAL, previous WAL segment, snapshot file | `appendMany`, `replayFile`, `loadSnapshot`, `Snapshot` | file system |
| Projector (`store/projector.go`) | PostgreSQL tables, event ids seen | `ApplyBatch`, `Migrate` | trading service |
| Router and clients (`internal/engine`) | owner of each symbol, connections | `AddOrders`, `AddOrder`, `RemoveOrder`, `AddBook`, `Quote` | trading service, engines |
| Engine (`engine/src`) | books by symbol, next order id | `add_book`, `add_order(s)`, `remove_order`, `get_quote` | router |
| Order book (`engine/src/orderbook.cpp`) | price levels, tombstones, lookup, counters | `add_order`, `remove_order`, `compact_orderbook`, best bid and ask | engine |
| Quotes, cache, hub | versioned quotes, subscribers | publish, read | trading service, Redis, WebSocket clients |
| API process (`cmd/api`, `internal/server`) | phase of start-up, connections, snapshot ticker, shutdown hook | `NewServer`, handlers, `gracefulShutdown` | everything above, operating system |
| Authentication (`internal/auth`) | users table, tokens in clients' hands | `Register`, `Login`, `Middleware`, `RequireOwner` | PostgreSQL, handlers |
| Metrics, load test, scripts | none that the core reads back | | |

An order travels like this: the handler calls `Place`; `enqueue` puts it in a
queue of 128; the worker takes a batch, and under the state lock checks it,
**commits its reservations**, sends it to the owners of its markets at once,
turns their answers into fills, **commits those**, and only then answers the
callers. Any result that cannot be known for certain latches a failure; API and
engines are then restarted together and `RecoverEngine` rebuilds the books from
the durable orders.

### What is hard here

* The money is in one process and the matching in others. Every step between the
  two commits can fail with the engine ahead of the ledger.
* A batch is checked against balances none of its own orders has changed yet,
  and its fills name orders that exist only in its staging area.
* Recovery replays orders under new engine ids, and can itself be interrupted.
* Settlement removes orders, returns reservations and pays out in one commit.
* Admission has a worker that ends by itself, callers that leave, and a `Close`
  that races with both.
* The C++ book keeps vector indices through compactions and dead levels.
* The log is rotated and a snapshot published while orders are acknowledged, and
  a crash or power loss can fall between any two system calls.
* Quotes leave the state lock before they are published and overtake each other.
* The same record is projected before a crash, by its replay, or both; what PostgreSQL
  refuses once it refuses at every start.
* Shutdown runs in a hook that `main` does not wait for, next to handlers that still
  hold or wait for the lock.

### What makes each component correct

* Service: deposits are the only source of cents; shares come in pairs; nobody
  overdraws; while it serves, memory is what a crash would rebuild and the
  engines hold exactly the ledger's active orders, in order of admission;
  an acknowledged order survives anything; a failure is not for ever.
* Admission: one worker, no lost wakeup, first in first placed, no success for an
  order that was not placed, no refusal of one that was or will be, everything drained
  before the WAL closes, no caller waits for ever.
* Order book: price-time priority, an exact lookup, sound quotes, bounded garbage.
* Durability: acknowledged records are recovered, recovery yields a gapless history,
  start-up accepts whatever files a crash leaves, PostgreSQL equals the ledger.
* Quotes and hub: a quote is the book at its version, the cache never goes back and
  does not stay behind, no send on a closed channel.
* API process: the tables equal the ledger it answers from, admitted orders finish before
  their connections close, nobody unknown to PostgreSQL is in the ledger, and a process
  that is down comes up again.

`PROJECT.json` lists 40 hazards at their lines, with the properties that would
catch each or the reason why there is none yet.

## 2. Modules

| Module | Models | Extends / instantiates |
|---|---|---|
| `Ledger` | records of `service.go`, price translation, what each event does to a ledger | |
| `PriceTime` | price-time priority over a set of resting orders | |
| `TradingService` | the service, its engines, faults, restart and recovery | `Ledger`, `PriceTime` |
| `TradingProperties` | the service's safety, action and liveness properties | `TradingService` |
| `TradingInvariant` | the inductive invariants of the proofs: `IInv`, `SInv`, `PInv` | `TradingProperties` |
| `TradingFlight` | the inductive invariants of the books and of the accounts: `FInv`, `AInv` | `TradingInvariant` |
| `LedgerProofs`, `TradingProofs`, `TradingBookProofs` | proofs, each module on top of the one before | `TradingFlight`, TLAPS |
| `OrderQueue` | `enqueue`, `drainOrders`, `Close` | |
| `OrderQueueProofs` | proofs | `OrderQueue`, TLAPS |
| `MatchingBook` | what a book promises (abstract) | `PriceTime` |
| `OrderBook` | `orderbook.cpp`: levels, tombstones, lookup, compaction | `PriceTime`; instantiates `MatchingBook` |
| `OrderBookInvariant` | the inductive invariant of the book | `OrderBook` |
| `OrderBookProofs` | proofs | `OrderBookInvariant`, TLAPS |
| `WalCheckpoint` | log, rotation, snapshot and replay by system call; projection of records | |
| `WalInvariant` | what the next process may find, and the inductive invariant of the files | `WalCheckpoint` |
| `WalProofs` | proofs | `WalInvariant`, TLAPS |
| `Quotes` | quotes of a market, Redis key, hub and its subscribers | |
| `QuotesProofs` | proofs | `Quotes`, TLAPS |
| `Projection` | the PostgreSQL tables: what a record does to them and when they refuse it | `Ledger` |
| `Server` | the API process from start to exit, authentication, handlers, ticker, hook | `Projection` |
| `ServerInvariant` | the inductive invariant of the process | `Server` |
| `ServerProofs` | proofs | `ServerInvariant`, TLAPS |
| `MCTrading`, `MCTradingPartitions`, `MCOrderQueue`, `MCOrderBook`, `MCWalCheckpoint`, `MCQuotes`, `MCServer` | instances for TLC | |

A definition that begins with the comment "Mutation:" is not part of a
specification: it is a plausible bug, and TLC must refute the property
`PROJECT.json` pairs it with once it replaces the definition after it.

### `TradingService`

All public operations hold `s.mu` from their first check to their last commit,
so one operation is in flight at most: `op` says which, `pc` where it is
(`admit`, `commit`, `engine`, `stage`, `fill`, `remove`, `recover`), `after`
where a successful commit leads. What interleaves with it are the engines, each
executing its share of a batch one trade at a time, and the faults.

* `mem` is the service's maps, `disk` what a replay would rebuild. `Commit`
  writes both. `CommitFails` latches a failure with the record durable or not
  (a failing write or sync, or a failing projection after a durable record) and
  memory unchanged.
* `AdmitNext` is one turn of the admission loop: duplicate in the batch, retry of
  a known order, admitted, rejected. `Affordable` is the per-order check and the
  aggregate check of the batch.
* `EngineAccept`, `EngineMatch`, `EngineFinish` are `add_orders` of one engine;
  engines run concurrently and in any order relative to each other.
* `StageOrder`, `StageFill`, `FillsDone` are the completion loop and
  `buildTradeEvents`; a fill whose order is unknown is skipped, as in the code.
* `Cancel`, `ResolveFor`, `RemoveOrder`, `RemoveRejected`, `RemoveDone`: orders
  leave the engine one by one, then one commit. A refused removal returns an
  error without a latch.
* `Start`, `RecoverNext`, `RecoverDone`: replay, then each active order is
  submitted with its unfilled quantity in order of admission, its new id and its
  fills committed separately. An error during recovery ends the process.
* Faults, at most `MaxFaults`: `AddBookUncertain`, `CommitFails`, `EngineError`,
  `Crash`, `EngineRestart` (one engine alone loses its books).

Abstractions and assumptions:

* API and engines restart together, as `ErrRecoveryRequired` and the stack's
  recovery procedure demand: `Start` empties the engines. A lone restart of an
  engine is a fault; a lone restart of the API against engines that still hold
  orders is not modelled (it would submit every order a second time).
* A request whose context has ended at admission is a batch without it.
* `ResolveFor` removes orders in any order; the code sorts them by id.
* After an engine error the books are left as they are: no step reads them again
  before a restart empties them.
* `Sequence` counts admitted orders; the code counts events. Only the order of
  two sequences is ever used.
* Engine ids are handed out in order of arrival, because the service serialises
  its calls.
* The mode without an engine (`cfg.Engine == nil`, tests only) is left out.
* Quotes read after a commit change no state and are left out.

### `OrderQueue`

`pendingMu` makes an admission and a take atomic; both are one action. The loop of
`placeBatchWithQuotes` appears one request at a time (the context is looked at
again for each), followed by the success or failure of the batch. `Expire` ends a
context at any moment; both arms of `enqueue`'s `select` may run when both are
ready. `Workers` are goroutine slots, so that a second worker can be expressed
and excluded; which free slot a new worker gets is immaterial. Rejections, batch
failures and a latch found by the batch (`BatchRefused`) are nondeterministic here and
explained by `TradingService`. Publishing quotes between placing and replying
is left out: it has its own deadlines.

Errors are kept apart the way `durableOrderHandler` keeps them apart: "retry" is its 503
(deadline, disconnect, full queue, latch) and "invalid" its 400 (everything else, the
error of a closed service included). `RefusedNeverPlaced` says that the second is never
given for an order that was placed or still can be: a client that drops the order on 400
and repeats it under the same id on 503 loses nothing and orders nothing twice. Each call
carries an order of its own; repetitions of an id are `TradingService`'s.

### `OrderBook` and `MatchingBook`

`OrderBook` keeps `levels` (side, price, vector of entries that may be
tombstones), `lookup` (id to side, price and index), and the two counters.
The matching loop is one action per iteration: `EraseDeadLevel`, `ExecuteTrade`,
`RestOrder`; `MarkOrderDeleted` includes the compaction it may start.
`MatchingBook` is a set of orders with price-time priority. The refinement
mapping takes the entries that are not tombstones; `EraseDeadLevel` and
compaction map to stutters. `TradingService` uses the abstract book, so this
refinement carries over to it.

### `WalCheckpoint`

Refines by hand what `TradingService` calls `disk`: one record per commit, known by its
sequence number and an identity that is never reused. A file is the sequence of
records a reader sees with the length of its fsynced prefix; a directory is what a
reader sees (`dir`), what the last directory sync made durable (`ddir`) and the
operations since (`pending`). `Crash` keeps the page cache. `PowerLoss` keeps the
fsynced prefix of each file and any part of the rest, the last record possibly
torn, and of `pending` a prefix (`Journaled`) or any subset.

`cpc` is where `commitMany` is and `kpc` where the checkpoint is; `Unlocked` is `s.mu`,
which a commit holds throughout and a checkpoint up to `SyncCreated`. `CommitError` and
`CheckpointError` fail any call: in a commit and under the lock they latch, in
`writeSnapshot` and after it they do not. `Start` is `NewWithConfig`: snapshot, previous
segment, current segment, each record projected; its only writes cut torn tails, so it
is one step, and `StartError` is a database that goes away in its middle. `db` is PostgreSQL
as the sequence of records whose transaction committed.
`RecoverEngine` commits (and so fsyncs) before the service is up when orders are active. `Start`
leaves that out and serves at once, as a start-up without active orders does; the trace of
`AckFsynced` is one of those.

Assumptions: an fsync that fails has done nothing and a later one makes up for it
(some kernels drop the pages instead); bytes appended to a file survive in order; WAL and
snapshot share one directory, as `server.go:68` configures; `Sync` is true, as there.

### `Quotes`

One market. `Commit` is everything the state lock covers: the engine changes, the ledger
commits, `readQuotes` takes the quote. Each publication is a `flight` through the
Redis script and then, subscriber by subscriber, the hub. `Expire` respects time in one
respect: a key lives sixty seconds after its SET and a publication two at most, so it does
not expire while a publication that began before that SET is still under way. Loss of the
key by a Redis restart is outside that assumption: an old publication could then be
stored again until the next one or the expiry.
`Rebuild` is taken when the cache is empty; the code also rebuilds after any other failing
`Get`, with a quote of the current sequence, as here.

### `Projection` and `Server`

`Projection` is `store/projector.go`: `ApplyBatch(t, r)` gives the tables after the
transaction of a record, `Fits(t, r)` says whether the constraints let it commit (balances
at least zero and a BIGINT, quantities an INT, unique symbols, markets that exist).
`MaxInt` and `MaxBigint` are constants. Abstractions: a record is admitted as a whole, since its
events are inserted in one transaction under ids given once; balance checks look at the net
effect of a record, which is exact because the events of one record only debit or only credit
a user; the upgrade of an older schema by `Migrate` is left out.

`Server` follows one API process after the other over `log`, `snapshot`, `tables` and
`users`:

* `Launch`, `Migrate`, `ReplayRecord` / `ReplayRefused`, `ReplayDone`, `RecoverNext`,
  `RecoverDone` are `NewServer`; `StartupFails` is any error on the way, the ten seconds of the
  migration and of the recovery included (time itself is not represented).
* `op` is the operation that holds `s.mu` and `step` where its commit is: `AppendRecord`,
  `ProjectRecord` and their failures, then `EngineAnswers` between the two commits of an
  order. `Fail` is the latch, or the panic during recovery; the sequence stays ahead of the
  maps, as in `commitMany`.
* `Register`, `RegisterFails`, `Login`, `Submit`: a request acts for the user of its token.
  `waiting` holds the handlers that have passed authentication and wait for a lock; these
  survive the end of the listener. Orders go through `Enqueue`, `TakeOrder`, `PlaceOrder`.
* `Freeze`, `Publish`, `CheckpointFails` are a checkpoint of the ticker or of the hook.
* `Signal` and the `Hook` actions are the shutdown; `MainReturns` may come at any
  step of the hook, because `http.Server.Shutdown` does not wait for it.

Abstractions: batches of one order and at most one trade per answer of the engine (batches
and priority are `TradingService`'s, files are `WalCheckpoint`'s); `s.sequence` counts records;
an engine id is 0 or 1, in the engine or not; the part of the log that a snapshot
covers is dropped when the snapshot is published, since replay skips it; settlement is left to
`TradingService`; a token that has expired is a client that makes no request until it logs in
again; a repeated order id changes nothing, so retry and conflict are both `RejectOrder`.

## 3. Runs

| Run | Instance | Shows |
|---|---|---|
| `trading` | 1 market, 2 users, 5 orders on all four sides, batches up to 2, 1 fault; 1.4 M states | type correctness, `CashConserved`, `SharesPaired`, `NoOverdraft`, `BookMirrorsLedger`, `PriorityKept`, `MemoryIsDurable`, `EngineIndexExact`, `AckDurable`, `ReservedBeforeEngine`, `HistoryOnlyAdvances`, `SettlementFinal` |
| `partitions` | 2 markets on 2 engines, a symbol asked for twice, 3 orders, 2 faults, fairness; 0.7 M states | `BookMirrorsLedger` across owners, `ReservationSettles`, `ServesAgain` (operations without a deadline may hang) |
| `settlement` | 3 orders, no fault | `WinnersPaid` is **violated** (below) |
| `orderbook` | 6 orders of four kinds, any removals; 0.2 M states | `ImplementsMatchingBook`, `LookupExact`, `QuotesSound`, `GarbageBounded` |
| `queue` | 3 calls, queue 2, batch 2, 2 worker slots, fairness; 0.7 M states | `OneWorker`, `NothingStranded`, `PlacedInOrder`, `SuccessIsPlaced`, `RefusedNeverPlaced`, `ClosedIsDrained`, `EveryCallReturns`, `CloseEnds` |
| `checkpoint` | 3 records, 2 faults (crash or power loss), 1 failed call, ordered directory; 2.5 M states | `AckSurvives`, `NeverRefused` |
| `checkpoint_power` | 2 records, 2 power losses, 1 failed call, unordered directory, fairness; 0.3 M states | `AckSurvives`, `ExactHistory` (no gap in memory, every record projected once), `PreviousGoes` |
| `wal_retry` | crashes and repeated requests | `AckFsynced` is **violated** (below) |
| `wal_unordered` | crash and power loss, unordered directory | `AckSurvives` is **violated** (below) |
| `quotes` | 3 commits, 1 rebuild, 2 subscribers with one slot, fairness; 0.7 M states | `QuotesCoherent`, `NewestWins`, `NoSendOnClosed`, `StaleEnds` |
| `server` | 1 user, 1 market, 2 orders, 1 too wide, 2 faults or signals; 2.4 M states | `TablesMatchLedger`, `ShutdownSparesOrders`, `LedgerUsersRegistered`, `OnlyWidthStopsReplay` |
| `widths` | the same, no fault, fairness | `ComesUp` is **violated** (below) |

Deadlock is checked in the runs of the service, of the process and of the order book. The queue stops
when it is closed and its callers have returned, the files when the service has latched
and nobody restarts it, quotes when nobody trades.

Why the bounds are enough to be interesting: the prices make orders cross at
both an equal and an improved price; the first order has quantity two, so that it
fills in part, rests and is recovered in part; two orders fit the same balance
alone and not together; batches of two contain both a maker and its taker; one
fault falls at every point of every operation, two faults interrupt a recovery;
engine ids coincide across the two engines, so a lookup without its market would
find the wrong order. Six orders let a compaction leave survivors at shifted
indices. Three calls leave one in the queue or refused behind a batch in flight of two, or
two queued behind one. Three records put one
in the snapshot or the old segment, one in the current log and one in flight; two faults
let a power loss strike what a crash has left. Six files are enough for the four names, the
old snapshot and one more left by a failed call. In `server` one user trades with herself, which
the code allows: the two orders cross and leave part of the first on the book, to be cancelled,
recovered or cut off by a shutdown; two faults are a signal and a failure in it, or a
failure and another in the recovery from it. A balance does not reach the BIGINT of that
run; with `MaxBigint = 150` and `MaxDeposited = 300` it does, and the four invariants hold as well
(7.0 M states, three minutes on four cores).

Fairness, and what it assumes. `partitions`: a batch of orders and `RecoverEngine` go on,
because they have deadlines (two seconds, `order_batch.go:154`, and ten, `server.go:76`). The
other operations have none: `CreateMarketFor` and `Deposit` call under `s.mu` with the
background context (`service.go:492,496,507`), `Cancel` and `ResolveFor` with that of the request
(`routes.go:296,337`), and the gRPC client adds nothing. So no fairness is given to them
(`NoDeadline`): each may hold the lock for ever, and `ServesAgain` says that, when the
faults are over, nothing else keeps the service from serving. `ReservationSettles` needs no
such exception. A hanging `AddBook` is represented by the commit after it. Both properties
rest on three assumptions the code does not discharge:

* start-up replay returns: it projects with the background context (`service.go:447,452`),
  so a database that never answers keeps the API from coming up;
* restarts are joint: whoever starts a process that is down, or restarts a service with a
  latched failure, restarts all engines with the API, which is what `ErrRecoveryRequired`
  (`service.go:51`) and `engine/router.go:15` ask for. `restart: unless-stopped` in docker-compose
  brings back the API alone and does not do it;
* every value fits its column: otherwise the restart fails each time, which is the
  finding `ComesUp` below. The ten seconds of recovery suffice, too.

Faults are bounded and unfair.

`queue`: goroutines are scheduled, a caller that can receive does, and a batch ends; it waits
for `s.mu` first, so this assumes that no operation without a deadline hangs there. No caller
is made to call, no context to end, no operator to close. `checkpoint_power`: start-up
runs, a commit that has begun ends (PostgreSQL and the file system answer), and the snapshot
ticker fires (`server.go:85-107`). `quotes`: a publication has a deadline, and Redis expires
the key. `widths`: all calls are answered, a process that is down or failed is started again with
the engines, and `Shutdown` has its five seconds. This is more than the code gives; the
service stays down in spite of it. Clients, checkpoints and faults are free.

### Finding: winning shares on offer at settlement are not paid

`ResolveFor` computes payouts from the positions before its own cancellations are
applied (`service.go:799`). Shares that a seller had on offer are then in no position;
the same commit hands them back into a market that is resolved, where nothing can
be done with them any more. `go-backend/README.md:29-30` says that settlement
pays the winning outcome at 100 cents per share. Run `settlement` shows it in a
few steps: mint a pair, offer the YES share for sale, resolve YES. `CashConserved`
counts those shares as collateral, which is why it still holds.

### Finding: a record can be confirmed before it is fsynced

A process killed between the write and the fsync of a record leaves it in the page
cache. `replayFile` applies it and fsyncs the file only when it cuts a torn tail
(`service.go:406-416`), so the next process serves, and confirms to a client that repeats its
order, a change that no fsync covers, against `go-backend/README.md:33`. Until the first
append a power loss takes it back. If a checkpoint comes first, `freezeCheckpoint` rotates
the file unsynced (`checkpoint.go:68`), later records go to a new file, and the loss leaves a
gap: TLC refutes `ExactHistory` with crashes and power losses together. That is why
`checkpoint_power` has power losses alone; an fsync at the end of `replayFile` would close it.

### Finding: the log can be created before the rename of the old one is durable

`checkpoint.go:80-82` explains why the rename is flushed before the name is reused. After a
crash between the two, the next process creates the file in `appendMany`, before any
directory sync. On a file system that keeps directory operations in order nothing is lost
(run `checkpoint`); without that order, which is what the comment provides for, the old
segment can be (run `wal_unordered`).

### Finding: an order too wide for its column stops the service for good

`prepareOrder` admits quantities up to 2^32 - 1, the limit of the engine's protocol
(`service.go:583`). `orders.quantity` is an INT (`projector.go:25`). An order in between, affordable
with 2^31 cents at a price of one, is logged before PostgreSQL refuses it. The latch is then
set, and the restart that `ErrRecoveryRequired` (`service.go:51`) and
`go-backend/README.md:135-136` prescribe replays the record into the same refusal: `NewServer`
panics every time. Run `widths` shows it with no fault at all. With `MaxInt = MaxUint32` the same
property holds, with a fault too (`MaxFaults = 1`, 0.8 M states): the width is the only
reason, which is what `OnlyWidthStopsReplay` says of every state of run `server`. A deposit
that would take a balance past the BIGINT ends the same way.

## 4. Proofs

Each theorem holds for every value of the constants that satisfies the assumption named
with it. The invariants were first checked by TLC on the instances of section 3. A module's
invariant is inductive as a whole; its proof has one lemma per action, and the theorems
are its consequences.

### The service: `TradingProofs`, `TradingBookProofs`

For any finite sets of users, markets and orders, any engines, faults and batch size
(`ConstantsAssumption`; a ledger never has more than finitely many, and its sums need it):

| Theorem | States | From |
|---|---|---|
| `TypeCorrect` | `[]TypeOK` | `IInv` |
| `AcknowledgedOrdersSurvive` | `[]AckDurable` | `IInv` |
| `MemoryMatchesDisk` | `[]MemoryIsDurable` | `SInv` |
| `EngineSeesOnlyReservations` | `[]ReservedBeforeEngine` | `SInv` |
| `DurableHistoryOnlyAdvances` | `HistoryOnlyAdvances` | `SInv` |
| `SettlementIsFinal` | `SettlementFinal` | `SInv` |
| `IndexHoldsActiveOrders` | `[]EngineIndexExact` | `PInv` |
| `TimePriorityKept` | `[]PriorityKept` | `PInv` |
| `BooksMirrorLedger` | `[]BookMirrorsLedger` | `FInv` |
| `CashIsConserved` | `[]CashConserved` | `AInv` |
| `SharesStayPaired` | `[]SharesPaired` | `AInv` |
| `NobodyOverdraws` | `[]NoOverdraft` | `AInv` |

`IInv`. `AckDurable` alone is not inductive: that a commit makes an order durable says
nothing about the order that will be acknowledged by it. `IInv` therefore says, for each
stage of an operation, which orders are staged (`StagedFaithful`, `CompletionStaged`), that
what will be granted is an order of the batch (`GrantedFaithful`), that memory never runs
ahead of the disk (`MemInDisk`) nor misses an order of it while no failure is latched
(`MemComplete`), and that an order is pending only while an operation is about to settle it
(`PendingAccounted`), which is what makes the answer to a retry true. `LedgerProofs`
holds what each event does to an order and that a ledger stays one.

`SInv` adds what lets the ledger be compared with itself over a step. Memory is the disk
except for the engine ids that a recovery has forgotten and not restored yet
(`MemIsDisk`, `AwaitingRecovery`); keys of the index name active orders under their ids (`IndexKeys`); what an
engine works on is active on disk for at least what is left of it (`InEngineActive`); what
is staged continues the order it replaces (`StagedAdvances`); active orders are in open
markets, in memory, on disk and in what is staged (`ActiveInOpen`, `StagedOpen`,
`SettlementInv`), without which a fill could reach a resolved market.

`PInv` is about engine ids. Reservations take places behind every known order, one after
another (`PlacesReserved`, `OwnPlaces`), and orders are submitted oldest first, in a batch
and in recovery (`SubmittedInOrder`), so an order without an id is younger than every order
that has one (`YoungHaveNoId`). An id an engine gives out is larger than those of the
market's orders, because it comes from the counter of the engine that still has the
market's book (`IdsHandedOut`, `FreshId`); an engine that lost its books answers for no
order of it. Both orders therefore agree (`IdsInOrder`, `AnswersInOrder`, `TakersInOrder`), and
since an id is then never used twice in a market the index is exact (`IndexComplete`).

`FInv` is about what is in flight: trades an engine has made and the service has not staged.
What is left of an order is its unfilled quantity with the staged events, less what the
trades in flight take from its engine id (`Left`). `Flight` says that every trade in flight is between
a buy and a sell the service knows, within both limits; that nothing left is negative; and
that a market's book is exactly the orders with an engine id that have something
left, without the ones being matched. Each step moves a quantity from one of these places to
another: `EngineMatch` from the book and the taker to the trades, `StageFill` from the trades to the staged
events, `EngineFinish` from the taker to the book, `Commit` from the staged events to memory. A fill can only
find the right order because ids are unique in a market (`PInv`), because a trade names
orders that had their ids before it (`TradesKnown`), and because trades are staged in the order of
admission (`Drained`, `Unstaged`). An engine that restarts takes its markets out of `Served`, and out of the claim.

`AInv` says that the ledger in memory, the one on disk and the one in memory with the staged
events applied balance (`GoodLedger`): the third is why the first two do after a commit,
whichever of them a failing commit reaches. Every event is a *leg*: one order, its owner's cash and the owner's shares
of one outcome. A reservation, a release and a new engine id change neither the cents
there are nor the pairs; the two legs of a fill change both and cancel out, whichever
of the four sides meet; neither leg can overdraw, because the trade is within both limits.
At a settlement no order of the market is active (`Closing`) and the cancellations that the
settlement staged itself only gave shares back (`ReleasesOnly`). The finding on settlement (run
`settlement`) does not touch these sums: shares that were set aside are not paid, but they
remain outstanding. Sums are the library's `SumFunction`; that
they can be taken one element at a time is proved in `LedgerProofs` by descent to a least counterexample.

### Admission: `OrderQueueProofs`

For any number of calls, worker slots, any queue bound and batch size
(`QueueAssumption`), from `IInv` of `OrderQueue`: `AtMostOneWorker`, `NoLostWakeup`,
`FirstInFirstPlaced`, `SuccessMeansPlaced`, `CloseDrains`, `RefusalIsFinal`. The invariant ties the flag to
the worker, places the queue at the end of the arrivals with the batch being
placed right before it, and keeps every placed order in front of those its batch has
yet to handle; the order of placement is not inductive without those positions.

`RefusalIsFinal` (`Spec => []RefusedNeverPlaced`) speaks of the future of a call: the caller of an
"invalid" answer has returned, and a worker may still hold requests. It needs a second
invariant, `RInv`: a call is admitted once (`AdmittedOnce`), so that its place among the arrivals is
its only one; calls that are being answered have been gone through by the worker (`RepliesInv`);
a call the worker has not gone through has no outcome and, if it was refused, was never
admitted, and no refused call is placed (`RefusedInv`).

### The order book: `OrderBookProofs`

For any prices, quantities and number of requests (`BookAssumption`), from `IInv` of
`OrderBookInvariant`:

| Theorem | States |
|---|---|
| `BookInvariant` | `[]IInv` |
| `LookupAlwaysExact` | `[]LookupExact` |
| `QuotesAlwaysSound` | `[]QuotesSound` |
| `GarbageAlwaysBounded` | `[]GarbageBounded` |
| `Refinement` | `ImplementsMatchingBook`: the C++ structure implements a plain set of orders |

`LookupExact` is not inductive alone: that a place of the book determines the order, and an
order its place, needs that the vector of every level is sorted by engine id, tombstones
included, and that nothing in the book is as young as the order being matched
(`LevelInv`, `Newest`); a rested order then goes to the end of its level. The first live order
of the first level with one is therefore the oldest at the best price, which is the
maker `MatchingBook` trades with. Compaction is a recursive function over a vector
(`Kept`); that it leaves exactly the live orders, in their order, at the places the new lookup names
is proved by descent to a least counterexample. The counters follow from a bijection
between the lookup and the live places. There is one lemma per action, and it gives both the
invariant in the next state and the step of `MatchingBook`, or that nothing abstract changed.

### Quotes and hub: `QuotesProofs`

For any number of commits, rebuilds and subscribers and any channel bound
(`QuotesAssumption`), from `IInv` of `Quotes`: `QuotesAreTheLedgers`
(`[]QuotesCoherent`), `CacheNeverGoesBack` (`[]NewestWins`), `HubNeverPanics`
(`[]NoSendOnClosed`). The invariant relates the versions in flight to the version of the
ledger, says which publications an expiry has to wait for, and keeps the subscribers a
broadcast has still to serve among those whose channel is open.

### The process: `ServerProofs`

For any users, markets, orders, column widths and faults (`ServerAssumption`,
`WidthAssumption`), from `IInv` and `TradesInv` of `ServerInvariant`:

| Theorem | States |
|---|---|
| `ShutdownLetsOrdersFinish` | `[]ShutdownSparesOrders` |
| `LedgerKnowsRegistered` | `[]LedgerUsersRegistered` |
| `ReplayStopsAtWidth` | `[]OnlyWidthStopsReplay` |
| `ProjectionLagsByOne` | the event ids in PostgreSQL are `1..p`, `p` the last sequence or the one before |
| `TablesEqualLedger` | `[]TablesMatchLedger` |

`SInv` says what the phases of the process and of its hook exclude. `UsersInv` follows a
name from the token to the request, the change it makes, the record and every ledger.
`HistoryInv` says that there is a history `h` of ledgers, one per record behind the
snapshot, and a point `p` of it that the tables mirror: at most the last record lies beyond
`p`, and that one was made for the tables as they are (`MadeFor`), so replay can only
refuse it for the width of a column. Memory is the ledger at `p`, except during recovery
for the engine ids it has forgotten, and a checkpoint in progress is of a ledger at or
before `p`, which is why dropping the records it covers loses nothing. `RecordsAfter` is a
recursive function; that it yields a tail of a gapless log is proved by descent to a
least counterexample (`LeastNatural`). `TradesInv` adds that the rows of `trades` belong to
records PostgreSQL has and that those naming an order sum up to what its row says is filled. A
record fills the two orders of its one trade, or none (`AccountsFor`), and is projected when its
sequence is new to `order_events`; a replay of it is then skipped, so no trade is counted twice.

### The files: `WalProofs`

For any number of records, files, failed calls and faults, and for a file system that keeps
directory operations in order as well as for one that does not (`WalAssumption`), from
`Invariant` of `WalInvariant`:

| Theorem | States |
|---|---|
| `HistoryTold` | `[]Invariant` |
| `AcknowledgedSurvive` | `[]AckSurvives` |
| `HistoryIsExact` | `[]ExactHistory` |
| `StartUpNeverRefuses` | `[]NeverRefused` |

All four assume `OneKindOfDeath`: processes die or power fails, not both in one behaviour. The
assumption is needed: after a process has died, the page cache holds records and names that
no fsync covers, and a power loss then refutes `ExactHistory` on any file system and `AckSurvives` on
one without order: the two findings on the log above. `AckSurvives` and `NeverRefused`
with both kinds of death and a journal stay with TLC (run `checkpoint`).

`AckSurvives` is about memory, and says nothing of the files memory will be rebuilt from; the
invariant therefore speaks of every *view*: the snapshot, previous segment and log under the
names of a directory that may be found next (`PossibleDirs`: with power losses, what any
subset of the pending operations leaves). There is one gapless history `h` that every view
tells (`Tells`): its snapshot is a state of `h`, its segments are consecutive records of `h`, each
attached to what is before it, the last one ending with `h`. PostgreSQL and memory are
prefixes of `h`, and no snapshot or previous segment is ahead of PostgreSQL. Under power
losses all files of a view are synced but for the last item of the log, which is torn or not in
PostgreSQL yet (`Safe`): so a loss takes at most a record nobody was told of. A checkpoint's
copy is a state of `h` not behind any view's previous segment, which is why publishing it
and then dropping the segment keep `Tells`. What `Projected`, a recursive function, computes is
proved by descent to a least counterexample. A written record lengthens `h` and a power
loss may shorten it by one; hence the quantifier in `Invariant`. For TLC, `Rebuilt` takes for `h`
what replay would compute; it holds in the instance of `checkpoint_power`, and in the same
instance with process deaths instead of power losses.

### Only model-checked

* The files when processes die and power fails in one behaviour, see above.
* Liveness, everywhere: the provers have no `ENABLED`.

## 5. Not modelled, and the plan

Not modelled: metrics, generated code, load test and scripts (no state the core depends on);
handlers that only read, request parsing, health, CORS; hashing and signatures; the upgrade of
an older schema; the engine's asynchronous queue, which only benchmarks use; time, so that a
recovery that never fits its ten seconds is out of reach; the mode without an engine; the
32-bit width of engine ids.

Left, in order:

1. `WalCheckpoint` as a refinement of the one durable state of `TradingService`, through an
   abstract log that keeps what it has acknowledged.
2. `Exchange`: concurrent handlers over the symbol map and the books' locks.
