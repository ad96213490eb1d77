------------------------------- MODULE Server -------------------------------
(***************************************************************************)
(* The API process from start to exit (cmd/api/main.go, internal/server,   *)
(* internal/auth): migration, replay, recovery, the handlers that change   *)
(* state, the snapshot ticker and the shutdown hook, over the log, the     *)
(* snapshot and the PostgreSQL tables they share.                          *)
(*                                                                         *)
(* Operations are serialised by s.mu: op is the one that holds it and      *)
(* where its commit is.  What interleaves with it are handlers that have   *)
(* passed authentication and wait for the lock, the queue of orders, the   *)
(* ticker, the hook, the end of main, faults and restarts.  Batches are    *)
(* of one order and the engine answers with at most one trade; the trading *)
(* itself, its engines and the files in detail are in TradingService and   *)
(* WalCheckpoint.                                                          *)
(***************************************************************************)
EXTENDS Projection, Sequences, FiniteSetsExt

CONSTANTS
  Requests,       \* what clients ask for
  MaxUint32,      \* largest quantity of the engine's protocol
  QueueBound,     \* maxQueuedOrders
  MaxDeposited,   \* bound on the total deposited
  MaxWaiting,     \* bound on handlers that wait at one time
  MaxFaults,      \* bound on faults and signals
  NoRequest,      \* the worker holds no order
  NoOp,           \* s.mu is free
  NoSnapshot      \* no checkpoint is being written

OrderRequest == [kind : {"order"}, user : Users, id : OrderIds, market : Markets,
                 side : Sides, price : Nat, qty : Nat]
OtherRequest == [kind : {"create"}, user : Users, market : Markets, symbol : Symbols]
           \cup [kind : {"deposit"}, user : Users, cents : Nat \ {0}]
           \cup [kind : {"cancel"}, user : Users, id : OrderIds]

(* An operation under s.mu: how far its commit is, the order it is about, the
   trades and the change of the record it writes. *)
OperationType ==
  [kind : {"create", "deposit", "cancel", "reserve", "complete", "relist", "refill"},
   step : {"append", "project", "engine"}, id : OrderIds \cup {NoOrder},
   trades : SUBSET Trades, change : LedgerType]

ASSUME ServerAssumption ==
  /\ Requests \subseteq OrderRequest \cup OtherRequest
  /\ {MaxUint32, QueueBound, MaxDeposited, MaxWaiting, MaxFaults} \subseteq Nat
  /\ NoMarket \notin Market
  /\ NoOrder \notin Order
  /\ NoRequest \notin Requests
  /\ NoOp \notin OperationType
  /\ NoSnapshot \notin LedgerType

VARIABLES
  log,        \* the records of the WAL that no snapshot covers
  snapshot,   \* the published snapshot
  tables,     \* PostgreSQL, what the projector writes
  users,      \* PostgreSQL, the users table
  tokens,     \* users who hold a token
  phase,      \* of the process
  mem,        \* the trading service: its maps, and s.sequence counted in records
  failed,     \* s.failure # nil
  todo,       \* orders RecoverEngine has yet to submit
  waiting,    \* requests whose handlers wait for a lock
  queue,      \* s.pending
  placing,    \* the order the worker holds
  op,         \* the operation that holds s.mu
  closed,     \* s.closed
  engineOpen, \* the connections to the engines are open
  dbOpen,     \* the connection pool to PostgreSQL is open
  hook,       \* where the shutdown hook is; "none" before the signal
  ticker,     \* what the snapshot goroutine does
  frozen,     \* the state a checkpoint is writing
  faults      \* how many faults and signals there have been

durable == <<log, snapshot, tables>>
access == <<users, tokens>>
handlers == <<waiting, queue, placing>>
connections == <<closed, engineOpen, dbOpen>>
checkpoint == <<ticker, frozen>>
vars == <<durable, access, phase, mem, failed, todo, handlers, op, connections,
          hook, checkpoint, faults>>

Init ==
  /\ log = <<>> /\ snapshot = Empty /\ tables = EmptyTables
  /\ users = {} /\ tokens = {}
  /\ phase = "down" /\ mem = Empty /\ failed = FALSE
  /\ todo = {}
  /\ waiting = {} /\ queue = <<>> /\ placing = NoRequest /\ op = NoOp
  /\ closed = FALSE /\ engineOpen = FALSE /\ dbOpen = FALSE
  /\ hook = "none" /\ ticker = "idle" /\ frozen = NoSnapshot
  /\ faults = 0

Fault == faults < MaxFaults /\ faults' = faults + 1

(* The process is gone with everything in its memory. *)
Exit ==
  /\ phase' = "down" /\ mem' = Empty /\ failed' = FALSE
  /\ todo' = {}
  /\ waiting' = {} /\ queue' = <<>> /\ placing' = NoRequest /\ op' = NoOp
  /\ closed' = FALSE /\ engineOpen' = FALSE /\ dbOpen' = FALSE
  /\ hook' = "none" /\ ticker' = "idle" /\ frozen' = NoSnapshot

-----------------------------------------------------------------------------
(* Start-up: NewServer.  Any error on the way is a panic. *)

(* Connections are made and the schema is migrated. *)
Launch ==
  /\ phase = "down"
  /\ phase' = "migrate"
  /\ engineOpen' = TRUE /\ dbOpen' = TRUE
  /\ UNCHANGED <<durable, access, mem, failed, todo, handlers, op, closed, hook,
                 checkpoint, faults>>

(* Migrate succeeds; NewWithConfig loads the snapshot. *)
Migrate ==
  /\ phase = "migrate"
  /\ phase' = "replay"
  /\ mem' = snapshot
  /\ UNCHANGED <<durable, access, failed, todo, handlers, op, connections, hook,
                 checkpoint, faults>>

(* The records behind sequence n: replayFile skips one that is covered, and a
   published snapshot makes it disappear. *)
RecordsAfter(records, n) ==
  LET kept[i \in 0..Len(records)] ==
        IF i = 0 THEN <<>>
        ELSE IF records[i].seq > n THEN Append(kept[i - 1], records[i])
        ELSE kept[i - 1]
  IN  kept[Len(records)]

(* The records replay has yet to apply. *)
Unreplayed == RecordsAfter(log, mem.sequence)

(* replayFile: a record is projected, which skips it if PostgreSQL has it, and
   applied.  The background context sets replay no deadline. *)
ReplayRecord ==
  /\ phase = "replay" /\ Unreplayed # <<>>
  /\ LET r == Head(Unreplayed) IN
     /\ Fits(tables, r)
     /\ tables' = ApplyBatch(tables, r)
     /\ mem' = [Apply(mem, r.change) EXCEPT !.sequence = r.seq]
  /\ UNCHANGED <<log, snapshot, access, phase, failed, todo, handlers, op,
                 connections, hook, checkpoint, faults>>

(* PostgreSQL refuses a record: start-up panics. *)
ReplayRefused ==
  /\ phase = "replay" /\ Unreplayed # <<>>
  /\ ~Fits(tables, Head(Unreplayed))
  /\ Exit
  /\ UNCHANGED <<durable, access, faults>>

(* RecoverEngine begins, under a context of its own: the ids of the last
   engines are forgotten. *)
ReplayDone ==
  /\ phase = "replay" /\ Unreplayed = <<>>
  /\ phase' = "recover"
  /\ todo' = {id \in OrderIds : Active(mem.orders[id])}
  /\ mem' = [mem EXCEPT !.orders = [id \in OrderIds |->
              IF Active(@[id]) THEN [@[id] EXCEPT !.eid = 0] ELSE @[id]]]
  /\ UNCHANGED <<durable, access, failed, handlers, op, connections, hook, checkpoint,
                 faults>>

(* The next order, by Sequence, is in the engine again. *)
RecoverNext(id) ==
  /\ phase = "recover" /\ op = NoOp
  /\ id \in todo
  /\ \A other \in todo : mem.orders[id].seq <= mem.orders[other].seq
  /\ todo' = todo \ {id}
  /\ op' = [kind |-> "relist", step |-> "append", id |-> id, trades |-> {},
            change |-> OrderEvent(Empty, id,
              [mem.orders[id] EXCEPT !.eid = 1,
                !.status = IF mem.orders[id].filled > 0 THEN "partial" ELSE "open"], 0)]
  /\ UNCHANGED <<durable, access, phase, mem, failed, handlers, connections, hook,
                 checkpoint, faults>>

(* The listener and the ticker start. *)
RecoverDone ==
  /\ phase = "recover" /\ op = NoOp /\ todo = {}
  /\ phase' = "serve"
  /\ UNCHANGED <<durable, access, mem, failed, todo, handlers, op, connections, hook,
                 checkpoint, faults>>

(* PostgreSQL or an engine goes away during start-up, or the ten seconds of
   the migration or of the recovery are over: whatever is done stays done, the
   server panics. *)
StartupFails ==
  /\ phase \in {"migrate", "replay", "recover"}
  /\ Fault
  /\ Exit
  /\ tables' \in {tables} \cup (IF phase = "replay" /\ Unreplayed # <<>>
                                   /\ Fits(tables, Head(Unreplayed))
                                THEN {ApplyBatch(tables, Head(Unreplayed))} ELSE {})
  /\ UNCHANGED <<log, snapshot, access>>

-----------------------------------------------------------------------------
(* commitMany, for whatever operation holds s.mu. *)

(* s.fail: the latch in service, a panic during recovery.  The sequence stays
   where next has left it, ahead of the maps. *)
Fail(seq) ==
  IF phase = "recover" THEN Exit
  ELSE /\ failed' = TRUE
       /\ op' = NoOp
       /\ mem' = [mem EXCEPT !.sequence = seq]
       /\ placing' = IF op.kind \in {"reserve", "complete"} THEN NoRequest ELSE placing
       /\ UNCHANGED <<phase, todo, waiting, queue, connections, hook, checkpoint>>

RecordOf(seq) == [seq |-> seq, change |-> op.change, trades |-> op.trades]

(* next and appendMany: the sequence is taken first.  A WAL that Close has
   closed is opened again. *)
AppendRecord ==
  /\ op # NoOp /\ op.step = "append"
  /\ log' = Append(log, RecordOf(mem.sequence + 1))
  /\ mem' = [mem EXCEPT !.sequence = @ + 1]
  /\ op' = [op EXCEPT !.step = "project"]
  /\ UNCHANGED <<snapshot, tables, access, phase, failed, todo, handlers,
                 connections, hook, checkpoint, faults>>

(* A failed write or sync leaves the record in the log or not. *)
AppendFails ==
  /\ op # NoOp /\ op.step = "append"
  /\ Fault
  /\ Fail(mem.sequence + 1)
  /\ log' \in {log, Append(log, RecordOf(mem.sequence + 1))}
  /\ UNCHANGED <<snapshot, tables, access>>

(* What follows a successful commit: a reservation and a re-submitted order
   go on, everything else returns. *)
AfterCommit ==
  CASE op.kind = "reserve" ->
         op' = [op EXCEPT !.kind = "complete", !.step = "engine"] /\ UNCHANGED placing
    [] op.kind = "relist" ->
         op' = [op EXCEPT !.kind = "refill", !.step = "engine"] /\ UNCHANGED placing
    [] op.kind = "complete" -> op' = NoOp /\ placing' = NoRequest
    [] OTHER -> op' = NoOp /\ UNCHANGED placing

ProjectRecord ==
  /\ op # NoOp /\ op.step = "project" /\ dbOpen
  /\ Fits(tables, RecordOf(mem.sequence))
  /\ tables' = ApplyBatch(tables, RecordOf(mem.sequence))
  /\ mem' = Apply(mem, op.change)
  /\ AfterCommit
  /\ UNCHANGED <<log, snapshot, access, phase, failed, todo, waiting, queue,
                 connections, hook, checkpoint, faults>>

(* The transaction violates a constraint, or the pool is closed. *)
ProjectRefused ==
  /\ op # NoOp /\ op.step = "project"
  /\ ~dbOpen \/ ~Fits(tables, RecordOf(mem.sequence))
  /\ Fail(mem.sequence)
  /\ UNCHANGED <<durable, access, faults>>

(* The connection breaks, before or after PostgreSQL has committed. *)
ProjectFails ==
  /\ op # NoOp /\ op.step = "project" /\ dbOpen
  /\ Fits(tables, RecordOf(mem.sequence))
  /\ Fault
  /\ Fail(mem.sequence)
  /\ tables' \in {tables, ApplyBatch(tables, RecordOf(mem.sequence))}
  /\ UNCHANGED <<log, snapshot, access>>

(* The engine's price of a buy is at least that of a sell. *)
Crosses(buy, sell) ==
  EnginePrice(buy.side, buy.price) >= EnginePrice(sell.side, sell.price)

(* Orders in the engine that o can trade with.  Which of them it does trade
   with, if any, is left open: priority is TradingService's. *)
Counterparties(o) ==
  {id \in OrderIds :
     LET maker == mem.orders[id] IN
     /\ OnBook(maker) /\ maker.eid # 0
     /\ maker.market = o.market
     /\ EngineSide(maker.side) # EngineSide(o.side)
     /\ IF EngineSide(o.side) = "buy" THEN Crosses(o, maker) ELSE Crosses(maker, o)}

(* The engine's answer, no trade or one, becomes the events of the second
   commit.  A re-submitted order without a trade needs none. *)
EngineAnswers ==
  /\ op # NoOp /\ op.step = "engine" /\ engineOpen
  /\ LET id == op.id
         o == [mem.orders[id] EXCEPT !.eid = 1,
                !.status = IF @ = "pending" THEN "open" ELSE @]
         listed == IF op.kind = "complete" THEN OrderEvent(Empty, id, o, 0) ELSE Empty
     IN  \/ IF op.kind = "complete"
            THEN op' = [op EXCEPT !.step = "append", !.change = listed, !.trades = {}]
            ELSE op' = NoOp
         \/ \E other \in Counterparties(o) \ {id} :
              LET maker == mem.orders[other]
                  q == Min({Remaining(o), Remaining(maker)})
                  p == EnginePrice(maker.side, maker.price)
                  trade == IF EngineSide(o.side) = "buy"
                           THEN [buy |-> id, sell |-> other, qty |-> q]
                           ELSE [buy |-> other, sell |-> id, qty |-> q]
              IN  op' = [op EXCEPT !.step = "append", !.trades = {trade},
                          !.change = FillEvents(FillEvents(listed, id, o, q, p),
                                                other, maker, q, p)]
  /\ UNCHANGED <<durable, access, phase, mem, failed, todo, handlers,
                 connections, hook, checkpoint, faults>>

EngineFails ==
  /\ op # NoOp /\ op.step = "engine"
  /\ \/ ~engineOpen /\ UNCHANGED faults
     \/ Fault
  /\ Fail(mem.sequence)
  /\ UNCHANGED <<durable, access>>

-----------------------------------------------------------------------------
(* Authentication. *)

(* Shutdown closes the listener before it starts the hook. *)
Listening == phase = "serve" /\ hook = "none"

(* Register: the row first, then the token. *)
Register(u) ==
  /\ Listening /\ u \notin users
  /\ users' = users \cup {u}
  /\ tokens' = tokens \cup {u}
  /\ UNCHANGED <<durable, phase, mem, failed, todo, handlers, op, connections,
                 hook, checkpoint, faults>>

(* Mutation: the error of the INSERT is not looked at. *)
TokensAfterFailedInsertAll(u) == tokens \cup {u}

TokensAfterFailedInsert(u) == tokens

(* The INSERT fails, for whatever reason, and may have committed. *)
RegisterFails(u) ==
  /\ Listening /\ u \notin users
  /\ Fault
  /\ users' \in {users, users \cup {u}}
  /\ tokens' = TokensAfterFailedInsert(u)
  /\ UNCHANGED <<durable, phase, mem, failed, todo, handlers, op, connections,
                 hook, checkpoint>>

(* A token lasts a day.  A client whose token has expired is one that makes no
   request until it logs in again, so expiry is not a step of its own. *)
Login(u) ==
  /\ Listening /\ u \in users \ tokens
  /\ tokens' = tokens \cup {u}
  /\ UNCHANGED <<durable, users, phase, mem, failed, todo, handlers, op,
                 connections, hook, checkpoint, faults>>

-----------------------------------------------------------------------------
(* The handlers. *)

(* Middleware and RequireOwner: a request acts for the user of its token. *)
Submit(r) ==
  /\ Listening
  /\ r.user \in tokens
  /\ r \notin waiting /\ Cardinality(waiting) < MaxWaiting
  /\ waiting' = waiting \cup {r}
  /\ UNCHANGED <<durable, access, phase, mem, failed, todo, queue, placing, op,
                 connections, hook, checkpoint, faults>>

(* The handler has s.mu: it commits the change, or returns without one. *)
Holds(r) == phase = "serve" /\ op = NoOp /\ r \in waiting

Commits(r, kind, id, c) ==
  /\ op' = [kind |-> kind, step |-> "append", id |-> id, trades |-> {}, change |-> c]
  /\ waiting' = waiting \ {r}
  /\ UNCHANGED <<durable, access, phase, mem, failed, todo, queue, placing,
                 connections, hook, checkpoint, faults>>

SymbolFree(s) ==
  \A m \in Markets : mem.markets[m] # NoMarket => mem.markets[m].symbol # s

(* CreateMarketFor calls AddBook first: without engines it is an error. *)
CanCreate(r) ==
  /\ ~failed /\ engineOpen
  /\ mem.markets[r.market] = NoMarket /\ SymbolFree(r.symbol)

CreateMarket(r) ==
  /\ r.kind = "create" /\ Holds(r) /\ CanCreate(r)
  /\ Commits(r, "create", NoOrder,
       MarketEvent(Empty, r.market,
                   [symbol |-> r.symbol, owner |-> r.user, status |-> "open"]))

Deposit(r) ==
  /\ r.kind = "deposit" /\ Holds(r) /\ ~failed
  /\ mem.deposited + r.cents <= MaxDeposited
  /\ Commits(r, "deposit", NoOrder, BalanceEvent(Empty, r.user, r.cents))

CanCancel(r) ==
  /\ ~failed
  /\ OnBook(mem.orders[r.id]) /\ mem.orders[r.id].user = r.user

(* The order is taken off the book, then its release is committed. *)
Cancel(r) ==
  /\ r.kind = "cancel" /\ Holds(r) /\ CanCancel(r) /\ engineOpen
  /\ Commits(r, "cancel", r.id, ReleaseEvents(Empty, r.id, mem.orders[r.id]))

(* RemoveOrder fails, or its connection is closed: the latch. *)
CancelUncertain(r) ==
  /\ r.kind = "cancel" /\ Holds(r) /\ CanCancel(r)
  /\ \/ ~engineOpen /\ UNCHANGED faults
     \/ Fault
  /\ failed' = TRUE
  /\ waiting' = waiting \ {r}
  /\ UNCHANGED <<durable, access, phase, mem, todo, queue, placing, op,
                 connections, hook, checkpoint>>

(* A handler answers with an error and has done nothing. *)
Rejects(r) ==
  /\ Holds(r)
  /\ \/ r.kind = "create" /\ ~CanCreate(r)
     \/ r.kind = "cancel" /\ ~CanCancel(r)
     \/ r.kind = "deposit" /\ (failed \/ mem.deposited + r.cents > MaxDeposited)
  /\ waiting' = waiting \ {r}
  /\ UNCHANGED <<durable, access, phase, mem, failed, todo, queue, placing, op,
                 connections, hook, checkpoint, faults>>

(* enqueue, under pendingMu: a closed service and a full queue refuse.  Only
   orders look at closed. *)
Enqueue(r) ==
  /\ phase = "serve" /\ r.kind = "order" /\ r \in waiting
  /\ queue' = IF closed \/ Len(queue) >= QueueBound THEN queue ELSE Append(queue, r)
  /\ waiting' = waiting \ {r}
  /\ UNCHANGED <<durable, access, phase, mem, failed, todo, placing, op,
                 connections, hook, checkpoint, faults>>

(* drainOrders takes the next order. *)
TakeOrder ==
  /\ placing = NoRequest /\ queue # <<>>
  /\ placing' = Head(queue) /\ queue' = Tail(queue)
  /\ UNCHANGED <<durable, access, phase, mem, failed, todo, waiting, op,
                 connections, hook, checkpoint, faults>>

Affordable(r) ==
  IF IsBuy(r.side)
  THEN mem.cash[r.user] >= r.price * r.qty
  ELSE mem.pos[<<r.user, r.market, OutcomeOf(r.side)>>] >= r.qty

(* prepareOrder; the engine's limit is looked at, the column's is not.  An id
   that is known changes nothing, whether the order is a retry or another. *)
Admissible(r) ==
  /\ r.qty \in 1..MaxUint32
  /\ mem.orders[r.id] = NoOrder
  /\ mem.markets[r.market] # NoMarket /\ mem.markets[r.market].status = "open"
  /\ ValidPrice(r.price)
  /\ Affordable(r)

PlaceOrder ==
  /\ phase = "serve" /\ op = NoOp /\ placing # NoRequest /\ ~failed
  /\ Admissible(placing)
  /\ LET r == placing
         o == [user |-> r.user, market |-> r.market, side |-> r.side, price |-> r.price,
               qty |-> r.qty, filled |-> 0, status |-> "pending",
               seq |-> mem.sequence + 1, eid |-> 0]
     IN  op' = [kind |-> "reserve", step |-> "append", id |-> r.id, trades |-> {},
                change |-> ReserveEvents(Empty, r.id, o)]
  /\ UNCHANGED <<durable, access, phase, mem, failed, todo, handlers, connections,
                 hook, checkpoint, faults>>

RejectOrder ==
  /\ phase = "serve" /\ op = NoOp /\ placing # NoRequest
  /\ failed \/ ~Admissible(placing)
  /\ placing' = NoRequest
  /\ UNCHANGED <<durable, access, phase, mem, failed, todo, waiting, queue, op,
                 connections, hook, checkpoint, faults>>

-----------------------------------------------------------------------------
(* Checkpoints: of the ticker, or the last one, of the hook. *)

(* Mutation: a latched failure does not stop a checkpoint. *)
CanFreezeAlways == op = NoOp

(* freezeCheckpoint has s.mu and no failure is latched. *)
CanFreeze == op = NoOp /\ ~failed

Freeze ==
  /\ phase = "serve" /\ frozen = NoSnapshot
  /\ ticker = "idle" \/ hook = "snapshot"
  /\ CanFreeze
  /\ frozen' = mem
  /\ ticker' = IF ticker = "idle" THEN "writing" ELSE ticker
  /\ UNCHANGED <<durable, access, phase, mem, failed, todo, handlers, op,
                 connections, hook, faults>>

CheckpointEnds ==
  /\ frozen' = NoSnapshot
  /\ ticker' = IF ticker = "writing" THEN "idle" ELSE ticker
  /\ hook' = IF hook = "snapshot" THEN "close" ELSE hook
  /\ UNCHANGED <<tables, access, phase, mem, failed, todo, handlers, op, connections>>

(* The snapshot is in place; records it covers are read no more. *)
Publish ==
  /\ frozen # NoSnapshot
  /\ snapshot' = frozen
  /\ log' = RecordsAfter(log, frozen.sequence)
  /\ CheckpointEnds
  /\ UNCHANGED faults

CheckpointFails ==
  /\ frozen # NoSnapshot
  /\ Fault
  /\ CheckpointEnds
  /\ UNCHANGED <<log, snapshot>>

-----------------------------------------------------------------------------
(* The end: gracefulShutdown and the hook it starts without waiting. *)

Signal ==
  /\ Listening
  /\ Fault
  /\ hook' = "stop"
  /\ UNCHANGED <<durable, access, phase, mem, failed, todo, handlers, op,
                 connections, checkpoint>>

(* snapshotStop, snapshotDone: the hook waits for the ticker. *)
HookStopsTicker ==
  /\ hook = "stop" /\ ticker = "idle"
  /\ ticker' = "stopped"
  /\ hook' = "snapshot"
  /\ UNCHANGED <<durable, access, phase, mem, failed, todo, handlers, op,
                 connections, frozen, faults>>

(* The last checkpoint is refused; the hook logs it and goes on. *)
HookSkipsSnapshot ==
  /\ hook = "snapshot" /\ frozen = NoSnapshot /\ op = NoOp /\ ~CanFreeze
  /\ hook' = "close"
  /\ UNCHANGED <<durable, access, phase, mem, failed, todo, handlers, op,
                 connections, checkpoint, faults>>

HookCloses ==
  /\ hook = "close"
  /\ closed' = TRUE
  /\ hook' = "wait"
  /\ UNCHANGED <<durable, access, phase, mem, failed, todo, handlers, op,
                 engineOpen, dbOpen, checkpoint, faults>>

(* Mutation: Close does not wait for the worker. *)
WorkersDoneAlways == TRUE

(* s.workers.Wait() *)
WorkersDone == queue = <<>> /\ placing = NoRequest

(* Close has s.mu and closes the WAL; then the engines are disconnected. *)
HookClosesEngine ==
  /\ hook = "wait" /\ WorkersDone /\ op = NoOp
  /\ engineOpen' = FALSE
  /\ hook' = "db"
  /\ UNCHANGED <<durable, access, phase, mem, failed, todo, handlers, op, closed,
                 dbOpen, checkpoint, faults>>

HookClosesDatabase ==
  /\ hook = "db"
  /\ dbOpen' = FALSE
  /\ hook' = "done"
  /\ UNCHANGED <<durable, access, phase, mem, failed, todo, handlers, op, closed,
                 engineOpen, checkpoint, faults>>

(* Shutdown returns when connections are idle or after five seconds, and main
   with it, wherever the hook is. *)
MainReturns ==
  /\ phase = "serve" /\ hook # "none"
  /\ Exit
  /\ UNCHANGED <<durable, access, faults>>

(* ErrRecoveryRequired: the operator restarts a service that has failed. *)
OperatorStops ==
  /\ Listening /\ failed
  /\ Exit
  /\ UNCHANGED <<durable, access, faults>>

Crash ==
  /\ phase # "down"
  /\ Fault
  /\ Exit
  /\ UNCHANGED <<durable, access>>

-----------------------------------------------------------------------------
Startup ==
  \/ Launch \/ Migrate \/ ReplayRecord \/ ReplayRefused \/ ReplayDone
  \/ \E id \in todo : RecoverNext(id)
  \/ RecoverDone

Operation == AppendRecord \/ ProjectRecord \/ ProjectRefused \/ EngineAnswers \/ EngineFails

Client ==
  \/ \E u \in Users : Register(u) \/ RegisterFails(u) \/ Login(u)
  \/ \E r \in Requests : Submit(r)

Handler ==
  \/ \E r \in waiting : \/ CreateMarket(r) \/ Deposit(r) \/ Cancel(r)
                        \/ CancelUncertain(r) \/ Rejects(r) \/ Enqueue(r)
  \/ TakeOrder \/ PlaceOrder \/ RejectOrder

Checkpoint == Freeze \/ Publish \/ CheckpointFails

Shutdown ==
  \/ Signal \/ HookStopsTicker \/ HookSkipsSnapshot \/ HookCloses
  \/ HookClosesEngine \/ HookClosesDatabase \/ MainReturns

Next ==
  \/ Startup \/ Operation \/ Client \/ Handler \/ Checkpoint \/ Shutdown
  \/ OperatorStops \/ StartupFails \/ AppendFails \/ ProjectFails \/ Crash

Spec == Init /\ [][Next]_vars

(* More than the code gives, so that a service that stays down stays down in
   spite of it: calls are answered, also those without a deadline; a process
   that is down or failed is started again, with the engines, and its start-up
   runs; Shutdown has its five seconds. *)
Progress == Startup \/ Operation \/ OperatorStops \/ MainReturns

FairSpec == Spec /\ WF_vars(Progress)

-----------------------------------------------------------------------------
Serving == phase = "serve" /\ ~failed

(* The tables hold what ledger l holds. *)
Mirrors(t, l) ==
  /\ t.markets = l.markets
  /\ t.orders = l.orders
  /\ t.balances = l.cash
  /\ t.positions = l.pos

(* What the trades table says was filled of an order. *)
Traded(id) ==
  SumFunction([row \in tables.trades |->
                 IF id \in {row.trade.buy, row.trade.sell} THEN row.trade.qty ELSE 0])

(* "PostgreSQL equals the ledger": when no operation is under way and no
   failure is latched, the tables are the maps the service answers from, and
   the trades account for every fill - whatever was replayed, projected twice
   or cut short before. *)
TablesMatchLedger ==
  Serving /\ op = NoOp =>
    /\ Mirrors(tables, mem)
    /\ \A id \in OrderIds :
         mem.orders[id] # NoOrder => Traded(id) = mem.orders[id].filled

(* Shutdown lets admitted orders finish: while one is queued or in the
   worker's hands the engines and PostgreSQL stay connected, so that closing
   them cannot make an order's outcome uncertain. *)
ShutdownSparesOrders ==
  phase = "serve" /\ (queue # <<>> \/ placing # NoRequest) => engineOpen /\ dbOpen

(* Everyone who has money or a market in the log can log in: the ledger knows
   only users whose row PostgreSQL has, although the two are written by
   different requests and either can fail. *)
LedgerUsersRegistered ==
  \A u \in Users \ users :
    /\ \A l \in {mem, snapshot} : l.cash[u] = 0
    /\ \A i \in DOMAIN log : log[i].change.cash[u] = 0
    /\ \A m \in Markets : tables.markets[m] # NoMarket => tables.markets[m].owner # u

(* The widest value a record writes into an INT or a BIGINT column. *)
TooWide(r) ==
  \/ \E id \in OrderIds : r.change.orders[id] # NoOrder /\ r.change.orders[id].qty > MaxInt
  \/ \E u \in Users : tables.balances[u] + r.change.cash[u] > MaxBigint

(* Replay stops at values that are too wide for their column and at nothing
   else: whether the process that logged a record died before, during or after
   its projection, replayFile meets the balances, markets and symbols the
   record was made for. *)
OnlyWidthStopsReplay ==
  phase = "replay" /\ Unreplayed # <<>> /\ ~Fits(tables, Head(Unreplayed))
    => TooWide(Head(Unreplayed))

(* A process that is down serves again: the restart README and
   ErrRecoveryRequired prescribe after an error recovers the service. *)
ComesUp == phase = "down" ~> Serving
=============================================================================
