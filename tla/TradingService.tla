--------------------------- MODULE TradingService ---------------------------
(***************************************************************************)
(* The durable trading service (go-backend/internal/trading) together with *)
(* the matching engines it drives.                                         *)
(*                                                                         *)
(* Every public operation runs under s.mu from its first check to its last *)
(* commit, so at most one operation is in flight; op and pc say which one  *)
(* and where it is.  What interleaves with it is the engines' own          *)
(* execution and the faults: an RPC that fails, a commit that fails before *)
(* or after its record is durable, a crash of the API, a lone restart of   *)
(* an engine.  The durable files are one ledger, disk: the state a replay  *)
(* of snapshot and log rebuilds.                                           *)
(***************************************************************************)
EXTENDS Ledger, PriceTime, Sequences

CONSTANTS
  Engines,       \* engine processes
  Partition,     \* the engine that owns a symbol
  Requests,      \* orders clients submit
  Creations,     \* market creations clients submit
  DepositSizes,  \* amounts clients deposit
  MaxBatch,      \* bound on OrderBatchSize (the code allows 32)
  MaxDeposited,  \* bound on the total deposited
  MaxFaults,     \* bound on the number of faults
  NoTaker        \* an engine that is executing no order

Request == [id : OrderIds, user : Users, market : Markets, side : Sides,
            price : Nat, qty : Nat]

Trade == [buy : Nat, sell : Nat, price : Nat, qty : Nat]
Taker == [k : Nat, eid : Nat, left : Int, trades : Seq(Trade)]
Result == [eid : Nat, trades : Seq(Trade)]
NoTarget == [market |-> NoMarket, outcome |-> "no"]

ASSUME ConstantsAssumption ==
  /\ IsFiniteSet(Users) /\ IsFiniteSet(Markets) /\ IsFiniteSet(OrderIds)
  /\ NoMarket \notin Market
  /\ NoOrder \notin Order
  /\ NoTaker \notin Taker
  /\ Partition \in [Symbols -> Engines]
  /\ Requests \subseteq Request
  /\ Creations \subseteq [id : Markets, symbol : Symbols, owner : Users]
  /\ DepositSizes \subseteq Nat \ {0}
  /\ MaxBatch \in Nat \ {0}
  /\ MaxDeposited \in Nat
  /\ MaxFaults \in Nat

VARIABLES
  mem,           \* the service's maps: markets, orders, balances, positions
  disk,          \* the same, as snapshot and log rebuild it
  engineOrders,  \* s.engineOrders
  failed,        \* s.failure # nil
  op,            \* the operation that holds s.mu, or "none"
  pc,            \* where it is; "down" when the process is not running
  after,         \* where it goes once its commit succeeds
  change,        \* the events it has staged and not committed
  reqs,          \* the batch being placed
  cur,           \* index into reqs (admission) or admitted (completion)
  admitted,      \* ids of the orders sent to the engine, in admission order
  granted,       \* requests that succeed if the batch does
  todo,          \* orders still to remove (cancel, resolve) or add (recovery)
  target,        \* the market and outcome being resolved
  listed,        \* symbols that have a book in their engine
  books,         \* the live resting orders of each book
  nextEid,       \* ids each engine has handed out
  taker,         \* the order each engine is matching
  results,       \* the engines' answers, by index into admitted
  acked,         \* requests answered with success (history)
  faults         \* faults so far

service == <<mem, disk, engineOrders, failed>>
control == <<op, pc, after>>
scratch == <<change, reqs, cur, admitted, granted, todo, target>>
engine == <<listed, books, nextEid, taker, results>>
vars == <<service, control, scratch, engine, acked, faults>>

-----------------------------------------------------------------------------
Init ==
  /\ mem = Empty
  /\ disk = Empty
  /\ engineOrders = {}
  /\ failed = FALSE
  /\ op = "none"
  /\ pc = "idle"
  /\ after = "idle"
  /\ change = Empty
  /\ reqs = <<>>
  /\ cur = 1
  /\ admitted = <<>>
  /\ granted = {}
  /\ todo = {}
  /\ target = NoTarget
  /\ listed = {}
  /\ books = [s \in Symbols |-> {}]
  /\ nextEid = [e \in Engines |-> 0]
  /\ taker = [e \in Engines |-> NoTaker]
  /\ results = <<>>
  /\ acked = {}
  /\ faults = 0

(* An operation starts when s.mu is free and no failure is latched. *)
Ready == pc = "idle" /\ ~failed

Fault == faults < MaxFaults /\ faults' = faults + 1

(* The scratch state of an operation that has returned. *)
ScratchCleared ==
  /\ change' = Empty
  /\ reqs' = <<>>
  /\ cur' = 1
  /\ admitted' = <<>>
  /\ granted' = {}
  /\ todo' = {}
  /\ target' = NoTarget
  /\ results' = <<>>
  /\ taker' = [e \in Engines |-> NoTaker]

(* The operation returns and releases s.mu. *)
Return ==
  /\ op' = "none" /\ pc' = "idle" /\ after' = "idle"
  /\ ScratchCleared

(* The process is gone: nothing in memory survives. *)
Exit ==
  /\ op' = "none" /\ pc' = "down" /\ after' = "idle"
  /\ ScratchCleared
  /\ failed' = FALSE

(* Mutation: the error is returned but not latched. *)
FailUnlatched ==
  IF op = "recover" THEN Exit ELSE Return /\ failed' = failed

(* s.fail: the failure is latched and the operation returns it.  During
   RecoverEngine the server panics on the error instead. *)
Fail ==
  IF op = "recover" THEN Exit ELSE Return /\ failed' = TRUE

-----------------------------------------------------------------------------
(* Mutation: the symbol is not checked. *)
NewMarketAnySymbol(c) == mem.markets[c.id] = NoMarket

(* CreateMarketFor: the book is added before the market is committed.  A
   retry, a clashing id and a taken symbol return without a change. *)
NewMarket(c) ==
  /\ mem.markets[c.id] = NoMarket
  /\ \A m \in Markets :
       mem.markets[m] # NoMarket => mem.markets[m].symbol # c.symbol

CreateMarketFor(c) ==
  /\ Ready
  /\ NewMarket(c)
  /\ listed' = listed \cup {c.symbol}
  /\ change' = MarketEvent(change, c.id,
                 [symbol |-> c.symbol, owner |-> c.owner, status |-> "open"])
  /\ op' = "create" /\ pc' = "commit" /\ after' = "return"
  /\ UNCHANGED <<service, reqs, cur, admitted, granted, todo, target,
                 books, nextEid, taker, results, acked, faults>>

(* The AddBook call takes effect but its answer is lost: the error goes to
   the client and nothing is latched. *)
AddBookUncertain(c) ==
  /\ Ready
  /\ NewMarket(c)
  /\ Fault
  /\ listed' = listed \cup {c.symbol}
  /\ UNCHANGED <<service, control, scratch, books, nextEid, taker, results, acked>>

Deposit(u, cents) ==
  /\ Ready
  /\ mem.deposited + cents <= MaxDeposited
  /\ change' = BalanceEvent(change, u, cents)
  /\ op' = "deposit" /\ pc' = "commit" /\ after' = "return"
  /\ UNCHANGED <<service, reqs, cur, admitted, granted, todo, target, engine,
                 acked, faults>>

-----------------------------------------------------------------------------
(* Placing a batch of orders: drainOrders hands placeBatchWithQuotes a batch,
   placeSingle is the batch of one.  A request whose context has expired is
   skipped, as if the batch did not hold it. *)
Place(batch) ==
  /\ Ready
  /\ reqs' = batch
  /\ op' = "place" /\ pc' = "admit" /\ after' = after
  /\ UNCHANGED <<service, change, cur, admitted, granted, todo, target, engine,
                 acked, faults>>

(* Mutation: a resolved market still counts as open. *)
MarketKnown(m) == mem.markets[m] # NoMarket

MarketOpen(m) == mem.markets[m] # NoMarket /\ mem.markets[m].status = "open"

(* Mutation: only prepareOrder's own check, each order against the same
   balance. *)
AffordableAlone(r) ==
  IF IsBuy(r.side)
  THEN mem.cash[r.user] >= r.price * r.qty
  ELSE mem.pos[<<r.user, r.market, OutcomeOf(r.side)>>] >= r.qty

(* prepareOrder's balance check and the aggregate one of the batch: what
   earlier orders of the batch reserve is already in change. *)
Affordable(r) ==
  IF IsBuy(r.side)
  THEN mem.cash[r.user] + change.cash[r.user] >= r.price * r.qty
  ELSE LET h == <<r.user, r.market, OutcomeOf(r.side)>> IN
       mem.pos[h] + change.pos[h] >= r.qty

Admissible(r) ==
  /\ r.qty > 0
  /\ MarketOpen(r.market)
  /\ ValidPrice(r.price)
  /\ Affordable(r)

(* Mutation: the sequence prepareOrder assigns is kept inside a batch. *)
SequenceOfFirst == mem.sequence + 1

(* Order.Sequence: behind every order admitted before it, in earlier batches
   and in this one. *)
AdmissionSequence == mem.sequence + Len(admitted) + 1

AdmittedOrder(r) ==
  [user |-> r.user, market |-> r.market, side |-> r.side, price |-> r.price,
   qty |-> r.qty, filled |-> 0, status |-> "pending", seq |-> AdmissionSequence,
   eid |-> 0]

(* The request repeats the order that has its id already. *)
IsRetry(o, r) == SameOrder(o, r)

(* One iteration of the admission loop. *)
AdmitNext ==
  /\ pc = "admit" /\ cur <= Len(reqs)
  /\ LET r == reqs[cur]
         inBatch == change.orders[r.id]
         existing == mem.orders[r.id]
     IN  \/ (* a duplicate inside the batch shares its original's outcome *)
            /\ inBatch # NoOrder
            /\ granted' = IF IsRetry(inBatch, r) THEN granted \cup {r} ELSE granted
            /\ UNCHANGED <<change, admitted, acked>>
         \/ (* a retry of an order that is already known succeeds at once *)
            /\ inBatch = NoOrder /\ existing # NoOrder
            /\ acked' = IF IsRetry(existing, r) THEN acked \cup {r} ELSE acked
            /\ UNCHANGED <<change, admitted, granted>>
         \/ /\ inBatch = NoOrder /\ existing = NoOrder /\ Admissible(r)
            /\ change' = [ReserveEvents(change, r.id, AdmittedOrder(r))
                            EXCEPT !.sequence = @ + 1]
            /\ admitted' = Append(admitted, r.id)
            /\ granted' = granted \cup {r}
            /\ UNCHANGED acked
         \/ (* rejected *)
            /\ inBatch = NoOrder /\ existing = NoOrder /\ ~Admissible(r)
            /\ UNCHANGED <<change, admitted, granted, acked>>
  /\ cur' = cur + 1
  /\ UNCHANGED <<service, control, reqs, todo, target, engine, faults>>

AdmissionDone ==
  /\ pc = "admit" /\ cur > Len(reqs)
  /\ IF admitted = <<>>
     THEN Return
     ELSE /\ pc' = "commit" /\ after' = "engine"
          /\ UNCHANGED <<op, scratch, taker, results>>
  /\ UNCHANGED <<service, listed, books, nextEid, acked, faults>>

-----------------------------------------------------------------------------
(* Mutation: the reservation is not logged before the engine is called. *)
LoggedLate(c) == IF after = "engine" THEN disk ELSE Apply(disk, c)

(* appendMany: the durable state once the record of c is written. *)
Logged(c) == Apply(disk, c)

(* commitMany: append to the log, project, apply. *)
Commit ==
  /\ pc = "commit"
  /\ mem' = Apply(mem, change)
  /\ disk' = Logged(change)
  /\ engineOrders' = ApplyIndex(engineOrders, mem, change)
  /\ IF after = "return"
     THEN /\ Return
          /\ acked' = acked \cup granted
     ELSE /\ pc' = after /\ after' = "idle"
          /\ change' = Empty
          /\ cur' = 1
          /\ UNCHANGED <<op, reqs, admitted, granted, todo, target, taker,
                         results, acked>>
  /\ UNCHANGED <<failed, listed, books, nextEid, faults>>

(* Mutation: the batch reports success although its commit failed. *)
CommitFailsSilently ==
  /\ pc = "commit"
  /\ Fault
  /\ Fail
  /\ disk' \in {disk, Logged(change)}
  /\ acked' = acked \cup granted
  /\ UNCHANGED <<mem, engineOrders, listed, books, nextEid>>

(* A write, sync or projection error: the record may or may not be durable,
   memory keeps the state before it. *)
CommitFails ==
  /\ pc = "commit"
  /\ Fault
  /\ Fail
  /\ disk' \in {disk, Logged(change)}
  /\ UNCHANGED <<mem, engineOrders, listed, books, nextEid, acked>>

-----------------------------------------------------------------------------
(* The engines execute the admitted orders: each its own, in order, and
   concurrently with the others. *)
SymbolOf(id) == mem.markets[mem.orders[id].market].symbol
EngineOf(k) == Partition[SymbolOf(admitted[k])]

(* Mutation: recovery submits the whole order again. *)
SubmittedWhole(o) == o.qty

(* The quantity a command carries: a new order is whole, a recovered one has
   only its unfilled part left. *)
SubmittedQty(o) == Remaining(o)

EngineAccept(k) ==
  LET e == EngineOf(k) IN
  /\ pc = "engine"
  /\ k \notin DOMAIN results
  /\ taker[e] = NoTaker
  /\ \A j \in 1..(k - 1) : EngineOf(j) = e => j \in DOMAIN results
  /\ SymbolOf(admitted[k]) \in listed
  /\ nextEid' = [nextEid EXCEPT ![e] = @ + 1]
  /\ taker' = [taker EXCEPT ![e] =
                [k |-> k, eid |-> nextEid[e] + 1,
                 left |-> SubmittedQty(mem.orders[admitted[k]]), trades |-> <<>>]]
  /\ UNCHANGED <<service, control, scratch, listed, books, results, acked, faults>>

TakerOrder(e) == mem.orders[admitted[taker[e].k]]
TakerSymbol(e) == SymbolOf(admitted[taker[e].k])
TakerSide(e) == EngineSide(TakerOrder(e).side)
TakerLimit(e) == EnginePrice(TakerOrder(e).side, TakerOrder(e).price)

MoreToTrade(e) ==
  /\ taker[e].left > 0
  /\ CanTrade(books[TakerSymbol(e)], TakerSide(e), TakerLimit(e))

(* One iteration of init_trades_with_order: a trade at the maker's price. *)
EngineMatch(e) ==
  /\ pc = "engine" /\ taker[e] # NoTaker
  /\ MoreToTrade(e)
  /\ LET t == taker[e]
         s == TakerSymbol(e)
     IN  \E maker \in books[s] :
           /\ IsBest(books[s], TakerSide(e), maker)
           /\ LET q == Least(t.left, maker.qty)
                  trade == IF TakerSide(e) = "buy"
                           THEN [buy |-> t.eid, sell |-> maker.eid,
                                 price |-> maker.price, qty |-> q]
                           ELSE [buy |-> maker.eid, sell |-> t.eid,
                                 price |-> maker.price, qty |-> q]
              IN  /\ books' = [books EXCEPT ![s] = Take(@, maker, q)]
                  /\ taker' = [taker EXCEPT ![e].left = @ - q,
                                            ![e].trades = Append(@, trade)]
  /\ UNCHANGED <<service, control, scratch, listed, nextEid, results, acked, faults>>

(* The loop is over: what is left rests on the book and the answer is sent. *)
EngineFinish(e) ==
  /\ pc = "engine" /\ taker[e] # NoTaker
  /\ ~MoreToTrade(e)
  /\ LET t == taker[e]
         rest == [eid |-> t.eid, side |-> TakerSide(e), price |-> TakerLimit(e),
                  qty |-> t.left]
     IN  /\ books' = [books EXCEPT ![TakerSymbol(e)] =
                       IF t.left > 0 THEN @ \cup {rest} ELSE @]
         /\ results' = [k \in DOMAIN results \cup {t.k} |->
                          IF k = t.k THEN [eid |-> t.eid, trades |-> t.trades]
                          ELSE results[k]]
  /\ taker' = [taker EXCEPT ![e] = NoTaker]
  /\ UNCHANGED <<service, control, scratch, listed, nextEid, acked, faults>>

EngineDone ==
  /\ pc = "engine"
  /\ DOMAIN results = 1..Len(admitted)
  /\ pc' = "stage" /\ cur' = 1
  /\ UNCHANGED <<service, op, after, change, reqs, admitted, granted, todo, target,
                 engine, acked, faults>>

(* A transport error or an expired deadline cannot tell what the engine did:
   the service latches a failure and never talks to this engine state again
   (a restart rebuilds it). *)
EngineError ==
  /\ pc \in {"engine", "remove"}
  /\ Fault
  /\ Fail
  /\ UNCHANGED <<mem, disk, engineOrders, listed, books, nextEid, acked>>

(* Mutation: NOT_FOUND is waited out for ever. *)
BookMissingIgnored == FALSE /\ UNCHANGED vars

(* The owner has no book for the symbol (NOT_FOUND): an error like any other. *)
BookMissing ==
  /\ pc = "engine"
  /\ \E k \in 1..Len(admitted) :
       /\ k \notin DOMAIN results
       /\ SymbolOf(admitted[k]) \notin listed
  /\ Fail
  /\ UNCHANGED <<mem, disk, engineOrders, listed, books, nextEid, acked, faults>>

-----------------------------------------------------------------------------
(* Completion: the engine's answers become events.  The order a fill applies
   to is looked up by engine id, first among this batch's own orders. *)
OwnIndex ==
  {<<mem.orders[admitted[j]].market, results[j].eid, admitted[j]>> : j \in 1..cur}

Lookup(m, eid) ==
  LET own == {e \in OwnIndex : e[1] = m /\ e[2] = eid}
  IN  {e[3] : e \in IF op = "place" /\ own # {}
                    THEN own ELSE {x \in engineOrders : x[1] = m /\ x[2] = eid}}

Staged(id) == IF change.orders[id] # NoOrder THEN change.orders[id] ELSE mem.orders[id]

(* The order is live in the engine under its id.  A batch goes on with the
   order's fills; RecoverEngine commits the order first. *)
StageOrder ==
  /\ pc = "stage"
  /\ LET id == admitted[cur]
         o == mem.orders[id]
     IN  change' = OrderEvent(change, id,
                     [o EXCEPT !.eid = results[cur].eid,
                               !.status = IF o.filled > 0 THEN "partial" ELSE "open"],
                     0)
  /\ IF op = "recover"
     THEN pc' = "commit" /\ after' = "fill"
     ELSE pc' = "fill" /\ after' = after
  /\ UNCHANGED <<service, op, reqs, cur, admitted, granted, todo, target, engine,
                 acked, faults>>

(* buildTradeEvents, one trade; a fill of an unknown engine id is skipped. *)
StageFill ==
  /\ pc = "fill" /\ results[cur].trades # <<>>
  /\ LET t == Head(results[cur].trades)
         m == mem.orders[admitted[cur]].market
         buyers == Lookup(m, t.buy)
         sellers == Lookup(m, t.sell)
     IN  \/ \E b \in buyers, s \in sellers :
              LET half == FillEvents(change, b, Staged(b), t.qty, t.price)
                  seller == IF half.orders[s] # NoOrder
                            THEN half.orders[s] ELSE mem.orders[s]
              IN  change' = FillEvents(half, s, seller, t.qty, t.price)
         \/ (buyers = {} \/ sellers = {}) /\ UNCHANGED change
  /\ results' = [results EXCEPT ![cur].trades = Tail(@)]
  /\ UNCHANGED <<service, control, reqs, cur, admitted, granted, todo, target,
                 listed, books, nextEid, taker, acked, faults>>

FillsDone ==
  /\ pc = "fill" /\ results[cur].trades = <<>>
  /\ \/ /\ cur < Len(admitted)
        /\ cur' = cur + 1
        /\ pc' = "stage" /\ after' = after
     \/ /\ cur = Len(admitted) /\ UNCHANGED cur
        /\ IF op = "recover"
           THEN IF change = Empty
                THEN pc' = "recover" /\ after' = after
                ELSE pc' = "commit" /\ after' = "recover"
           ELSE pc' = "commit" /\ after' = "return"
  /\ UNCHANGED <<service, op, change, reqs, admitted, granted, todo, target, engine,
                 acked, faults>>

-----------------------------------------------------------------------------
(* Cancel and ResolveFor take orders off the engine's book first. *)
Cancel(id) ==
  /\ Ready
  /\ OnBook(mem.orders[id])
  /\ todo' = {id}
  /\ op' = "cancel" /\ pc' = "remove" /\ after' = after
  /\ UNCHANGED <<service, change, reqs, cur, admitted, granted, target, engine,
                 acked, faults>>

ResolveFor(m, outcome, u) ==
  /\ Ready
  /\ MarketOpen(m)
  /\ mem.markets[m].owner = u
  /\ todo' = {id \in OrderIds : OnBook(mem.orders[id]) /\ mem.orders[id].market = m}
  /\ target' = [market |-> m, outcome |-> outcome]
  /\ op' = "resolve" /\ pc' = "remove" /\ after' = after
  /\ UNCHANGED <<service, change, reqs, cur, admitted, granted, engine, acked, faults>>

OnEngine(id) ==
  {o \in books[SymbolOf(id)] : o.eid = mem.orders[id].eid}

RemoveOrder(id) ==
  /\ pc = "remove" /\ id \in todo
  /\ OnEngine(id) # {}
  /\ books' = [books EXCEPT ![SymbolOf(id)] = @ \ OnEngine(id)]
  /\ change' = ReleaseEvents(change, id, mem.orders[id])
  /\ todo' = todo \ {id}
  /\ UNCHANGED <<service, control, reqs, cur, admitted, granted, target,
                 listed, nextEid, taker, results, acked, faults>>

(* The engine does not know the order: the operation returns an error, and
   no failure is latched. *)
RemoveRejected(id) ==
  /\ pc = "remove" /\ id \in todo
  /\ OnEngine(id) = {}
  /\ Return
  /\ UNCHANGED <<service, listed, books, nextEid, acked, faults>>

RemoveDone ==
  /\ pc = "remove" /\ todo = {}
  /\ LET m == target.market IN
     change' = IF op = "resolve"
               THEN MarketEvent(PayoutEvents(change, mem, m, target.outcome), m,
                      [mem.markets[m] EXCEPT !.status =
                        IF target.outcome = "yes" THEN "resolved_yes" ELSE "resolved_no"])
               ELSE change
  /\ pc' = "commit" /\ after' = "return"
  /\ UNCHANGED <<service, op, reqs, cur, admitted, granted, todo, target, engine,
                 acked, faults>>

-----------------------------------------------------------------------------
(* The API process dies.  A service with a latched failure is stopped by its
   operator, as ErrRecoveryRequired asks. *)
Crash ==
  /\ pc # "down"
  /\ Fault
  /\ Exit
  /\ UNCHANGED <<mem, disk, engineOrders, listed, books, nextEid, acked>>

Stop ==
  /\ pc = "idle" /\ failed
  /\ Exit
  /\ UNCHANGED <<mem, disk, engineOrders, listed, books, nextEid, acked, faults>>

(* Mutation: orders whose engine outcome is unknown are not submitted again. *)
RecoverableOnBook(l) == {id \in OrderIds : OnBook(l.orders[id])}

(* Mutation: closed orders are submitted again too. *)
RecoverableAll(l) == {id \in OrderIds : l.orders[id] # NoOrder}

(* The API and all engines start: NewWithConfig replays the durable files,
   RecoverEngine adds the books of the open markets and forgets the engine
   ids of the orders it is about to submit again. *)
RecoverableOrders(l) == {id \in OrderIds : Active(l.orders[id])}

Start ==
  /\ pc = "down"
  /\ mem' = [disk EXCEPT !.orders =
              [id \in OrderIds |-> IF id \in RecoverableOrders(disk)
                                   THEN [disk.orders[id] EXCEPT !.eid = 0]
                                   ELSE disk.orders[id]]]
  /\ engineOrders' = {}
  /\ listed' = {disk.markets[m].symbol :
                  m \in {x \in Markets : /\ disk.markets[x] # NoMarket
                                         /\ disk.markets[x].status = "open"}}
  /\ books' = [s \in Symbols |-> {}]
  /\ nextEid' = [e \in Engines |-> 0]
  /\ todo' = RecoverableOrders(disk)
  /\ op' = "recover" /\ pc' = "recover" /\ after' = after
  /\ UNCHANGED <<disk, failed, change, reqs, cur, admitted, granted, target, taker,
                 results, acked, faults>>

(* RecoverEngine submits the active orders in Sequence order; sort.Slice
   leaves the order of equal sequences open. *)
RecoverNext(id) ==
  /\ pc = "recover" /\ id \in todo
  /\ \A other \in todo : mem.orders[id].seq <= mem.orders[other].seq
  /\ admitted' = <<id>>
  /\ results' = <<>>
  /\ todo' = todo \ {id}
  /\ op' = op /\ pc' = "engine" /\ after' = after
  /\ UNCHANGED <<service, change, reqs, cur, granted, target, listed, books, nextEid,
                 taker, acked, faults>>

RecoverDone ==
  /\ pc = "recover" /\ todo = {}
  /\ Return
  /\ UNCHANGED <<service, listed, books, nextEid, acked, faults>>

(* An engine restarts alone and comes back without books.  A call it was
   executing fails. *)
EngineRestart(e) ==
  /\ pc # "down"
  /\ Fault
  /\ listed' = {s \in listed : Partition[s] # e}
  /\ books' = [s \in Symbols |-> IF Partition[s] = e THEN {} ELSE books[s]]
  /\ nextEid' = [nextEid EXCEPT ![e] = 0]
  /\ taker' = [taker EXCEPT ![e] = NoTaker]
  /\ UNCHANGED <<service, control, scratch, results, acked>>

-----------------------------------------------------------------------------
Batches == UNION {[1..n -> Requests] : n \in 1..MaxBatch}

Client ==
  \/ \E c \in Creations : CreateMarketFor(c)
  \/ \E u \in Users, cents \in DepositSizes : Deposit(u, cents)
  \/ \E b \in Batches : Place(b)
  \/ \E id \in OrderIds : Cancel(id)
  \/ \E m \in Markets, outcome \in Outcomes, u \in Users : ResolveFor(m, outcome, u)

(* The steps of an operation in flight. *)
Progress ==
  \/ AdmitNext
  \/ AdmissionDone
  \/ Commit
  \/ \E k \in 1..Len(admitted) : EngineAccept(k)
  \/ \E e \in Engines : EngineMatch(e)
  \/ \E e \in Engines : EngineFinish(e)
  \/ EngineDone
  \/ BookMissing
  \/ StageOrder
  \/ StageFill
  \/ FillsDone
  \/ \E id \in todo : RemoveOrder(id)
  \/ \E id \in todo : RemoveRejected(id)
  \/ RemoveDone
  \/ \E id \in todo : RecoverNext(id)
  \/ RecoverDone

Faults ==
  \/ \E c \in Creations : AddBookUncertain(c)
  \/ CommitFails
  \/ EngineError
  \/ Crash
  \/ \E e \in Engines : EngineRestart(e)

Next == Client \/ Progress \/ Faults \/ Stop \/ Start

Spec == Init /\ [][Next]_vars

(* CreateMarketFor and Deposit run on the background context, Cancel and
   ResolveFor on that of the request: an engine or a database that does not
   answer them holds s.mu for good, or until the client disconnects. *)
NoDeadline == op \in {"create", "deposit", "cancel", "resolve"}

(* A batch of orders has two seconds and RecoverEngine ten, so they go on.
   Assumed and not given by the code: start-up replay, on the background
   context, returns and every value fits its column (see Server); whoever
   starts a process that is down, or restarts a failed service, restarts all
   engines with it.  Operations without a deadline may hang. *)
FairSpec == Spec /\ WF_vars(~NoDeadline /\ Progress) /\ WF_vars(Start) /\ WF_vars(Stop)

-----------------------------------------------------------------------------
(* The shape of the state; a quantity that went below zero would show here,
   where the code's unsigned types would wrap. *)
TypeOK ==
  /\ mem \in LedgerType
  /\ disk \in LedgerType
  /\ engineOrders \subseteq Markets \X Nat \X OrderIds
  /\ failed \in BOOLEAN
  /\ op \in {"none", "create", "deposit", "place", "cancel", "resolve", "recover"}
  /\ pc \in {"idle", "admit", "commit", "engine", "stage", "fill", "remove",
             "recover", "down"}
  /\ after \in {"idle", "return", "engine", "fill", "recover"}
  /\ change \in LedgerType
  /\ reqs \in Seq(Requests)
  /\ cur \in Nat \ {0}
  /\ admitted \in Seq(OrderIds)
  /\ granted \subseteq Requests
  /\ todo \subseteq OrderIds
  /\ target \in [market : Markets \cup {NoMarket}, outcome : Outcomes]
  /\ listed \subseteq Symbols
  /\ books \in [Symbols -> SUBSET Resting]
  /\ nextEid \in [Engines -> Nat]
  /\ taker \in [Engines -> Taker \cup {NoTaker}]
  /\ DOMAIN results \subseteq 1..Len(admitted)
  /\ \A k \in DOMAIN results : results[k] \in Result
  /\ acked \subseteq Requests
  /\ faults \in 0..MaxFaults
=============================================================================
