------------------------- MODULE TradingProperties -------------------------
(***************************************************************************)
(* What makes the trading service correct: nobody overdraws, no cent and   *)
(* no share appears or disappears, the engines' books and the ledger tell  *)
(* the same story whenever the service is ready for a client, and what a   *)
(* client was told survives a crash.                                       *)
(***************************************************************************)
EXTENDS TradingService, Functions

(* The service would accept the next operation. *)
Serving == pc = "idle" /\ ~failed

OrdersOf(l) == {id \in OrderIds : l.orders[id] # NoOrder}
ActiveOrders(l) == {id \in OrderIds : Active(l.orders[id])}

(* What an active order has still to trade. *)
Unfilled(o) == IF Active(o) THEN Remaining(o) ELSE 0

(* Shares of an outcome of market m an order has set aside: the unfilled part
   of an active sell. *)
SetAside(o, m, outcome) ==
  IF Active(o) /\ o.market = m /\ ~IsBuy(o.side) /\ OutcomeOf(o.side) = outcome
  THEN Remaining(o) ELSE 0

(* Shares of one outcome of a market: held, and set aside by active sells. *)
Outstanding(l, m, outcome) ==
  SumFunction([u \in Users |-> l.pos[<<u, m, outcome>>]])
  + SumFunction([id \in OrderIds |-> SetAside(l.orders[id], m, outcome)])

(* Cents the shares of a market stand for: 100 a pair while it is open, 100
   a winning share afterwards. *)
Collateral(l, m) ==
  IF l.markets[m] = NoMarket THEN 0
  ELSE 100 * Outstanding(l, m,
               IF l.markets[m].status = "resolved_no" THEN "no" ELSE "yes")

(* Cents an active buy has set aside. *)
CashAside(o) == IF Active(o) /\ IsBuy(o.side) THEN o.price * Remaining(o) ELSE 0

CashAccountedFor(l) ==
  SumFunction(l.cash)
  + SumFunction([id \in OrderIds |-> CashAside(l.orders[id])])
  + SumFunction([m \in Markets |-> Collateral(l, m)])
  = l.deposited

(* Deposits are the only source of cents: free cash, cash reserved by open
   buys and the collateral behind every share add up to what was deposited,
   in memory and in what a restart would replay, through fills at improved
   prices, cancellations, settlement, partial failures and recovery. *)
CashConserved == CashAccountedFor(mem) /\ CashAccountedFor(disk)

(* Shares exist in YES/NO pairs: while a market is open as many YES as NO
   shares are outstanding, counting those set aside by sells. *)
AllPaired(l) ==
  \A m \in Markets : l.markets[m] # NoMarket /\ l.markets[m].status = "open" =>
    Outstanding(l, m, "yes") = Outstanding(l, m, "no")

SharesPaired == AllPaired(mem) /\ AllPaired(disk)

(* No account is overdrawn in cash or shares and no order is overfilled,
   although a batch checks several orders against the same balance and fills
   arrive after the reservation was taken. *)
Covered(l) ==
  /\ \A u \in Users : l.cash[u] >= 0
  /\ \A h \in Holdings : l.pos[h] >= 0
  /\ \A id \in OrdersOf(l) : l.orders[id].filled <= l.orders[id].qty

NoOverdraft == Covered(mem) /\ Covered(disk)

(* The resting orders the ledger says a market has. *)
LedgerBook(m) ==
  {[eid |-> o.eid, side |-> EngineSide(o.side),
    price |-> EnginePrice(o.side, o.price), qty |-> Remaining(o)] :
     o \in {mem.orders[id] : id \in {i \in ActiveOrders(mem) : mem.orders[i].market = m}}}

(* Whenever the service serves, an engine that did not lose the market's book
   holds exactly the ledger's active orders with their unfilled quantities,
   none crossing another: no fill was lost, applied twice or given to the
   wrong order. *)
BookMirrorsLedger ==
  Serving =>
    \A m \in Markets :
      MarketOpen(m) /\ mem.markets[m].symbol \in listed =>
        /\ books[mem.markets[m].symbol] = LedgerBook(m)
        /\ Uncrossed(LedgerBook(m))

(* Time priority survives batching, crashes and recovery: no two orders share
   a place in the queue, and of two orders on a market's book the one admitted
   first has the smaller engine id, which is what the book serves first. *)
PriorityKept ==
  Serving =>
    \A i, j \in ActiveOrders(mem) :
      i # j /\ mem.orders[i].market = mem.orders[j].market =>
        /\ mem.orders[i].seq # mem.orders[j].seq
        /\ mem.orders[i].seq < mem.orders[j].seq <=> mem.orders[i].eid < mem.orders[j].eid

(* Whenever the service serves, its memory is what a crash would rebuild, and
   no order is left pending. *)
MemoryIsDurable ==
  Serving => /\ mem = disk
             /\ \A id \in ActiveOrders(mem) : mem.orders[id].status # "pending"

(* The index fills are looked up in holds exactly the active orders under
   their current engine ids: a stale key would credit a fill to an order of
   an earlier engine life. *)
EngineIndexExact ==
  Serving => engineOrders = {<<mem.orders[id].market, mem.orders[id].eid, id>> :
                               id \in ActiveOrders(mem)}

(* A client told that its order succeeded finds exactly that order after any
   crash, past its pending state. *)
AckDurable ==
  \A r \in acked :
    /\ disk.orders[r.id] # NoOrder
    /\ SameOrder(disk.orders[r.id], r)
    /\ disk.orders[r.id].status # "pending"

(* The first durable barrier: an order the engine executes has its
   reservation on disk already. *)
ReservedBeforeEngine ==
  \A e \in Engines :
    taker[e] # NoTaker =>
      /\ Active(disk.orders[admitted[taker[e].k]])
      /\ disk.orders[admitted[taker[e].k]].qty >= taker[e].left

(* The durable history of an order only goes forward: no step changes what
   was ordered or its place in the queue, takes back a fill, reopens a closed
   order or makes a submitted one pending again. *)
OrderAdvances(o, n) ==
  /\ n # NoOrder
  /\ <<n.user, n.market, n.side, n.price, n.qty, n.seq>>
       = <<o.user, o.market, o.side, o.price, o.qty, o.seq>>
  /\ n.filled >= o.filled
  /\ o.status \notin ActiveStatuses => n = o
  /\ n.status = "pending" => o.status = "pending"

HistoryOnlyAdvances ==
  [][\A id \in OrdersOf(disk) : OrderAdvances(disk.orders[id], disk'.orders[id])]_disk

(* A market settles once: its outcome is never revised and nothing in it
   trades or pays out afterwards. *)
SettlementFinal ==
  [][\A m \in Markets :
       disk.markets[m] # NoMarket /\ disk.markets[m].status # "open" =>
         /\ disk'.markets[m] = disk.markets[m]
         /\ \A u \in Users, x \in Outcomes : disk'.pos[<<u, m, x>>] = disk.pos[<<u, m, x>>]]_disk

(* Every share of the winning outcome is paid 100 cents at settlement
   (go-backend/README.md), so that a resolved market holds no share and no
   active order. *)
WinnersPaid ==
  \A m \in Markets :
    disk.markets[m] # NoMarket /\ disk.markets[m].status # "open" =>
      /\ \A u \in Users, x \in Outcomes : disk.pos[<<u, m, x>>] = 0
      /\ \A id \in ActiveOrders(disk) : disk.orders[id].market # m

(* A durable reservation does not stay in limbo: whatever failed after it was
   written, recovery submits the order and it leaves the pending state (under
   the assumptions of FairSpec; no operation without a deadline is in the way). *)
ReservationSettles ==
  \A id \in OrderIds :
    (disk.orders[id] # NoOrder /\ disk.orders[id].status = "pending")
      ~> (disk.orders[id] # NoOrder /\ disk.orders[id].status # "pending")

(* No latch, lone engine restart, crash or interrupted recovery leads the
   service to where it cannot serve again: once the faults are over it serves,
   or a cancel, settlement, market creation or deposit, which have no deadline,
   waits for a call that is never answered.  Under the assumptions of FairSpec:
   the operator restarts the API with all engines, replay returns, and every
   value fits its column (ComesUp is about one that does not). *)
ServesAgain == []<>(Serving \/ NoDeadline)
=============================================================================
