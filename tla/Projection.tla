----------------------------- MODULE Projection -----------------------------
(***************************************************************************)
(* The PostgreSQL tables behind the ledger (internal/store/projector.go).  *)
(* One log record is one transaction: its events are admitted into         *)
(* order_events, their effects are applied in order, and a constraint that *)
(* fails rolls everything back.  A record is                               *)
(* [seq, change, trades]; its change is the net effect of its events, as   *)
(* in Ledger.  The net effect decides the balance checks because the       *)
(* events of one record only debit (reservations) or only credit.          *)
(***************************************************************************)
EXTENDS Ledger

CONSTANTS
  MaxInt,     \* largest INT of PostgreSQL: 2^31 - 1
  MaxBigint   \* largest BIGINT of PostgreSQL: 2^63 - 1

ASSUME WidthAssumption == MaxInt \in Nat /\ MaxBigint \in Nat /\ MaxInt <= MaxBigint

Trades == [buy : OrderIds, sell : OrderIds, qty : Nat]
Record == [seq : Nat \ {0}, change : LedgerType, trades : SUBSET Trades]

(* The tables as Migrate creates them.  order_events is the set of records
   whose events it holds, a row of trades the trade and its record. *)
EmptyTables ==
  [order_events |-> {}, markets |-> Empty.markets, orders |-> Empty.orders,
   balances |-> Empty.cash, positions |-> Empty.pos, trades |-> {}]

(* Mutation: the events of a record are applied whenever it comes. *)
AdmittedAlways(t, r) == TRUE

(* ON CONFLICT(event_id) DO NOTHING RETURNING event_id: the events of a
   record that is already there are skipped. *)
Admitted(t, r) == r.seq \notin t.order_events

(* A debit is an UPDATE ... WHERE cents + delta >= 0 that must hit one row, a
   credit an upsert into a BIGINT column. *)
BalancesFit(t, c) ==
  \A u \in Users : t.balances[u] + c.cash[u] \in 0..MaxBigint

(* The row of an order: its market exists, its price is between 1 and 99, its
   quantity is positive and an INT. *)
OrderFits(t, c, o) ==
  /\ t.markets[o.market] # NoMarket \/ c.markets[o.market] # NoMarket
  /\ ValidPrice(o.price)
  /\ o.qty \in 1..MaxInt
  /\ o.filled \in 0..MaxInt

(* symbol TEXT UNIQUE *)
SymbolsFit(t, c) ==
  \A m, n \in Markets :
    c.markets[m] # NoMarket /\ t.markets[n] # NoMarket /\ m # n
      => c.markets[m].symbol # t.markets[n].symbol

(* positions REFERENCES markets. *)
PositionsFit(t, c) ==
  \A h \in Holdings : c.pos[h] # 0 => t.markets[h[2]] # NoMarket

(* The transaction of r commits if nothing is in its way but the tables. *)
Fits(t, r) ==
  Admitted(t, r) =>
    /\ BalancesFit(t, r.change)
    /\ SymbolsFit(t, r.change)
    /\ PositionsFit(t, r.change)
    /\ \A id \in OrderIds :
         r.change.orders[id] # NoOrder => OrderFits(t, r.change, r.change.orders[id])
    /\ \A trade \in r.trades : trade.qty <= MaxInt

(* An order that is there keeps what it was submitted with. *)
UpsertOrder(old, new) ==
  IF old = NoOrder THEN new
  ELSE [old EXCEPT !.eid = new.eid, !.filled = new.filled, !.status = new.status]

(* ApplyBatch: the tables once the transaction of r has committed. *)
ApplyBatch(t, r) ==
  IF ~Admitted(t, r) THEN t
  ELSE LET c == r.change IN
    [order_events |-> t.order_events \cup {r.seq},
     markets |-> [m \in Markets |->
                    IF c.markets[m] = NoMarket THEN t.markets[m] ELSE c.markets[m]],
     orders |-> [id \in OrderIds |->
                    IF c.orders[id] = NoOrder THEN t.orders[id]
                    ELSE UpsertOrder(t.orders[id], c.orders[id])],
     balances |-> [u \in Users |-> t.balances[u] + c.cash[u]],
     positions |-> [h \in Holdings |-> t.positions[h] + c.pos[h]],
     trades |-> t.trades \cup {[seq |-> r.seq, trade |-> x] : x \in r.trades}]
=============================================================================
