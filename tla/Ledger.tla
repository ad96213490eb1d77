------------------------------- MODULE Ledger -------------------------------
(***************************************************************************)
(* The account state of the trading service and the events that change it  *)
(* (go-backend/internal/trading/service.go).                               *)
(*                                                                         *)
(* One commitMany call writes its events as ONE write-ahead-log record and *)
(* ONE database transaction and then applies them in memory, so what a     *)
(* commit does is the net effect of its events: the last value written for *)
(* a market or an order, the sum of the deltas of a balance or a position. *)
(* A "change" is that net effect, accumulated event by event.              *)
(***************************************************************************)
EXTENDS Integers, FiniteSets

CONSTANTS
  Users,      \* account holders
  Markets,    \* market ids
  Symbols,    \* engine symbols
  OrderIds,   \* client-chosen order ids
  NoMarket,   \* a market id that is not in s.markets
  NoOrder     \* an order id that is not in s.orders

Sides == {"buy_yes", "buy_no", "sell_yes", "sell_no"}
ActiveStatuses == {"pending", "open", "partial"}
OrderStatuses == ActiveStatuses \cup {"filled", "cancelled"}
MarketStatuses == {"open", "resolved_yes", "resolved_no"}
Outcomes == {"yes", "no"}

Market == [symbol : Symbols, owner : Users, status : MarketStatuses]

(* EnginePrice and EngineSide are functions of side and price (translate),
   so the record does not repeat them.  seq is Order.Sequence counted in
   admitted orders: recovery uses it only to compare orders. *)
Order == [user : Users, market : Markets, side : Sides, price : Nat, qty : Nat,
          filled : Nat, status : OrderStatuses, seq : Nat, eid : Nat]

Holdings == Users \X Markets \X Outcomes

LedgerType ==
  [markets : [Markets -> Market \cup {NoMarket}],
   orders : [OrderIds -> Order \cup {NoOrder}],
   cash : [Users -> Int],
   pos : [Holdings -> Int],
   sequence : Nat,
   deposited : Int]

(* The empty ledger, and also the change without events. *)
Empty ==
  [markets |-> [m \in Markets |-> NoMarket],
   orders |-> [id \in OrderIds |-> NoOrder],
   cash |-> [u \in Users |-> 0],
   pos |-> [h \in Holdings |-> 0],
   sequence |-> 0,
   deposited |-> 0]

-----------------------------------------------------------------------------
(* Every contract is one YES/NO pair; a NO order is the complementary order
   on the single YES book. *)
EnginePrice(side, price) ==
  IF side \in {"buy_yes", "sell_yes"} THEN price ELSE 100 - price

EngineSide(side) == IF side \in {"buy_yes", "sell_no"} THEN "buy" ELSE "sell"

ValidPrice(price) == price \in 1..99

IsBuy(side) == side \in {"buy_yes", "buy_no"}

(* Mutation: buy_no is taken for buy_yes. *)
OutcomeOfYes(side) == IF side \in {"buy_yes", "buy_no", "sell_yes"} THEN "yes" ELSE "no"

(* The share a side deals in. *)
OutcomeOf(side) == IF side \in {"buy_yes", "sell_yes"} THEN "yes" ELSE "no"

Active(o) == o # NoOrder /\ o.status \in ActiveStatuses
OnBook(o) == o # NoOrder /\ o.status \in {"open", "partial"}
Remaining(o) == o.qty - o.filled

(* Two submissions of one order id are retries of the same order. *)
SameOrder(o, r) ==
  /\ o.user = r.user
  /\ o.market = r.market
  /\ o.side = r.side
  /\ o.price = r.price
  /\ o.qty = r.qty

-----------------------------------------------------------------------------
(* Events, as operators from a change to a change. *)
MarketEvent(c, m, market) == [c EXCEPT !.markets[m] = market]

BalanceEvent(c, u, amount) ==
  [c EXCEPT !.cash[u] = @ + amount, !.deposited = @ + amount]

OrderEvent(c, id, order, amount) ==
  [c EXCEPT !.orders[id] = order, !.cash[order.user] = @ + amount]

PositionEvent(c, u, m, outcome, shares, amount) ==
  [c EXCEPT !.pos[<<u, m, outcome>>] = @ + shares, !.cash[u] = @ + amount]

(* prepareOrder's reservation: a buy sets aside its whole cost, a sell the
   shares themselves. *)
ReserveEvents(c, id, o) ==
  IF IsBuy(o.side)
  THEN OrderEvent(c, id, o, -(o.price * o.qty))
  ELSE PositionEvent(OrderEvent(c, id, o, 0),
                     o.user, o.market, OutcomeOf(o.side), -o.qty, 0)

(* Cancel and ResolveFor: the order's unfilled reservation goes back. *)
ReleaseEvents(c, id, o) ==
  LET closed == [o EXCEPT !.status = "cancelled"] IN
  IF IsBuy(o.side)
  THEN OrderEvent(c, id, closed, Remaining(o) * o.price)
  ELSE PositionEvent(OrderEvent(c, id, closed, 0),
                     o.user, o.market, OutcomeOf(o.side), Remaining(o), 0)

(* Mutation: the improvement of buy_no is taken from the YES price. *)
FillCreditYesPrice(o, q, p) ==
  CASE IsBuy(o.side) -> (o.price - p) * q
    [] o.side = "sell_yes" -> p * q
    [] o.side = "sell_no"  -> (100 - p) * q

(* What a fill of q at engine price p pays the order's owner in cash: a buy
   gets back the price improvement, a sell its proceeds. *)
FillCredit(o, q, p) ==
  CASE o.side = "buy_yes"  -> (o.price - p) * q
    [] o.side = "buy_no"   -> (o.price - (100 - p)) * q
    [] o.side = "sell_yes" -> p * q
    [] o.side = "sell_no"  -> (100 - p) * q

(* The order after a fill of q. *)
FilledOrder(o, q) ==
  [o EXCEPT !.filled = @ + q,
            !.status = IF o.filled + q >= o.qty THEN "filled" ELSE "partial"]

FillEvents(c, id, o, q, p) ==
  PositionEvent(OrderEvent(c, id, FilledOrder(o, q), 0),
                o.user, o.market, OutcomeOf(o.side),
                IF IsBuy(o.side) THEN q ELSE 0, FillCredit(o, q, p))

(* ResolveFor's payout loop: it reads the positions of ledger l, the ones
   before this settlement's own cancellations are applied. *)
PayoutEvents(c, l, m, outcome) ==
  [c EXCEPT
    !.cash = [u \in Users |-> c.cash[u] + 100 * l.pos[<<u, m, outcome>>]],
    !.pos = [h \in Holdings |-> c.pos[h] - (IF h[2] = m THEN l.pos[h] ELSE 0)]]

-----------------------------------------------------------------------------
(* apply: the ledger after a commit. *)
Apply(l, c) ==
  [markets |-> [m \in Markets |->
                  IF c.markets[m] = NoMarket THEN l.markets[m] ELSE c.markets[m]],
   orders |-> [id \in OrderIds |->
                  IF c.orders[id] = NoOrder THEN l.orders[id] ELSE c.orders[id]],
   cash |-> [u \in Users |-> l.cash[u] + c.cash[u]],
   pos |-> [h \in Holdings |-> l.pos[h] + c.pos[h]],
   sequence |-> l.sequence + c.sequence,
   deposited |-> l.deposited + c.deposited]

(* Mutation: the old key of a changed order is kept. *)
ApplyIndexKeepsOld(index, l, c) ==
  index \cup {<<c.orders[id].market, c.orders[id].eid, id>> :
                id \in {i \in OrderIds : Active(c.orders[i]) /\ c.orders[i].eid # 0}}

(* apply's upkeep of engineOrders, a set of <<market, engine id, order id>>:
   an order that changes loses its old key and, while it is active, gets the
   key of its engine id, replacing whatever held that key. *)
ApplyIndex(index, l, c) ==
  LET changed == {id \in OrderIds : c.orders[id] # NoOrder}
      old == {<<l.orders[id].market, l.orders[id].eid>> :
                id \in {i \in changed : l.orders[i] # NoOrder}}
      new == {<<c.orders[id].market, c.orders[id].eid, id>> :
                id \in {i \in changed : /\ c.orders[i].eid # 0
                                        /\ Active(c.orders[i])}}
      taken == old \cup {<<e[1], e[2]>> : e \in new}
  IN  {e \in index : <<e[1], e[2]>> \notin taken} \cup new
=============================================================================
