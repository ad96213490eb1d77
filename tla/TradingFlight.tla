--------------------------- MODULE TradingFlight ----------------------------
(***************************************************************************)
(* The invariant behind BookMirrorsLedger, NoOverdraft, CashConserved and  *)
(* SharesPaired: what the engines have traded and the service has not      *)
(* staged yet.  An order's unfilled quantity, less what is in flight for   *)
(* it, is what its engine still has of it, on the book or in the order     *)
(* being matched.                                                          *)
(***************************************************************************)
EXTENDS TradingInvariant

(* An order as its engine knows it. *)
EngineOrder == [market : Markets, side : EngineSides, price : Nat, eid : Nat, open : Nat]

(* A trade in flight: its market, the place of the order that caused it among
   the admitted ones, and the trade. *)
InFlight == Markets \X Nat \X Trade

TradeQty == [x \in InFlight |-> x[3].qty]

(* What the trades P in flight take from engine id n of market m. *)
Naming(P, m, n) == {x \in P : x[1] = m /\ n \in {x[3].buy, x[3].sell}}
Owed(P, m, n) == SumFunctionOnSet(TradeQty, Naming(P, m, n))

(* What the engine has left of an order. *)
Left(L, P, id) == L[id].open - Owed(P, L[id].market, L[id].eid)

Rest(L, P, id) == [eid |-> L[id].eid, side |-> L[id].side, price |-> L[id].price,
                   qty |-> Left(L, P, id)]

OwnIds(L) ==
  \A i, j \in DOMAIN L :
    L[i].market = L[j].market /\ L[i].eid = L[j].eid /\ L[i].eid # 0 => i = j

(* Order id is the one engine id n of market m names, on this side. *)
Names(L, id, m, n, side) ==
  id \in DOMAIN L /\ L[id].market = m /\ L[id].eid = n /\ L[id].side = side

(* A trade in flight is between a buy and a sell, within both limits. *)
TradeSound(L, x) ==
  /\ x[3].qty > 0 /\ x[3].buy # 0 /\ x[3].sell # 0
  /\ \E b, s \in OrderIds :
       /\ Names(L, b, x[1], x[3].buy, "buy") /\ Names(L, s, x[1], x[3].sell, "sell")
       /\ L[s].price <= x[3].price /\ x[3].price <= L[b].price

FlightType(L, P) ==
  /\ DOMAIN L \subseteq OrderIds /\ L \in [DOMAIN L -> EngineOrder]
  /\ P \subseteq InFlight /\ IsFiniteSet(P)

(* No engine traded more of an order than was left of it. *)
NoOverfill(L, P) == \A id \in DOMAIN L : Left(L, P, id) >= 0

(* An order with this id in its engine has something left there. *)
Rests(L, P, K, id) ==
  id \in DOMAIN L /\ id \notin K /\ L[id].eid # 0 /\ Left(L, P, id) > 0

(* What is on a book is the rest of an order, *)
BookBacked(L, P, K, S, B) ==
  \A m \in S : \A o \in B[m] :
    \E id \in OrderIds : Rests(L, P, K, id) /\ L[id].market = m /\ o = Rest(L, P, id)

(* and every rest is on the book. *)
BookComplete(L, P, K, S, B) ==
  \A id \in OrderIds : Rests(L, P, K, id) /\ L[id].market \in S =>
    Rest(L, P, id) \in B[L[id].market]

(* Live orders L, trades P in flight and orders K being matched explain the
   books B of the markets S. *)
Flight(L, P, K, S, B) ==
  /\ FlightType(L, P)
  /\ \A x \in P : TradeSound(L, x)
  /\ NoOverfill(L, P)
  /\ BookBacked(L, P, K, S, B)
  /\ BookComplete(L, P, K, S, B)

-----------------------------------------------------------------------------
(* What the engine has answered, or would answer, for the k-th admitted
   order. *)
Answer(k) ==
  IF k \in DOMAIN results THEN results[k]
  ELSE LET t == taker[EngineOf(k)] IN
       IF t # NoTaker /\ t.k = k THEN [eid |-> t.eid, trades |-> t.trades]
       ELSE [eid |-> 0, trades |-> <<>>]

Among(id) == \E k \in 1..Len(admitted) : admitted[k] = id
PlaceOf(id) == CHOOSE k \in 1..Len(admitted) : admitted[k] = id

(* The id an order has in its engine, zero before it has one. *)
Eid(id) ==
  IF mem.orders[id].eid # 0 THEN mem.orders[id].eid
  ELSE IF AwaitingIds /\ Among(id) THEN Answer(PlaceOf(id)).eid
  ELSE 0

Live ==
  [id \in ActiveOrders(mem) |->
     LET o == mem.orders[id] IN
     [market |-> o.market, side |-> EngineSide(o.side),
      price |-> EnginePrice(o.side, o.price), eid |-> Eid(id),
      open |-> Unfilled(Staged(id))]]

AnswerTrades(k) ==
  {<<mem.orders[admitted[k]].market, k, Answer(k).trades[i]>> : i \in DOMAIN Answer(k).trades}

Pending == IF Submitted THEN UNION {AnswerTrades(k) : k \in 1..Len(admitted)} ELSE {}

Matching == {admitted[taker[e].k] : e \in {x \in Engines : taker[x] # NoTaker}}

Served == {m \in Markets : MarketOpen(m) /\ mem.markets[m].symbol \in listed}
BookOf == [m \in Served |-> books[mem.markets[m].symbol]]

Running == pc # "down" /\ ~failed

FlightInv == Running => Flight(Live, Pending, Matching, Served, BookOf)

TakerLeft ==
  \A e \in Engines : taker[e] # NoTaker =>
    /\ taker[e].left = Left(Live, Pending, admitted[taker[e].k])
    /\ taker[e].left > 0 =>
         \A i \in DOMAIN taker[e].trades : \A o \in books[TakerSymbol(e)] :
           o.eid \notin {taker[e].trades[i].buy, taker[e].trades[i].sell}

DistinctTrades ==
  Submitted => \A k \in 1..Len(admitted) :
    LET ts == Answer(k).trades IN
    \A i, j \in DOMAIN ts : i < j => ts[i] # ts[j]

TradesKnown ==
  \A x \in Pending : \A id \in DOMAIN Live :
    Live[id].market = x[1] /\ Live[id].eid \in {x[3].buy, x[3].sell} =>
      mem.orders[id].eid # 0 \/ \E j \in 1..x[2] : admitted[j] = id

Drained == pc \in {"stage", "fill"} => \A j \in 1..(cur - 1) : results[j].trades = <<>>

Unstaged ==
  \A j \in 1..Len(admitted) :
    (pc = "stage" /\ j >= cur) \/ (pc = "fill" /\ j > cur) => change.orders[admitted[j]] = NoOrder

OneMarket ==
  pc = "remove" =>
    /\ \A id \in todo : change.orders[id] = NoOrder
    /\ \A i, j \in OrderIds :
         (i \in todo \/ change.orders[i] # NoOrder) /\ (j \in todo \/ change.orders[j] # NoOrder) =>
           mem.orders[i].market = mem.orders[j].market

SymbolsOwn(markets) ==
  \A m, n \in Markets : markets[m] # NoMarket /\ markets[n] # NoMarket
    /\ markets[m].symbol = markets[n].symbol => m = n

EmptyBooks ==
  Running => \A s \in Symbols :
    (\A m \in Markets : mem.markets[m] # NoMarket => mem.markets[m].symbol # s) => books[s] = {}

BooksUncrossed == \A s \in Symbols : Uncrossed(books[s])

OrdersGood(l) ==
  \A id \in OrderIds : l.orders[id] # NoOrder =>
    /\ l.orders[id].filled <= l.orders[id].qty
    /\ Active(l.orders[id]) => l.orders[id].filled < l.orders[id].qty

(* What is known of the orders in flight, *)
FlightStaged == DistinctTrades /\ TradesKnown /\ Drained /\ Unstaged /\ OneMarket

(* of the books, *)
BooksSound == EmptyBooks /\ BooksUncrossed

(* and of the ledgers. *)
LedgersSound ==
  /\ SymbolsOwn(mem.markets) /\ SymbolsOwn(disk.markets) /\ SymbolsOwn(Apply(mem, change).markets)
  /\ OrdersGood(mem) /\ OrdersGood(disk) /\ OrdersGood(change)

FlightSound == FlightInv /\ TakerLeft /\ FlightStaged

FInv == FlightSound /\ BooksSound /\ LedgersSound

-----------------------------------------------------------------------------
(* Nobody holds a share of a market that does not exist. *)
Unheld(l) == \A h \in Holdings : l.markets[h[2]] = NoMarket => l.pos[h] = 0

(* The books of a ledger balance. *)
GoodLedger(l) == CashAccountedFor(l) /\ AllPaired(l) /\ Covered(l) /\ Unheld(l)

(* Cancellations only give shares back. *)
ReleasesOnly == pc = "remove" => \A h \in Holdings : change.pos[h] >= 0

(* What is in memory, on disk, and in memory once the staged events are applied
   balances at every step. *)
AInv ==
  /\ GoodLedger(mem) /\ GoodLedger(disk) /\ GoodLedger(Apply(mem, change))
  /\ ReleasesOnly
=============================================================================
