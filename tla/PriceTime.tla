----------------------------- MODULE PriceTime -----------------------------
(***************************************************************************)
(* Price-time priority, the matching rule of the C++ order book            *)
(* (engine/src/orderbook.cpp).  A resting order is a record                *)
(* [eid, side, price, qty]; a book is the set of its live resting orders.  *)
(* Engine ids are handed out in arrival order (Exchange::add_orders draws  *)
(* them from one counter under the exclusive lock), so the smaller id is   *)
(* the earlier order of a price level.                                     *)
(***************************************************************************)
EXTENDS Integers

EngineSides == {"buy", "sell"}

Resting == [eid : Nat, side : EngineSides, price : Nat, qty : Nat]

(* The side of the book a taker trades against. *)
Opposite(book, side) == {o \in book : o.side # side}

(* trade_possible: a buy takes asks at or below its limit, a sell takes
   bids at or above it. *)
Crosses(side, limit, maker) ==
  IF side = "buy" THEN maker.price <= limit ELSE maker.price >= limit

(* a is served before b: better price for the taker first (asks.begin(),
   std::prev(bids.end())), then the front of the price level's vector. *)
Before(side, a, b) ==
  \/ side = "buy" /\ a.price < b.price
  \/ side = "sell" /\ a.price > b.price
  \/ a.price = b.price /\ a.eid < b.eid

(* maker is the order the matching loop picks for a taker of this side. *)
IsBest(book, side, maker) ==
  /\ maker \in Opposite(book, side)
  /\ \A o \in Opposite(book, side) \ {maker} : Before(side, maker, o)

(* The loop can execute another trade. *)
CanTrade(book, side, limit) ==
  \E o \in Opposite(book, side) : Crosses(side, limit, o)

(* Mutation: a trade is never capped by the maker's quantity. *)
LeftOperand(a, b) == a

(* std::min of the two quantities of a trade. *)
Least(a, b) == IF a <= b THEN a ELSE b

(* The book after q contracts of maker are taken; a maker with nothing left
   is marked deleted, which removes it from the live set. *)
Take(book, maker, q) ==
  (book \ {maker}) \cup
    (IF maker.qty = q THEN {} ELSE {[maker EXCEPT !.qty = @ - q]})

(* No live bid reaches a live ask. *)
Uncrossed(book) ==
  \A b, a \in book : b.side = "buy" /\ a.side = "sell" => b.price < a.price
=============================================================================
