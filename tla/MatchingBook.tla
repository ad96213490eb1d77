---------------------------- MODULE MatchingBook ----------------------------
(***************************************************************************)
(* What one order book promises: price-time priority over a plain set of   *)
(* resting orders.  An incoming order trades with the best maker again and *)
(* again and its rest joins the book; a removal takes an order off the     *)
(* book exactly when it is there.  OrderBook, the C++ structure, is shown  *)
(* to implement this.                                                      *)
(***************************************************************************)
EXTENDS PriceTime, Sequences

CONSTANTS
  Submissions,  \* orders that can be submitted: records [side, price, qty]
  MaxOrders,    \* bound on the number of submissions
  NoTaker       \* no order is being matched

VARIABLES
  book,     \* the live resting orders
  taker,    \* the order being matched
  tape,     \* executed_trades of the latest order
  nextId,   \* the next engine id
  removed   \* what the latest remove_order returned

bookVars == <<book, taker, tape, nextId, removed>>

BookInit ==
  /\ book = {}
  /\ taker = NoTaker
  /\ tape = <<>>
  /\ nextId = 1
  /\ removed = FALSE

AddOrder(o) ==
  /\ taker = NoTaker
  /\ nextId <= MaxOrders
  /\ taker' = [eid |-> nextId, side |-> o.side, price |-> o.price, qty |-> o.qty]
  /\ nextId' = nextId + 1
  /\ tape' = <<>>
  /\ UNCHANGED <<book, removed>>

(* The trade of taker and maker. *)
TradeOf(t, maker, q) ==
  [price |-> maker.price, qty |-> q,
   buy |-> IF t.side = "buy" THEN t.eid ELSE maker.eid,
   sell |-> IF t.side = "sell" THEN t.eid ELSE maker.eid]

TradeWithBest ==
  /\ taker # NoTaker /\ taker.qty > 0
  /\ CanTrade(book, taker.side, taker.price)
  /\ \E maker \in book :
       /\ IsBest(book, taker.side, maker)
       /\ LET q == Least(taker.qty, maker.qty) IN
          /\ book' = Take(book, maker, q)
          /\ taker' = [taker EXCEPT !.qty = @ - q]
          /\ tape' = Append(tape, TradeOf(taker, maker, q))
  /\ UNCHANGED <<nextId, removed>>

Rest ==
  /\ taker # NoTaker
  /\ ~(taker.qty > 0 /\ CanTrade(book, taker.side, taker.price))
  /\ book' = IF taker.qty > 0 THEN book \cup {taker} ELSE book
  /\ taker' = NoTaker
  /\ UNCHANGED <<tape, nextId, removed>>

RemoveOrder(id) ==
  /\ taker = NoTaker
  /\ removed' = (\E o \in book : o.eid = id)
  /\ book' = {o \in book : o.eid # id}
  /\ UNCHANGED <<taker, tape, nextId>>

BookNext ==
  \/ \E o \in Submissions : AddOrder(o)
  \/ TradeWithBest
  \/ Rest
  \/ \E id \in 1..MaxOrders : RemoveOrder(id)

BookSpec == BookInit /\ [][BookNext]_bookVars
=============================================================================
