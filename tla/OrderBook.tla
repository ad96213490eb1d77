----------------------------- MODULE OrderBook -----------------------------
(***************************************************************************)
(* The C++ order book (engine/src/orderbook.cpp): price levels that map a  *)
(* price to a vector of orders, tombstones instead of erasure, a lookup    *)
(* from engine id to the place of an order, and a compaction that removes  *)
(* the tombstones and rewrites those places.                               *)
(*                                                                         *)
(* Every operation runs under the book's mutex; the matching loop is       *)
(* modelled one iteration at a time.                                       *)
(***************************************************************************)
EXTENDS PriceTime, Sequences, FiniteSets, FiniteSetsExt

CONSTANTS
  Submissions,  \* orders that can be submitted: records [side, price, qty]
  MaxOrders,    \* bound on the number of submissions
  NoTaker       \* no order is being matched

ASSUME BookAssumption ==
  /\ Submissions \subseteq [side : EngineSides, price : Nat, qty : Nat \ {0}]
  /\ MaxOrders \in Nat
  /\ NoTaker \notin Resting

VARIABLES
  levels,    \* bids and asks: side -> price -> vector of [eid, qty, dead]
  lookup,    \* order_lookup: id -> [side, price, index]
  total,     \* total_orders_count
  deleted,   \* deleted_orders_count
  taker, tape, nextId, removed

vars == <<levels, lookup, total, deleted, taker, tape, nextId, removed>>

Init ==
  /\ levels = [side \in EngineSides |-> <<>>]
  /\ lookup = <<>>
  /\ total = 0
  /\ deleted = 0
  /\ taker = NoTaker
  /\ tape = <<>>
  /\ nextId = 1
  /\ removed = FALSE

Live(e) == ~e.dead

(* Mutation: the newest live order of the level is served first. *)
LastLive(orders) ==
  LET live == {i \in DOMAIN orders : Live(orders[i])}
  IN  IF live = {} THEN 0 ELSE Max(live)

(* The first order of a level that is not a tombstone, 0 if there is none. *)
FirstLive(orders) ==
  LET live == {i \in DOMAIN orders : Live(orders[i])}
  IN  IF live = {} THEN 0 ELSE Min(live)

-----------------------------------------------------------------------------
(* Mutation: the places of the orders that moved are not rewritten. *)
CompactedLookupStale(lv, lk) == lk

(* compact_orderbook_helper's second loop: every order left has a new place. *)
CompactedLookup(lv, lk) ==
  [id \in DOMAIN lk |->
     LET orders == lv[lk[id].side][lk[id].price]
     IN  [lk[id] EXCEPT !.index =
            CHOOSE i \in DOMAIN orders : orders[i].eid = id]]

(* std::remove_if and erase: the orders of a level that are not tombstones, in
   the order they had. *)
Kept(orders) ==
  LET kept[i \in 0..Len(orders)] ==
        IF i = 0 THEN <<>>
        ELSE IF Live(orders[i]) THEN Append(kept[i - 1], orders[i])
        ELSE kept[i - 1]
  IN  kept[Len(orders)]

(* compact_orderbook_helper's first and last loop: tombstones go, then the
   levels they leave empty. *)
CompactedLevels(lv) ==
  [side \in EngineSides |->
     [p \in {x \in DOMAIN lv[side] : FirstLive(lv[side][x]) # 0} |->
        Kept(lv[side][p])]]

(* Mutation: compaction starts one tombstone late, however few orders there
   are. *)
CompactionDueLate(d, t) == 4 * d > 3 * t + 4

(* deleted / total > COMPACTION_RATIO, which is 0.75. *)
CompactionDue(d, t) == 4 * d > 3 * t

(* mark_order_deleted on the order at place i of a level, with the levels as
   they are after its quantity was updated. *)
MarkOrderDeleted(lv, side, price, i) ==
  LET marked == [lv EXCEPT ![side][price][i].dead = TRUE]
      left == [id \in DOMAIN lookup \ {lv[side][price][i].eid} |-> lookup[id]]
      compacted == CompactedLevels(marked)
  IN  IF CompactionDue(deleted + 1, total)
      THEN /\ levels' = compacted
           /\ lookup' = CompactedLookup(compacted, left)
           /\ total' = total - (deleted + 1)
           /\ deleted' = 0
      ELSE /\ levels' = marked
           /\ lookup' = left
           /\ total' = total
           /\ deleted' = deleted + 1

-----------------------------------------------------------------------------
AddOrder(o) ==
  /\ taker = NoTaker
  /\ nextId <= MaxOrders
  /\ taker' = [eid |-> nextId, side |-> o.side, price |-> o.price, qty |-> o.qty]
  /\ nextId' = nextId + 1
  /\ tape' = <<>>
  /\ UNCHANGED <<levels, lookup, total, deleted, removed>>

OppositeSide == IF taker.side = "buy" THEN "sell" ELSE "buy"
OppositeLevels == levels[OppositeSide]

(* asks.begin() for a buy, std::prev(bids.end()) for a sell. *)
BestLevel ==
  IF taker.side = "buy" THEN Min(DOMAIN OppositeLevels) ELSE Max(DOMAIN OppositeLevels)

Matching == taker # NoTaker /\ taker.qty > 0 /\ DOMAIN OppositeLevels # {}

TradePossible ==
  IF taker.side = "buy" THEN BestLevel <= taker.price ELSE BestLevel >= taker.price

(* An iteration that finds only tombstones erases the level and goes on. *)
EraseDeadLevel ==
  /\ Matching
  /\ FirstLive(OppositeLevels[BestLevel]) = 0
  /\ levels' = [levels EXCEPT ![OppositeSide] =
                 [p \in DOMAIN @ \ {BestLevel} |-> @[p]]]
  /\ UNCHANGED <<lookup, total, deleted, taker, tape, nextId, removed>>

(* An iteration that trades. *)
ExecuteTrade ==
  /\ Matching
  /\ LET p == BestLevel
         i == FirstLive(OppositeLevels[p])
     IN  /\ i # 0
         /\ TradePossible
         /\ LET existing == OppositeLevels[p][i]
                q == Least(taker.qty, existing.qty)
                filled == [levels EXCEPT ![OppositeSide][p][i].qty = @ - q]
            IN  /\ taker' = [taker EXCEPT !.qty = @ - q]
                /\ tape' = Append(tape,
                     [price |-> p, qty |-> q,
                      buy |-> IF taker.side = "buy" THEN taker.eid ELSE existing.eid,
                      sell |-> IF taker.side = "sell" THEN taker.eid ELSE existing.eid])
                /\ IF existing.qty = q
                   THEN MarkOrderDeleted(filled, OppositeSide, p, i)
                   ELSE levels' = filled /\ UNCHANGED <<lookup, total, deleted>>
  /\ UNCHANGED <<nextId, removed>>

(* The loop is over; what is left of the order joins the back of its level. *)
RestOrder ==
  /\ taker # NoTaker
  /\ Matching => FirstLive(OppositeLevels[BestLevel]) # 0 /\ ~TradePossible
  /\ IF taker.qty > 0
     THEN LET side == taker.side
              p == taker.price
              orders == IF p \in DOMAIN levels[side] THEN levels[side][p] ELSE <<>>
              added == Append(orders, [eid |-> taker.eid, qty |-> taker.qty, dead |-> FALSE])
          IN  /\ levels' = [levels EXCEPT ![side] =
                             [x \in DOMAIN @ \cup {p} |-> IF x = p THEN added ELSE @[x]]]
              /\ lookup' = [id \in DOMAIN lookup \cup {taker.eid} |->
                             IF id = taker.eid
                             THEN [side |-> side, price |-> p, index |-> Len(added)]
                             ELSE lookup[id]]
              /\ total' = total + 1
     ELSE UNCHANGED <<levels, lookup, total>>
  /\ taker' = NoTaker
  /\ UNCHANGED <<deleted, tape, nextId, removed>>

RemoveOrder(id) ==
  /\ taker = NoTaker
  /\ IF id \in DOMAIN lookup
     THEN /\ removed' = TRUE
          /\ MarkOrderDeleted(levels, lookup[id].side, lookup[id].price, lookup[id].index)
     ELSE /\ removed' = FALSE
          /\ UNCHANGED <<levels, lookup, total, deleted>>
  /\ UNCHANGED <<taker, tape, nextId>>

Next ==
  \/ \E o \in Submissions : AddOrder(o)
  \/ EraseDeadLevel
  \/ ExecuteTrade
  \/ RestOrder
  \/ \E id \in 1..MaxOrders : RemoveOrder(id)

Spec == Init /\ [][Next]_vars

-----------------------------------------------------------------------------
(* The entries of the book, with the place each is at. *)
Places ==
  UNION {UNION {{[side |-> side, price |-> p, index |-> i] :
                   i \in DOMAIN levels[side][p]} : p \in DOMAIN levels[side]} :
           side \in EngineSides}
EntryAt(l) == levels[l.side][l.price][l.index]
LivePlaces == {l \in Places : Live(EntryAt(l))}

(* The abstract book: the orders that are not tombstones. *)
LiveOrders ==
  {[eid |-> EntryAt(l).eid, side |-> l.side, price |-> l.price, qty |-> EntryAt(l).qty] :
     l \in LivePlaces}

Abstract == INSTANCE MatchingBook WITH book <- LiveOrders

(* The structure with tombstones, erased levels and compaction is a book with
   price-time priority: the same trades at the same prices, and a removal
   succeeds exactly for the orders that rest. *)
ImplementsMatchingBook == Abstract!BookSpec

(* order_lookup leads to every live order and to nothing else, through any
   sequence of compactions: remove_order writes to the place it finds there
   without looking at what is there. *)
LookupExact ==
  /\ DOMAIN lookup = {EntryAt(l).eid : l \in LivePlaces}
  /\ \A l \in LivePlaces : lookup[EntryAt(l).eid] = l

(* Mutation: the outermost price level counts even when it holds nothing but
   tombstones. *)
BestQuoteAnyLevel(side) ==
  LET prices == DOMAIN levels[side]
  IN  IF prices = {} THEN -1
      ELSE IF side = "sell" THEN Min(prices) ELSE Max(prices)

(* get_best_bid and get_best_ask: tombstones are skipped, an empty side is -1. *)
BestQuote(side) ==
  LET prices == {p \in DOMAIN levels[side] : FirstLive(levels[side][p]) # 0}
  IN  IF prices = {} THEN -1
      ELSE IF side = "sell" THEN Min(prices) ELSE Max(prices)

(* Between operations the quote is a live order's price, no live order is
   better, and bid and ask do not cross. *)
QuotesSound ==
  taker = NoTaker =>
    /\ \A side \in EngineSides :
         LET live == {o \in LiveOrders : o.side = side}
             others == {o.price : o \in live}
         IN  IF live = {} THEN BestQuote(side) = -1
             ELSE /\ BestQuote(side) \in others
                  /\ \A p \in others :
                       IF side = "sell" THEN BestQuote(side) <= p ELSE BestQuote(side) >= p
    /\ BestQuote("buy") # -1 /\ BestQuote("sell") # -1 =>
         BestQuote("buy") < BestQuote("sell")

(* The two counters stand for the live orders, and tombstones never outgrow
   three quarters of what the book counts. *)
GarbageBounded ==
  /\ total - deleted = Cardinality(LivePlaces)
  /\ Cardinality(Places \ LivePlaces) <= deleted
  /\ 4 * deleted <= 3 * total
=============================================================================
