---------------------------- MODULE MCOrderBook ----------------------------
(* Two prices on both sides, so that levels hold several orders, cross, die
   and come back; enough orders for a compaction that leaves survivors. *)
EXTENDS OrderBookInvariant

Sub(side, price, qty) == [side |-> side, price |-> price, qty |-> qty]

MCSubmissions ==
  {Sub("sell", 2, 1), Sub("sell", 3, 1), Sub("buy", 2, 1), Sub("buy", 3, 2)}
=============================================================================
