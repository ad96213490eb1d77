----------------------------- MODULE MCTrading -----------------------------
(* One market on one engine: two users whose orders cross, rest, fill in
   part, sell shares back and are retried. *)
EXTENDS TradingFlight, TLC

CONSTANTS alice, bob, m1, s1, e1, o1, o2, o3, o4, o5

Req(id, u, side, price, qty) ==
  [id |-> id, user |-> u, market |-> m1, side |-> side, price |-> price, qty |-> qty]

MCUsers == {alice, bob}
MCMarkets == {m1}
MCSymbols == {s1}
MCEngines == {e1}
MCOrderIds == {o1, o2, o3, o4, o5}
MCPartition == s1 :> e1
MCCreations == {[id |-> m1, symbol |-> s1, owner |-> alice]}
MCRequests ==
  { Req(o1, alice, "buy_yes", 60, 2), Req(o2, bob, "buy_no", 50, 1),
    Req(o3, bob, "buy_no", 80, 1), Req(o4, alice, "sell_yes", 60, 1),
    Req(o5, bob, "sell_no", 40, 1) }

(* The orders of the settlement run: a pair is minted and one side offered
   for sale again. *)
MCSettlementRequests ==
  { Req(o1, alice, "buy_yes", 60, 1), Req(o2, bob, "buy_no", 50, 1),
    Req(o3, alice, "sell_yes", 70, 1) }
=============================================================================
