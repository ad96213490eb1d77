------------------------ MODULE MCTradingPartitions ------------------------
(* Two markets, each owned by an engine of its own, and one user, who may trade
   with herself: a batch spans both engines, one owner can fail or restart
   after the other has traded, a fault can follow a fault, and a symbol is
   asked for twice. *)
EXTENDS TradingFlight, TLC

CONSTANTS alice, m1, m2, s1, s2, e1, e2, o1, o2, o3

Req(id, m, side, price) ==
  [id |-> id, user |-> alice, market |-> m, side |-> side, price |-> price, qty |-> 1]

MCUsers == {alice}
MCMarkets == {m1, m2}
MCSymbols == {s1, s2}
MCEngines == {e1, e2}
MCOrderIds == {o1, o2, o3}
MCPartition == s1 :> e1 @@ s2 :> e2
MCCreations ==
  { [id |-> m1, symbol |-> s1, owner |-> alice],
    [id |-> m2, symbol |-> s2, owner |-> alice],
    [id |-> m2, symbol |-> s1, owner |-> alice] }
MCRequests ==
  { Req(o1, m1, "buy_yes", 60), Req(o2, m1, "buy_no", 50), Req(o3, m2, "buy_no", 40) }
=============================================================================
