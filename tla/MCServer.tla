------------------------------ MODULE MCServer ------------------------------
(* One market and a user who trades with herself, which the code allows: a
   trade leaves part of the first order on the book, from where it is
   cancelled or recovered.  Quantities up to 2 are an INT here, up to 3 the
   engine takes them. *)
EXTENDS Server, TLC

CONSTANTS alice, m1, s1, o1, o2

MCUsers == {alice}
MCMarkets == {m1}
MCSymbols == {s1}
MCOrderIds == {o1, o2}

OrderBy(u, id, side, qty) ==
  [kind |-> "order", user |-> u, id |-> id, market |-> m1, side |-> side,
   price |-> 50, qty |-> qty]
DepositOf(u, cents) == [kind |-> "deposit", user |-> u, cents |-> cents]
Creation == [kind |-> "create", user |-> alice, market |-> m1, symbol |-> s1]

MCRequests ==
  { Creation, DepositOf(alice, 150),
    OrderBy(alice, o1, "buy_yes", 2), OrderBy(alice, o2, "buy_no", 1),
    OrderBy(alice, o1, "buy_yes", 3),
    [kind |-> "cancel", user |-> alice, id |-> o1] }
=============================================================================
