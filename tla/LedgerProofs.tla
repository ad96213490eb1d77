---------------------------- MODULE LedgerProofs ----------------------------
(***************************************************************************)
(* What the events of the ledger do to its orders and markets, for every   *)
(* set of users, markets and orders, and that the sums of functions over   *)
(* finite sets can be taken one element at a time.                         *)
(***************************************************************************)
EXTENDS Ledger, Functions, FiniteSetTheorems, TLAPS

(* A service without history has a well-formed ledger that knows no order and
   no market. *)
LEMMA EmptyLedger ==
  /\ Empty \in LedgerType
  /\ \A id \in OrderIds : Empty.orders[id] = NoOrder
  /\ \A m \in Markets : Empty.markets[m] = NoMarket
BY DEF Empty, LedgerType

(* An order event keeps the ledger well-formed and replaces only its own
   order; cash moves, markets do not. *)
LEMMA OrderEventLedger ==
  ASSUME NEW c \in LedgerType, NEW id \in OrderIds, NEW o \in Order, NEW a \in Int
  PROVE  /\ OrderEvent(c, id, o, a) \in LedgerType
         /\ OrderEvent(c, id, o, a).orders = [c.orders EXCEPT ![id] = o]
         /\ OrderEvent(c, id, o, a).markets = c.markets
<1>. DEFINE orders == [c.orders EXCEPT ![id] = o]
            cash == [c.cash EXCEPT ![o.user] = @ + a]
<1>1. OrderEvent(c, id, o, a) = [c EXCEPT !.orders = orders, !.cash = cash]
  BY DEF OrderEvent, LedgerType
<1>2. orders \in [OrderIds -> Order \cup {NoOrder}] /\ cash \in [Users -> Int]
  BY DEF LedgerType, Order
<1>3. orders = [c.orders EXCEPT ![id] = o]
  OBVIOUS
<1>. HIDE DEF orders, cash
<1>. QED
  BY <1>1, <1>2, <1>3 DEF LedgerType

(* A position event keeps the ledger well-formed and leaves orders and markets
   alone. *)
LEMMA PositionEventLedger ==
  ASSUME NEW c \in LedgerType, NEW u \in Users, NEW m \in Markets, NEW x \in Outcomes,
         NEW n \in Int, NEW a \in Int
  PROVE  /\ PositionEvent(c, u, m, x, n, a) \in LedgerType
         /\ PositionEvent(c, u, m, x, n, a).orders = c.orders
         /\ PositionEvent(c, u, m, x, n, a).markets = c.markets
<1>. DEFINE pos == [c.pos EXCEPT ![<<u, m, x>>] = @ + n]
            cash == [c.cash EXCEPT ![u] = @ + a]
<1>1. PositionEvent(c, u, m, x, n, a) = [c EXCEPT !.pos = pos, !.cash = cash]
  BY DEF PositionEvent, LedgerType
<1>2. pos \in [Holdings -> Int] /\ cash \in [Users -> Int]
  BY DEF LedgerType, Holdings
<1>. HIDE DEF pos, cash
<1>. QED
  BY <1>1, <1>2 DEF LedgerType

(* Reserving for an order, cash for a buy and shares for a sell, stages exactly
   that order. *)
LEMMA ReserveLedger ==
  ASSUME NEW c \in LedgerType, NEW id \in OrderIds, NEW o \in Order
  PROVE  /\ ReserveEvents(c, id, o) \in LedgerType
         /\ ReserveEvents(c, id, o).orders = [c.orders EXCEPT ![id] = o]
         /\ ReserveEvents(c, id, o).markets = c.markets
<1>1. OutcomeOf(o.side) \in Outcomes
  BY DEF OutcomeOf, Outcomes
<1>2. o.user \in Users /\ o.market \in Markets /\ o.qty \in Int /\ o.price \in Int
  BY DEF Order
<1>3. -(o.price * o.qty) \in Int /\ -o.qty \in Int
  BY <1>2
<1>. QED
  BY <1>1, <1>2, <1>3, OrderEventLedger, PositionEventLedger DEF ReserveEvents

(* Releasing an order, as Cancel and ResolveFor do, stages exactly that order
   as cancelled. *)
LEMMA ReleaseLedger ==
  ASSUME NEW c \in LedgerType, NEW id \in OrderIds, NEW o \in Order
  PROVE  /\ ReleaseEvents(c, id, o) \in LedgerType
         /\ ReleaseEvents(c, id, o).orders
              = [c.orders EXCEPT ![id] = [o EXCEPT !.status = "cancelled"]]
         /\ ReleaseEvents(c, id, o).markets = c.markets
<1>. DEFINE closed == [o EXCEPT !.status = "cancelled"]
<1>1. OutcomeOf(o.side) \in Outcomes
  BY DEF OutcomeOf, Outcomes
<1>2. o.user \in Users /\ o.market \in Markets /\ Remaining(o) \in Int /\ o.price \in Int
  BY DEF Order, Remaining
<1>3. Remaining(o) * o.price \in Int
  BY <1>2
<1>4. closed \in Order
  BY DEF Order, OrderStatuses
<1>. QED
  BY SMTT(30), <1>1, <1>2, <1>3, <1>4, OrderEventLedger, PositionEventLedger DEF ReleaseEvents

(* A fill changes neither what was ordered nor by whom, and leaves the order
   past its pending state. *)
LEMMA FilledOrderKept ==
  ASSUME NEW o \in Order, NEW q \in Nat
  PROVE  /\ FilledOrder(o, q) \in Order
         /\ SameOrder(FilledOrder(o, q), o)
         /\ FilledOrder(o, q).status # "pending"
<1>. DEFINE status == IF o.filled + q >= o.qty THEN "filled" ELSE "partial"
            filled == o.filled + q
<1>1. status \in OrderStatuses \ {"pending"} /\ filled \in Nat
  BY DEF Order, OrderStatuses, ActiveStatuses
<1>2. FilledOrder(o, q) = [o EXCEPT !.filled = filled, !.status = status]
  BY DEF FilledOrder
<1>. HIDE DEF status, filled
<1>. QED
  BY <1>1, <1>2 DEF Order, SameOrder

(* The events of a fill stage exactly the filled order. *)
LEMMA FillLedger ==
  ASSUME NEW c \in LedgerType, NEW id \in OrderIds, NEW o \in Order, NEW q \in Nat, NEW p \in Nat
  PROVE  /\ FillEvents(c, id, o, q, p) \in LedgerType
         /\ FillEvents(c, id, o, q, p).markets = c.markets
         /\ FillEvents(c, id, o, q, p).orders = [c.orders EXCEPT ![id] = FilledOrder(o, q)]
<1>. DEFINE n == FilledOrder(o, q)
            shares == IF IsBuy(o.side) THEN q ELSE 0
            credit == FillCredit(o, q, p)
            x == OutcomeOf(o.side)
            d == OrderEvent(c, id, n, 0)
<1>1. o.user \in Users /\ o.market \in Markets /\ o.price \in Int
  BY DEF Order
<1>2. x \in Outcomes /\ shares \in Int
  BY DEF OutcomeOf, Outcomes
<1>3. credit \in Int
  BY <1>1 DEF FillCredit, Order, Sides
<1>4. FillEvents(c, id, o, q, p) = PositionEvent(d, o.user, o.market, x, shares, credit)
  BY DEF FillEvents
<1>5. d \in LedgerType /\ d.orders = [c.orders EXCEPT ![id] = n] /\ d.markets = c.markets
  <2>1. n \in Order
    BY FilledOrderKept
  <2>. HIDE DEF n
  <2>. QED  BY <2>1, OrderEventLedger
<1>. HIDE DEF d, shares, credit, x
<1>. QED
  BY <1>1, <1>2, <1>3, <1>4, <1>5, PositionEventLedger

(* Settlement pays out without touching an order or a market. *)
LEMMA PayoutLedger ==
  ASSUME NEW c \in LedgerType, NEW l \in LedgerType, NEW m \in Markets, NEW x \in Outcomes
  PROVE  /\ PayoutEvents(c, l, m, x) \in LedgerType
         /\ PayoutEvents(c, l, m, x).orders = c.orders
         /\ PayoutEvents(c, l, m, x).markets = c.markets
<1>. DEFINE cash == [u \in Users |-> c.cash[u] + 100 * l.pos[<<u, m, x>>]]
            pos == [h \in Holdings |-> c.pos[h] - (IF h[2] = m THEN l.pos[h] ELSE 0)]
<1>1. PayoutEvents(c, l, m, x) = [c EXCEPT !.cash = cash, !.pos = pos]
  BY DEF PayoutEvents
<1>2. \A u \in Users : <<u, m, x>> \in Holdings
  BY DEF Holdings
<1>3. cash \in [Users -> Int] /\ pos \in [Holdings -> Int]
  BY <1>2 DEF LedgerType
<1>. HIDE DEF cash, pos
<1>. QED
  BY <1>1, <1>3 DEF LedgerType

(* A market event replaces only its own market. *)
LEMMA MarketEventLedger ==
  ASSUME NEW c \in LedgerType, NEW m \in Markets, NEW market \in Market
  PROVE  /\ MarketEvent(c, m, market) \in LedgerType
         /\ MarketEvent(c, m, market).orders = c.orders
         /\ MarketEvent(c, m, market).markets = [c.markets EXCEPT ![m] = market]
BY DEF MarketEvent, LedgerType

(* A deposit touches no order and no market. *)
LEMMA BalanceEventLedger ==
  ASSUME NEW c \in LedgerType, NEW u \in Users, NEW a \in Int
  PROVE  /\ BalanceEvent(c, u, a) \in LedgerType
         /\ BalanceEvent(c, u, a).orders = c.orders
         /\ BalanceEvent(c, u, a).markets = c.markets
<1>. DEFINE cash == [c.cash EXCEPT ![u] = @ + a]
<1>1. BalanceEvent(c, u, a) = [c EXCEPT !.cash = cash, !.deposited = @ + a]
  BY DEF BalanceEvent, LedgerType
<1>2. cash \in [Users -> Int] /\ c.deposited + a \in Int
  BY DEF LedgerType
<1>. HIDE DEF cash
<1>. QED
  BY <1>1, <1>2 DEF LedgerType

(* apply: a commit takes over what was staged and keeps the rest. *)
LEMMA ApplyLedger ==
  ASSUME NEW l \in LedgerType, NEW c \in LedgerType
  PROVE  /\ Apply(l, c) \in LedgerType
         /\ \A id \in OrderIds : Apply(l, c).orders[id] =
              IF c.orders[id] = NoOrder THEN l.orders[id] ELSE c.orders[id]
         /\ \A m \in Markets : Apply(l, c).markets[m] =
              IF c.markets[m] = NoMarket THEN l.markets[m] ELSE c.markets[m]
BY DEF Apply, LedgerType

-----------------------------------------------------------------------------
(***************************************************************************)
(* Sums over finite sets.  SumFunctionOnSet is a recursive function over   *)
(* the subsets of a set; what it computes is proved by descent to a least  *)
(* counterexample.                                                         *)
(***************************************************************************)

(* Among natural numbers there is a least one. *)
LEMMA LeastNatural ==
  ASSUME NEW T, T \subseteq Nat, T # {}
  PROVE  \E m \in T : \A k \in T : m <= k
<1>1. PICK m \in T : \A k \in T : ~(<<k, m>> \in OpToRel(<, Nat))
  BY WFMin, NatLessThanWellFounded, Zenon
<1>2. \A k \in T : ~(k < m)
  <2>1. \A k \in T : <<k, m>> \in Nat \X Nat
    OBVIOUS
  <2>. QED BY <1>1, <2>1, Zenon DEF OpToRel
<1>. QED  BY <1>2

(* f has a sum over S. *)
Summable(f, S) == IsFiniteSet(S) /\ \A x \in S : f[x] \in Int

(* g sums f over the subsets of S, whatever the order. *)
Additive(g, f, S) ==
  /\ g \in [SUBSET S -> Int]
  /\ g[{}] = 0
  /\ \A s \in SUBSET S : \A x \in s : g[s] = f[x] + g[s \ {x}]

(* One more element. *)
LEMMA AdditiveExtends ==
  ASSUME NEW S, NEW f, Summable(f, S), NEW y \in S,
         NEW g, Additive(g, f, S \ {y})
  PROVE  \E h : Additive(h, f, S)
<1>. DEFINE h == [s \in SUBSET S |-> IF y \in s THEN f[y] + g[s \ {y}] ELSE g[s]]
<1>1. /\ g \in [SUBSET (S \ {y}) -> Int] /\ g[{}] = 0
      /\ \A s \in SUBSET (S \ {y}) : \A x \in s : g[s] = f[x] + g[s \ {x}]
  BY DEF Additive
<1>2. ASSUME NEW s \in SUBSET S
      PROVE  /\ s \ {y} \in SUBSET (S \ {y}) /\ g[s \ {y}] \in Int
             /\ y \notin s => s \in SUBSET (S \ {y}) /\ s \ {y} = s
             /\ h[s] = (IF y \in s THEN f[y] + g[s \ {y}] ELSE g[s])
             /\ h[s] \in Int
  <2>1. s \ {y} \in SUBSET (S \ {y}) /\ (y \notin s => s \in SUBSET (S \ {y}) /\ s \ {y} = s)
    OBVIOUS
  <2>2. g[s \ {y}] \in Int
    BY <1>1, <2>1
  <2>3. f[y] \in Int
    BY DEF Summable
  <2>4. h[s] = (IF y \in s THEN f[y] + g[s \ {y}] ELSE g[s])
    OBVIOUS
  <2>5. h[s] \in Int
    <3>. HIDE DEF h
    <3>1. CASE y \in s
      BY <2>2, <2>3, <2>4, <3>1
    <3>2. CASE y \notin s
      BY <2>1, <2>2, <2>4, <3>2
    <3>. QED  BY <3>1, <3>2
  <2>. HIDE DEF h
  <2>. QED  BY <2>1, <2>2, <2>4, <2>5
<1>3. ASSUME NEW s \in SUBSET S, NEW x \in s
      PROVE  h[s] = f[x] + h[s \ {x}]
  <2>0. s \ {x} \in SUBSET S /\ f[x] \in Int /\ f[y] \in Int
    BY DEF Summable
  <2>1. CASE x = y
    BY <2>0, <2>1, <1>2
  <2>2. CASE x # y /\ y \in s
    <3>1. g[s \ {y}] = f[x] + g[(s \ {y}) \ {x}]
      BY <1>1, <1>2, <2>2
    <3>2. (s \ {x}) \ {y} = (s \ {y}) \ {x} /\ y \in s \ {x}
      BY <2>2
    <3>3. h[s \ {x}] = f[y] + g[(s \ {y}) \ {x}] /\ h[s] = f[y] + g[s \ {y}]
      BY <1>2, <2>0, <2>2, <3>2
    <3>4. g[(s \ {y}) \ {x}] \in Int
      BY <1>2, <2>0, <3>2
    <3>. QED  BY <3>1, <3>3, <3>4, <2>0
  <2>3. CASE y \notin s
    <3>1. y \notin s \ {x}
      BY <2>3
    <3>. QED  BY <1>1, <1>2, <2>0, <2>3, <3>1
  <2>. QED  BY <2>1, <2>2, <2>3
<1>4. h \in [SUBSET S -> Int]
  BY <1>2
<1>5. h[{}] = 0
  BY <1>1, <1>2
<1>. HIDE DEF h
<1>. QED  BY <1>3, <1>4, <1>5 DEF Additive

(* A sum exists over every finite set, by descent to a least set without. *)
LEMMA AdditiveExists ==
  ASSUME NEW S, NEW f, Summable(f, S)
  PROVE  \E g : Additive(g, f, S)
<1>. DEFINE Has(X) == \E g : Additive(g, f, X)
            Bad == {n \in Nat : \E X \in SUBSET S : Cardinality(X) = n /\ ~Has(X)}
<1>1. SUFFICES Bad = {}
  <2>1. S \in SUBSET S /\ Cardinality(S) \in Nat
    BY FS_CardinalityType DEF Summable
  <2>. QED  BY <1>1, <2>1
<1>2. SUFFICES ASSUME Bad # {} PROVE FALSE
  OBVIOUS
<1>3. PICK n \in Bad : \A k \in Bad : n <= k
  <2>1. Bad \subseteq Nat
    OBVIOUS
  <2>. QED  BY <1>2, <2>1, LeastNatural
<1>4. PICK X \in SUBSET S : Cardinality(X) = n /\ ~Has(X)
  OBVIOUS
<1>5. IsFiniteSet(X) /\ Summable(f, X)
  BY FS_Subset DEF Summable
<1>6. X # {}
  <2>1. SUFFICES ASSUME X = {} PROVE FALSE
    OBVIOUS
  <2>. DEFINE g == [s \in SUBSET X |-> 0]
  <2>2. Additive(g, f, X)
    BY <2>1 DEF Additive
  <2>. QED  BY <2>2, <1>4
<1>7. PICK y \in X : TRUE
  BY <1>6
<1>8. IsFiniteSet(X \ {y}) /\ Cardinality(X \ {y}) = n - 1 /\ X \ {y} \in SUBSET S
  BY <1>4, <1>5, <1>7, FS_RemoveElement
<1>9. Cardinality(X \ {y}) \in Nat
  BY <1>8, FS_CardinalityType
<1>10. Has(X \ {y})
  <2>1. n \in Nat
    OBVIOUS
  <2>2. n - 1 \in Nat /\ ~(n <= n - 1)
    BY <1>8, <1>9, <2>1
  <2>3. ~(n - 1 \in Bad)
    BY <1>3, <2>2
  <2>. QED  BY <1>8, <2>2, <2>3
<1>. QED  BY <1>4, <1>5, <1>7, <1>10, AdditiveExtends

(* The recursion of MapThenFoldSet. *)
SumStep(g, f, s) ==
  IF s = {} THEN 0
  ELSE f[CHOOSE x \in s : TRUE] + g[s \ {CHOOSE x \in s : TRUE}]

(* Two sums of f agree wherever both are defined. *)
LEMMA SumsAgree ==
  ASSUME NEW S, NEW T, NEW f, NEW g, NEW h, IsFiniteSet(T), T \subseteq S,
         Additive(g, f, S), h = [s \in SUBSET T |-> SumStep(h, f, s)]
  PROVE  \A s \in SUBSET T : h[s] = g[s]
<1>. DEFINE Bad == {n \in Nat : \E s \in SUBSET T : Cardinality(s) = n /\ h[s] # g[s]}
<1>1. SUFFICES Bad = {}
  <2>1. \A s \in SUBSET T : Cardinality(s) \in Nat
    BY FS_CardinalityType, FS_Subset
  <2>. QED  BY <1>1, <2>1
<1>2. SUFFICES ASSUME Bad # {} PROVE FALSE
  OBVIOUS
<1>3. PICK n \in Bad : \A k \in Bad : n <= k
  <2>1. Bad \subseteq Nat
    OBVIOUS
  <2>. QED  BY <1>2, <2>1, LeastNatural
<1>4. PICK s \in SUBSET T : Cardinality(s) = n /\ h[s] # g[s]
  OBVIOUS
<1>5. h[s] = SumStep(h, f, s)
  <2>. DEFINE e(t) == SumStep(h, f, t)
  <2>1. h = [t \in SUBSET T |-> e(t)]
    OBVIOUS
  <2>. HIDE DEF e
  <2>2. h[s] = e(s)
    BY <2>1
  <2>. QED  BY <2>2 DEF e
<1>6. g[{}] = 0 /\ \A t \in SUBSET S : \A x \in t : g[t] = f[x] + g[t \ {x}]
  BY DEF Additive
<1>7. s # {}
  BY <1>4, <1>5, <1>6 DEF SumStep
<1>. DEFINE x == CHOOSE x \in s : TRUE
<1>8. x \in s
  BY <1>7
<1>9. h[s] = f[x] + h[s \ {x}]
  BY <1>5, <1>7 DEF SumStep
<1>. HIDE DEF x
<1>10. g[s] = f[x] + g[s \ {x}]
  BY <1>6, <1>8
<1>11. h[s \ {x}] # g[s \ {x}]
  BY <1>4, <1>9, <1>10
<1>12. Cardinality(s \ {x}) = n - 1 /\ Cardinality(s \ {x}) \in Nat /\ s \ {x} \in SUBSET T
  BY <1>4, <1>8, FS_RemoveElement, FS_Subset, FS_CardinalityType
<1>13. n - 1 \in Bad
  BY <1>11, <1>12
<1>14. n \in Nat /\ n <= n - 1
  BY <1>3, <1>13
<1>. QED  BY <1>14

(* What SumFunctionOnSet computes. *)
LEMMA SumIs ==
  ASSUME NEW S, NEW T, NEW f, NEW g, Summable(f, S), T \subseteq S, Additive(g, f, S)
  PROVE  SumFunctionOnSet(f, T) = g[T]
<1>. DEFINE iter == CHOOSE h : h = [s \in SUBSET T |-> SumStep(h, f, s)]
<1>1. SumFunctionOnSet(f, T) = iter[T]
  BY DEF SumFunctionOnSet, FoldFunctionOnSet, MapThenFoldSet, SumStep
<1>2. \E h : h = [s \in SUBSET T |-> SumStep(h, f, s)]
  <2>. DEFINE h == [s \in SUBSET T |-> g[s]]
  <2>1. \A s \in SUBSET T : h[s] = g[s]
    OBVIOUS
  <2>2. ASSUME NEW s \in SUBSET T PROVE g[s] = SumStep(h, f, s)
    <3>1. CASE s = {}
      BY <3>1 DEF SumStep, Additive
    <3>2. CASE s # {}
      <4>. DEFINE x == CHOOSE x \in s : TRUE
      <4>1. x \in s
        BY <3>2
      <4>2. SumStep(h, f, s) = f[x] + h[s \ {x}]
        BY <3>2 DEF SumStep
      <4>. HIDE DEF x, h
      <4>3. h[s \ {x}] = g[s \ {x}]
        BY <2>1
      <4>4. g[s] = f[x] + g[s \ {x}]
        BY <4>1 DEF Additive
      <4>. QED  BY <4>2, <4>3, <4>4
    <3>. QED  BY <3>1, <3>2
  <2>3. h = [s \in SUBSET T |-> SumStep(h, f, s)]
    <3>. DEFINE e(s) == SumStep(h, f, s)
    <3>1. \A s \in SUBSET T : g[s] = e(s)
      BY <2>2
    <3>2. [s \in SUBSET T |-> g[s]] = [s \in SUBSET T |-> e(s)]
      <4>. HIDE DEF e
      <4>. QED  BY <3>1
    <3>. QED  BY <3>2
  <2>. HIDE DEF h
  <2>. QED  BY <2>3
<1>3. iter = [s \in SUBSET T |-> SumStep(iter, f, s)]
  BY <1>2
<1>. HIDE DEF iter
<1>4. IsFiniteSet(T)
  BY FS_Subset DEF Summable
<1>5. iter[T] = g[T]
  BY <1>3, <1>4, SumsAgree
<1>. QED  BY <1>1, <1>5

(* A sum is an integer, nothing sums to zero, and any element can be taken
   out first. *)
LEMMA SumPick ==
  ASSUME NEW S, NEW f, Summable(f, S)
  PROVE  /\ SumFunctionOnSet(f, S) \in Int
         /\ S = {} => SumFunctionOnSet(f, S) = 0
         /\ \A x \in S : /\ SumFunctionOnSet(f, S \ {x}) \in Int
                         /\ SumFunctionOnSet(f, S) = f[x] + SumFunctionOnSet(f, S \ {x})
<1>1. PICK g : Additive(g, f, S)
  BY AdditiveExists
<1>2. /\ g \in [SUBSET S -> Int] /\ g[{}] = 0
      /\ \A x \in S : g[S] = f[x] + g[S \ {x}]
  BY <1>1 DEF Additive
<1>3. \A T \in SUBSET S : SumFunctionOnSet(f, T) = g[T] /\ g[T] \in Int
  BY <1>1, <1>2, SumIs
<1>4. S \in SUBSET S /\ \A x \in S : S \ {x} \in SUBSET S
  OBVIOUS
<1>. QED  BY <1>2, <1>3, <1>4

LEMMA SumType ==
  ASSUME NEW S, NEW f, Summable(f, S)
  PROVE  SumFunctionOnSet(f, S) \in Int
BY SumPick

LEMMA SumEmpty ==
  ASSUME NEW f
  PROVE  SumFunctionOnSet(f, {}) = 0
<1>1. Summable(f, {})
  BY FS_EmptySet DEF Summable
<1>. QED  BY <1>1, SumPick

(* One element more. *)
LEMMA SumAdd ==
  ASSUME NEW S, NEW f, Summable(f, S), NEW x, x \notin S, f[x] \in Int
  PROVE  SumFunctionOnSet(f, S \cup {x}) = SumFunctionOnSet(f, S) + f[x]
<1>1. Summable(f, S \cup {x}) /\ (S \cup {x}) \ {x} = S
  <2>1. IsFiniteSet(S \cup {x})
    BY FS_AddElement DEF Summable
  <2>. QED  BY <2>1 DEF Summable
<1>2. x \in S \cup {x}
  OBVIOUS
<1>3. SumFunctionOnSet(f, S \cup {x}) = f[x] + SumFunctionOnSet(f, (S \cup {x}) \ {x})
  BY <1>1, <1>2, SumPick
<1>. DEFINE a == SumFunctionOnSet(f, S \cup {x})
            b == SumFunctionOnSet(f, S)
<1>4. b \in Int /\ a = f[x] + b
  BY <1>1, <1>3, SumPick
<1>. HIDE DEF a, b
<1>5. a = b + f[x]
  BY <1>4
<1>. QED  BY <1>5 DEF a, b

(* The sum of a + b, element by element. *)
LEMMA SumPlus ==
  ASSUME NEW S, NEW f, NEW a, NEW b, Summable(a, S), Summable(b, S),
         \A x \in S : f[x] = a[x] + b[x]
  PROVE  SumFunctionOnSet(f, S) = SumFunctionOnSet(a, S) + SumFunctionOnSet(b, S)
<1>. DEFINE Is(X) == SumFunctionOnSet(f, X) = SumFunctionOnSet(a, X) + SumFunctionOnSet(b, X)
            Bad == {n \in Nat : \E X \in SUBSET S : Cardinality(X) = n /\ ~Is(X)}
<1>1. SUFFICES Bad = {}
  <2>1. S \in SUBSET S /\ Cardinality(S) \in Nat
    BY FS_CardinalityType DEF Summable
  <2>. HIDE DEF Is
  <2>2. Is(S)
    BY <1>1, <2>1
  <2>. QED  BY <2>2 DEF Is
<1>2. SUFFICES ASSUME Bad # {} PROVE FALSE
  OBVIOUS
<1>3. PICK n \in Bad : \A k \in Bad : n <= k
  <2>1. Bad \subseteq Nat
    OBVIOUS
  <2>. QED  BY <1>2, <2>1, LeastNatural
<1>4. PICK X \in SUBSET S : Cardinality(X) = n /\ ~Is(X)
  OBVIOUS
<1>5. IsFiniteSet(X) /\ Summable(f, X) /\ Summable(a, X) /\ Summable(b, X)
  <2>1. IsFiniteSet(X)
    BY FS_Subset DEF Summable
  <2>2. \A x \in X : a[x] \in Int /\ b[x] \in Int /\ f[x] = a[x] + b[x]
    BY DEF Summable
  <2>. QED  BY <2>1, <2>2 DEF Summable
<1>6. X # {}
  <2>1. SUFFICES ASSUME X = {} PROVE FALSE
    OBVIOUS
  <2>2. SumFunctionOnSet(f, X) = 0 /\ SumFunctionOnSet(a, X) = 0 /\ SumFunctionOnSet(b, X) = 0
    BY <2>1, <1>5, SumPick
  <2>. QED  BY <2>2, <1>4
<1>7. PICK y \in X : TRUE
  BY <1>6
<1>. DEFINE Y == X \ {y}
<1>8. Cardinality(Y) = n - 1 /\ Y \in SUBSET S /\ Cardinality(Y) \in Nat
  BY <1>4, <1>5, <1>7, FS_RemoveElement, FS_CardinalityType
<1>9. Is(Y)
  <2>. HIDE DEF Is, Y
  <2>1. n - 1 \in Nat /\ ~(n <= n - 1)
    BY <1>8
  <2>2. ~(n - 1 \in Bad)
    BY <1>3, <2>1
  <2>. QED  BY <1>8, <2>1, <2>2
<1>10. /\ SumFunctionOnSet(f, X) = f[y] + SumFunctionOnSet(f, Y) /\ SumFunctionOnSet(f, Y) \in Int
       /\ SumFunctionOnSet(a, X) = a[y] + SumFunctionOnSet(a, Y) /\ SumFunctionOnSet(a, Y) \in Int
       /\ SumFunctionOnSet(b, X) = b[y] + SumFunctionOnSet(b, Y) /\ SumFunctionOnSet(b, Y) \in Int
  BY <1>5, <1>7, SumPick
<1>11. f[y] = a[y] + b[y] /\ a[y] \in Int /\ b[y] \in Int
  BY <1>5, <1>7 DEF Summable
<1>12. Is(X)
  <2>. HIDE DEF Y
  <2>. QED  BY <1>9, <1>10, <1>11
<1>. HIDE DEF Is
<1>. QED  BY <1>4, <1>12

(* Zeros sum to zero. *)
LEMMA SumZero ==
  ASSUME NEW S, NEW f, IsFiniteSet(S), \A x \in S : f[x] = 0
  PROVE  SumFunctionOnSet(f, S) = 0
<1>1. Summable(f, S)
  BY DEF Summable
<1>2. SumFunctionOnSet(f, S) = SumFunctionOnSet(f, S) + SumFunctionOnSet(f, S)
  <2>1. \A x \in S : f[x] = f[x] + f[x]
    OBVIOUS
  <2>. QED  BY <1>1, <2>1, SumPlus
<1>. DEFINE a == SumFunctionOnSet(f, S)
<1>3. a \in Int /\ a = a + a
  BY <1>1, <1>2, SumPick
<1>. HIDE DEF a
<1>4. a = 0
  BY <1>3
<1>. QED  BY <1>4 DEF a

(* Sums see only the elements. *)
LEMMA SumSame ==
  ASSUME NEW S, NEW f, NEW g, Summable(f, S), \A x \in S : g[x] = f[x]
  PROVE  SumFunctionOnSet(g, S) = SumFunctionOnSet(f, S)
<1>. DEFINE z == [x \in S |-> 0]
<1>1. Summable(z, S) /\ \A x \in S : g[x] = f[x] + z[x]
  BY DEF Summable
<1>2. SumFunctionOnSet(z, S) = 0
  BY SumZero DEF Summable
<1>3. SumFunctionOnSet(f, S) \in Int
  BY SumPick
<1>. HIDE DEF z
<1>4. SumFunctionOnSet(g, S) = SumFunctionOnSet(f, S) + SumFunctionOnSet(z, S)
  BY <1>1, SumPlus
<1>. QED  BY <1>2, <1>3, <1>4

(* What changes at one element changes the sum by as much. *)
LEMMA SumUpdate ==
  ASSUME NEW S, NEW f, NEW g, Summable(f, S), NEW x \in S, g[x] \in Int,
         \A y \in S \ {x} : g[y] = f[y]
  PROVE  SumFunctionOnSet(g, S) = SumFunctionOnSet(f, S) - f[x] + g[x]
<1>1. Summable(g, S)
  <2>1. \A y \in S : g[y] \in Int
    BY DEF Summable
  <2>. QED  BY <2>1 DEF Summable
<1>2. Summable(f, S \ {x})
  <2>1. IsFiniteSet(S \ {x})
    BY FS_RemoveElement DEF Summable
  <2>. QED  BY <2>1 DEF Summable
<1>3. SumFunctionOnSet(g, S \ {x}) = SumFunctionOnSet(f, S \ {x})
  BY <1>2, SumSame
<1>4. /\ SumFunctionOnSet(f, S \ {x}) \in Int
      /\ SumFunctionOnSet(f, S) = f[x] + SumFunctionOnSet(f, S \ {x})
  BY SumPick
<1>5. SumFunctionOnSet(g, S) = g[x] + SumFunctionOnSet(g, S \ {x})
  BY <1>1, SumPick
<1>6. f[x] \in Int
  BY DEF Summable
<1>. QED  BY <1>3, <1>4, <1>5, <1>6

(* A sum of naturals is one, and a part of it is no larger. *)
LEMMA SumNat ==
  ASSUME NEW S, NEW f, IsFiniteSet(S), \A x \in S : f[x] \in Nat
  PROVE  SumFunctionOnSet(f, S) \in Nat
<1>. DEFINE Is(X) == SumFunctionOnSet(f, X) \in Nat
            Bad == {n \in Nat : \E X \in SUBSET S : Cardinality(X) = n /\ ~Is(X)}
<1>1. SUFFICES Bad = {}
  <2>1. S \in SUBSET S /\ Cardinality(S) \in Nat
    BY FS_CardinalityType
  <2>. HIDE DEF Is
  <2>2. Is(S)
    BY <1>1, <2>1
  <2>. QED  BY <2>2 DEF Is
<1>2. SUFFICES ASSUME Bad # {} PROVE FALSE
  OBVIOUS
<1>3. PICK n \in Bad : \A k \in Bad : n <= k
  <2>1. Bad \subseteq Nat
    OBVIOUS
  <2>. QED  BY <1>2, <2>1, LeastNatural
<1>4. PICK X \in SUBSET S : Cardinality(X) = n /\ ~Is(X)
  OBVIOUS
<1>5. IsFiniteSet(X) /\ Summable(f, X)
  <2>1. IsFiniteSet(X)
    BY FS_Subset
  <2>. QED  BY <2>1 DEF Summable
<1>6. X # {}
  BY <1>4, <1>5, SumPick
<1>7. PICK y \in X : TRUE
  BY <1>6
<1>. DEFINE Y == X \ {y}
<1>8. Cardinality(Y) = n - 1 /\ Y \in SUBSET S /\ Cardinality(Y) \in Nat
  BY <1>4, <1>5, <1>7, FS_RemoveElement, FS_CardinalityType
<1>9. Is(Y)
  <2>. HIDE DEF Is, Y
  <2>1. n - 1 \in Nat /\ ~(n <= n - 1)
    BY <1>8
  <2>2. ~(n - 1 \in Bad)
    BY <1>3, <2>1
  <2>. QED  BY <1>8, <2>1, <2>2
<1>10. SumFunctionOnSet(f, X) = f[y] + SumFunctionOnSet(f, Y)
  BY <1>5, <1>7, SumPick
<1>11. f[y] \in Nat
  BY <1>7
<1>12. Is(X)
  <2>. HIDE DEF Y
  <2>. QED  BY <1>9, <1>10, <1>11
<1>. HIDE DEF Is
<1>. QED  BY <1>4, <1>12

LEMMA SumPart ==
  ASSUME NEW S, NEW T, NEW f, IsFiniteSet(S), T \subseteq S, \A x \in S : f[x] \in Nat
  PROVE  SumFunctionOnSet(f, T) <= SumFunctionOnSet(f, S)
<1>. DEFINE a == [x \in S |-> IF x \in T THEN f[x] ELSE 0]
            b == [x \in S |-> IF x \in T THEN 0 ELSE f[x]]
<1>. DEFINE Is(X) == SumFunctionOnSet(a, X \cup T) = SumFunctionOnSet(a, T)
            Bad == {n \in Nat : \E X \in SUBSET S : Cardinality(X) = n /\ ~Is(X)}
<1>0. /\ \A x \in S : a[x] \in Nat /\ b[x] \in Nat /\ f[x] = a[x] + b[x]
      /\ \A x \in T : a[x] = f[x]
      /\ \A x \in S : x \notin T => a[x] = 0
  OBVIOUS
<1>. HIDE DEF a, b
<1>1. Is(S)
  <2>1. SUFFICES Bad = {}
    <3>1. S \in SUBSET S /\ Cardinality(S) \in Nat
      BY FS_CardinalityType
    <3>. HIDE DEF Is
    <3>. QED  BY <2>1, <3>1
  <2>2. SUFFICES ASSUME Bad # {} PROVE FALSE
    OBVIOUS
  <2>3. PICK n \in Bad : \A k \in Bad : n <= k
    <3>1. Bad \subseteq Nat
      OBVIOUS
    <3>. QED  BY <2>2, <3>1, LeastNatural
  <2>4. PICK X \in SUBSET S : Cardinality(X) = n /\ ~Is(X)
    OBVIOUS
  <2>5. IsFiniteSet(X)
    BY FS_Subset
  <2>6. X # {}
    <3>1. X = {} => X \cup T = T
      OBVIOUS
    <3>. QED  BY <2>4, <3>1
  <2>7. PICK y \in X : TRUE
    BY <2>6
  <2>. DEFINE Y == X \ {y}
  <2>8. Cardinality(Y) = n - 1 /\ Y \in SUBSET S /\ Cardinality(Y) \in Nat
    BY <2>4, <2>5, <2>7, FS_RemoveElement, FS_CardinalityType
  <2>9. Is(Y)
    <3>. HIDE DEF Is, Y
    <3>1. n - 1 \in Nat /\ ~(n <= n - 1)
      BY <2>8
    <3>2. ~(n - 1 \in Bad)
      BY <2>3, <3>1
    <3>. QED  BY <2>8, <3>1, <3>2
  <2>10. CASE y \in T
    <3>1. X \cup T = Y \cup T
      BY <2>7, <2>10
    <3>. QED  BY <2>4, <2>9, <3>1
  <2>11. CASE y \notin T
    <3>1. X \cup T = (Y \cup T) \cup {y} /\ y \notin Y \cup T /\ a[y] = 0 /\ Y \cup T \subseteq S
      BY <2>7, <2>11, <1>0
    <3>2. Summable(a, Y \cup T)
      <4>1. IsFiniteSet(Y \cup T)
        BY <3>1, FS_Subset
      <4>. QED  BY <4>1, <3>1, <1>0 DEF Summable
    <3>. HIDE DEF Y
    <3>3. SumFunctionOnSet(a, (Y \cup T) \cup {y}) = SumFunctionOnSet(a, Y \cup T) + a[y]
      BY <3>1, <3>2, SumAdd
    <3>. DEFINE u == SumFunctionOnSet(a, Y \cup T)
                v == SumFunctionOnSet(a, X \cup T)
    <3>4. u \in Int /\ v = u + a[y] /\ a[y] = 0
      BY <3>1, <3>2, <3>3, SumPick
    <3>. HIDE DEF u, v
    <3>5. u = v
      BY <3>4
    <3>. QED  BY <2>4, <2>9, <3>5 DEF u, v
  <2>. QED  BY <2>10, <2>11
<1>2. Summable(a, S) /\ Summable(b, S) /\ Summable(f, T)
  <2>1. IsFiniteSet(T)
    BY FS_Subset
  <2>. QED  BY <2>1, <1>0 DEF Summable
<1>3. SumFunctionOnSet(f, S) = SumFunctionOnSet(a, S) + SumFunctionOnSet(b, S)
  BY <1>0, <1>2, SumPlus
<1>4. SumFunctionOnSet(a, T) = SumFunctionOnSet(f, T)
  BY <1>0, <1>2, SumSame
<1>5. SumFunctionOnSet(a, S) = SumFunctionOnSet(a, T)
  <2>1. S \cup T = S
    OBVIOUS
  <2>. QED  BY <1>1, <2>1
<1>6. SumFunctionOnSet(b, S) \in Nat
  BY <1>0, SumNat
<1>7. SumFunctionOnSet(a, S) \in Int
  BY <1>2, SumPick
<1>. QED  BY <1>3, <1>4, <1>5, <1>6, <1>7

LEMMA SumHundred ==
  ASSUME NEW S, NEW f, NEW a, Summable(a, S), \A x \in S : f[x] = 100 * a[x]
  PROVE  SumFunctionOnSet(f, S) = 100 * SumFunctionOnSet(a, S)
<1>. DEFINE Is(X) == SumFunctionOnSet(f, X) = 100 * SumFunctionOnSet(a, X)
            Bad == {n \in Nat : \E X \in SUBSET S : Cardinality(X) = n /\ ~Is(X)}
<1>1. SUFFICES Bad = {}
  <2>1. S \in SUBSET S /\ Cardinality(S) \in Nat
    BY FS_CardinalityType DEF Summable
  <2>. HIDE DEF Is
  <2>2. Is(S)
    BY <1>1, <2>1
  <2>. QED  BY <2>2 DEF Is
<1>2. SUFFICES ASSUME Bad # {} PROVE FALSE
  OBVIOUS
<1>3. PICK n \in Bad : \A k \in Bad : n <= k
  <2>1. Bad \subseteq Nat
    OBVIOUS
  <2>. QED  BY <1>2, <2>1, LeastNatural
<1>4. PICK X \in SUBSET S : Cardinality(X) = n /\ ~Is(X)
  OBVIOUS
<1>5. IsFiniteSet(X) /\ Summable(f, X) /\ Summable(a, X)
  <2>1. IsFiniteSet(X)
    BY FS_Subset DEF Summable
  <2>2. \A x \in X : a[x] \in Int /\ f[x] = 100 * a[x]
    BY DEF Summable
  <2>. QED  BY <2>1, <2>2 DEF Summable
<1>6. X # {}
  <2>1. SUFFICES ASSUME X = {} PROVE FALSE
    OBVIOUS
  <2>2. SumFunctionOnSet(f, X) = 0 /\ SumFunctionOnSet(a, X) = 0
    BY <2>1, <1>5, SumPick
  <2>. QED  BY <2>2, <1>4
<1>7. PICK y \in X : TRUE
  BY <1>6
<1>. DEFINE Y == X \ {y}
<1>8. Cardinality(Y) = n - 1 /\ Y \in SUBSET S /\ Cardinality(Y) \in Nat
  BY <1>4, <1>5, <1>7, FS_RemoveElement, FS_CardinalityType
<1>9. Is(Y)
  <2>. HIDE DEF Is, Y
  <2>1. n - 1 \in Nat /\ ~(n <= n - 1)
    BY <1>8
  <2>2. ~(n - 1 \in Bad)
    BY <1>3, <2>1
  <2>. QED  BY <1>8, <2>1, <2>2
<1>10. /\ SumFunctionOnSet(f, X) = f[y] + SumFunctionOnSet(f, Y) /\ SumFunctionOnSet(f, Y) \in Int
       /\ SumFunctionOnSet(a, X) = a[y] + SumFunctionOnSet(a, Y) /\ SumFunctionOnSet(a, Y) \in Int
  BY <1>5, <1>7, SumPick
<1>11. f[y] = 100 * a[y] /\ a[y] \in Int
  BY <1>5, <1>7 DEF Summable
<1>12. Is(X)
  <2>. HIDE DEF Y
  <2>. QED  BY <1>9, <1>10, <1>11
<1>. HIDE DEF Is
<1>. QED  BY <1>4, <1>12
=============================================================================
