------------------------- MODULE TradingBookProofs --------------------------
(***************************************************************************)
(* The engines' books and the accounts, for every finite set of users,     *)
(* markets and orders, every set of engines, every batch size and every    *)
(* number of faults.                                                       *)
(*                                                                         *)
(* The first part shows that FInv is kept: whatever the engines have       *)
(* traded and the service has not staged yet, what is left of an active    *)
(* order is on its engine's book or in the order being matched.  When      *)
(* nothing is in flight that is BookMirrorsLedger.                         *)
(*                                                                         *)
(* The second part shows that AInv is kept: the ledger in memory, the one  *)
(* on disk and the one with the staged events applied all balance.  Every  *)
(* event is a leg, which moves one order, its owner's cash and the owner's *)
(* shares; a reservation, a release and a new engine id are neutral, and   *)
(* the two legs of a fill make up for each other because FInv makes them a *)
(* buy and a sell with room for the trade, within both limits.  That is    *)
(* CashConserved, SharesPaired and NoOverdraft.                            *)
(***************************************************************************)
EXTENDS TradingProofs, TradingFlight

(* What a step of an engine or of the service does to the orders in flight: one
   lemma per kind of step, about any orders L, trades P, matched orders K and
   books B. *)

(* The trades that name an engine id can be summed. *)
LEMMA TradeQtyType ==
  ASSUME NEW P, P \subseteq InFlight, IsFiniteSet(P), NEW m, NEW n
  PROVE  /\ Summable(TradeQty, Naming(P, m, n))
         /\ IsFiniteSet(Naming(P, m, n))
         /\ \A x \in Naming(P, m, n) : TradeQty[x] = x[3].qty /\ TradeQty[x] \in Nat
<1>1. Naming(P, m, n) \subseteq P
  BY DEF Naming
<1>2. IsFiniteSet(Naming(P, m, n))
  BY <1>1, FS_Subset
<1>3. \A x \in InFlight : TradeQty[x] = x[3].qty /\ TradeQty[x] \in Nat
  BY DEF TradeQty, InFlight, Trade
<1>. QED  BY <1>1, <1>2, <1>3 DEF Summable

(* What is owed to an engine id is a number of contracts, none if no trade
   names it, and no less than any trade that does. *)
LEMMA OwedType ==
  ASSUME NEW P, P \subseteq InFlight, IsFiniteSet(P), NEW m, NEW n
  PROVE  /\ Owed(P, m, n) \in Nat
         /\ Naming(P, m, n) = {} => Owed(P, m, n) = 0
         /\ \A x \in Naming(P, m, n) : x[3].qty \in Nat /\ x[3].qty <= Owed(P, m, n)
<1>1. Owed(P, m, n) \in Nat
  BY TradeQtyType, SumNat DEF Owed
<1>2. Naming(P, m, n) = {} => Owed(P, m, n) = 0
  BY TradeQtyType, SumPick DEF Owed
<1>3. ASSUME NEW x \in Naming(P, m, n)
      PROVE  x[3].qty \in Nat /\ x[3].qty <= Owed(P, m, n)
  <2>. DEFINE N == Naming(P, m, n)
              a == SumFunctionOnSet(TradeQty, N \ {x})
              b == SumFunctionOnSet(TradeQty, N)
              q == x[3].qty
  <2>1. b = TradeQty[x] + a
    BY TradeQtyType, SumPick
  <2>2. IsFiniteSet(N \ {x}) /\ \A y \in N \ {x} : TradeQty[y] \in Nat
    BY TradeQtyType, FS_RemoveElement
  <2>3. a \in Nat
    <3>. HIDE DEF N
    <3>. QED  BY <2>2, SumNat
  <2>4. TradeQty[x] = q /\ q \in Nat
    BY TradeQtyType
  <2>5. b = Owed(P, m, n)
    BY DEF Owed
  <2>6. b = q + a
    BY <2>1, <2>4
  <2>. HIDE DEF a, b, q
  <2>7. q \in Nat /\ q <= b
    BY <2>3, <2>4, <2>6
  <2>. QED  BY <2>5, <2>7 DEF q
<1>. QED  BY <1>1, <1>2, <1>3

(* One more trade in flight. *)
LEMMA OwedAdd ==
  ASSUME NEW P, P \subseteq InFlight, IsFiniteSet(P), NEW x \in InFlight, x \notin P,
         NEW m, NEW n
  PROVE  /\ x \in Naming(P \cup {x}, m, n) => Owed(P \cup {x}, m, n) = Owed(P, m, n) + x[3].qty
         /\ x \notin Naming(P \cup {x}, m, n) => Owed(P \cup {x}, m, n) = Owed(P, m, n)
<1>. DEFINE N == Naming(P, m, n)
<1>1. CASE x \in Naming(P \cup {x}, m, n)
  <2>1. Naming(P \cup {x}, m, n) = N \cup {x} /\ x \notin N
    BY <1>1 DEF Naming
  <2>2. TradeQty[x] = x[3].qty /\ x[3].qty \in Int
    BY DEF TradeQty, InFlight, Trade
  <2>3. Summable(TradeQty, N)
    BY TradeQtyType
  <2>. HIDE DEF N
  <2>4. SumFunctionOnSet(TradeQty, N \cup {x}) = SumFunctionOnSet(TradeQty, N) + TradeQty[x]
    BY <2>1, <2>2, <2>3, SumAdd
  <2>5. Owed(P \cup {x}, m, n) = Owed(P, m, n) + TradeQty[x]
    BY <2>1, <2>4 DEF Owed, N
  <2>. QED  BY <1>1, <2>2, <2>5
<1>2. CASE x \notin Naming(P \cup {x}, m, n)
  <2>1. Naming(P \cup {x}, m, n) = N
    BY <1>2 DEF Naming
  <2>. QED  BY <1>2, <2>1 DEF Owed
<1>. QED  BY <1>1, <1>2

(* One trade in flight less. *)
LEMMA OwedRemove ==
  ASSUME NEW P, P \subseteq InFlight, IsFiniteSet(P), NEW x \in P, NEW m, NEW n
  PROVE  /\ x \in Naming(P, m, n) => Owed(P \ {x}, m, n) = Owed(P, m, n) - x[3].qty
         /\ x \notin Naming(P, m, n) => Owed(P \ {x}, m, n) = Owed(P, m, n)
<1>. DEFINE Q == P \ {x}
<1>1. Q \subseteq InFlight /\ IsFiniteSet(Q) /\ x \notin Q /\ Q \cup {x} = P /\ x \in InFlight
  BY FS_RemoveElement
<1>. HIDE DEF Q
<1>2. /\ x \in Naming(P, m, n) => Owed(P, m, n) = Owed(Q, m, n) + x[3].qty
      /\ x \notin Naming(P, m, n) => Owed(P, m, n) = Owed(Q, m, n)
  BY <1>1, OwedAdd
<1>3. Owed(Q, m, n) \in Nat /\ x[3].qty \in Nat
  BY <1>1, OwedType DEF InFlight, Trade
<1>4. x \in Naming(P, m, n) => Owed(Q, m, n) = Owed(P, m, n) - x[3].qty
  <2>. DEFINE a == Owed(P, m, n) b == Owed(Q, m, n) q == x[3].qty
  <2>1. SUFFICES ASSUME x \in Naming(P, m, n) PROVE b = a - q
    OBVIOUS
  <2>2. a = b + q /\ b \in Nat /\ q \in Nat
    BY <1>2, <1>3, <2>1
  <2>. HIDE DEF a, b, q
  <2>. QED  BY <2>2
<1>. QED  BY <1>2, <1>4 DEF Q

(* Fewer trades in flight take no more. *)
LEMMA OwedPart ==
  ASSUME NEW P, P \subseteq InFlight, IsFiniteSet(P), NEW Q, Q \subseteq P, NEW m, NEW n
  PROVE  Owed(Q, m, n) <= Owed(P, m, n)
<1>1. Naming(Q, m, n) \subseteq Naming(P, m, n)
  BY DEF Naming
<1>. QED  BY <1>1, TradeQtyType, SumPart DEF Owed

LEMMA LeftType ==
  ASSUME NEW L, NEW P, FlightType(L, P), NEW id \in DOMAIN L
  PROVE  /\ L[id] \in EngineOrder /\ id \in OrderIds
         /\ Left(L, P, id) \in Int
         /\ Owed(P, L[id].market, L[id].eid) \in Nat
         /\ Left(L, P, id) = L[id].open - Owed(P, L[id].market, L[id].eid)
<1>1. L[id] \in EngineOrder /\ id \in OrderIds
  BY DEF FlightType
<1>2. Owed(P, L[id].market, L[id].eid) \in Nat
  BY OwedType DEF FlightType
<1>3. L[id].open \in Nat
  BY <1>1 DEF EngineOrder
<1>4. Left(L, P, id) = L[id].open - Owed(P, L[id].market, L[id].eid)
  BY DEF Left
<1>. DEFINE a == L[id].open  b == Owed(P, L[id].market, L[id].eid)  l == Left(L, P, id)
<1>5. a \in Nat /\ b \in Nat /\ l = a - b
  BY <1>2, <1>3, <1>4
<1>6. l \in Int
  <2>. HIDE DEF a, b, l
  <2>. QED  BY <1>5
<1>. QED  BY <1>1, <1>2, <1>4, <1>6

(* An order has the same rest in two pictures of the flight. *)
SameRest(L, P, K, L2, P2, K2, id) ==
  /\ Rests(L, P, K, id) /\ Rests(L2, P2, K2, id)
  /\ L2[id].market = L[id].market /\ Rest(L2, P2, id) = Rest(L, P, id)

(* Books that do not change stay explained if the rests do not change. *)
LEMMA BooksFollow ==
  ASSUME NEW L, NEW P, NEW K, NEW S, NEW B, NEW L2, NEW P2, NEW K2, NEW S2, NEW B2,
         BookBacked(L, P, K, S, B), BookComplete(L, P, K, S, B),
         S2 \subseteq S, \A m \in S2 : B2[m] = B[m],
         \A id \in OrderIds : Rests(L, P, K, id) /\ L[id].market \in S2 =>
           SameRest(L, P, K, L2, P2, K2, id),
         \A id \in OrderIds : Rests(L2, P2, K2, id) /\ L2[id].market \in S2 =>
           SameRest(L, P, K, L2, P2, K2, id)
  PROVE  BookBacked(L2, P2, K2, S2, B2) /\ BookComplete(L2, P2, K2, S2, B2)
<1>1. ASSUME NEW m \in S2, NEW o \in B2[m]
      PROVE  \E id \in OrderIds : Rests(L2, P2, K2, id) /\ L2[id].market = m /\ o = Rest(L2, P2, id)
  <2>1. o \in B[m] /\ m \in S
    OBVIOUS
  <2>2. PICK id \in OrderIds : Rests(L, P, K, id) /\ L[id].market = m /\ o = Rest(L, P, id)
    BY <2>1, Zenon DEF BookBacked
  <2>3. SameRest(L, P, K, L2, P2, K2, id)
    BY <2>2
  <2>. QED  BY <2>2, <2>3 DEF SameRest
<1>2. ASSUME NEW id \in OrderIds, Rests(L2, P2, K2, id), L2[id].market \in S2
      PROVE  Rest(L2, P2, id) \in B2[L2[id].market]
  <2>1. SameRest(L, P, K, L2, P2, K2, id)
    BY <1>2
  <2>2. Rest(L, P, id) \in B[L[id].market]
    BY <1>2, <2>1 DEF SameRest, BookComplete
  <2>. QED  BY <1>2, <2>1, <2>2 DEF SameRest
<1>. QED  BY <1>1, <1>2, Zenon DEF BookBacked, BookComplete

(* The identity of an order in its engine. *)
SameIdentity(L, L2, id) ==
  L2[id].market = L[id].market /\ L2[id].side = L[id].side /\ L2[id].price = L[id].price
  /\ L2[id].eid = L[id].eid

LEMMA IdentitySame ==
  ASSUME NEW L, NEW P, NEW K, NEW L2, NEW P2, NEW K2, NEW id,
         id \in DOMAIN L <=> id \in DOMAIN L2, SameIdentity(L, L2, id),
         Left(L2, P2, id) = Left(L, P, id), id \in K <=> id \in K2
  PROVE  Rests(L, P, K, id) \/ Rests(L2, P2, K2, id) => SameRest(L, P, K, L2, P2, K2, id)
BY DEF SameIdentity, SameRest, Rests, Rest

(* A trade of known orders stays sound. *)
LEMMA SoundFollows ==
  ASSUME NEW L, NEW L2, NEW x, TradeSound(L, x), DOMAIN L \subseteq OrderIds,
         \A id \in DOMAIN L : L[id].market = x[1] /\ L[id].eid \in {x[3].buy, x[3].sell} =>
           id \in DOMAIN L2 /\ SameIdentity(L, L2, id)
  PROVE  TradeSound(L2, x)
<1>1. PICK b \in OrderIds, s \in OrderIds :
        /\ Names(L, b, x[1], x[3].buy, "buy") /\ Names(L, s, x[1], x[3].sell, "sell")
        /\ L[s].price <= x[3].price /\ x[3].price <= L[b].price
  BY DEF TradeSound
<1>2. b \in DOMAIN L2 /\ SameIdentity(L, L2, b) /\ s \in DOMAIN L2 /\ SameIdentity(L, L2, s)
  BY <1>1 DEF Names
<1>3. /\ Names(L2, b, x[1], x[3].buy, "buy") /\ Names(L2, s, x[1], x[3].sell, "sell")
      /\ L2[s].price <= x[3].price /\ x[3].price <= L2[b].price
  BY <1>1, <1>2 DEF Names, SameIdentity
<1>. QED  BY <1>3 DEF TradeSound

(* A fill is staged: it leaves the flight, and its two orders have so much less
   to trade. *)
FilledBy(L, L2, x, b, s) ==
  /\ \A id \in DOMAIN L : SameIdentity(L, L2, id)
  /\ \A id \in DOMAIN L : L2[id].open = IF id \in {b, s} THEN L[id].open - x[3].qty
                                         ELSE L[id].open

LEMMA FlightFill ==
  ASSUME NEW L, NEW P, NEW K, NEW S, NEW B, Flight(L, P, K, S, B), OwnIds(L),
         NEW x \in P, NEW b \in OrderIds, NEW s \in OrderIds,
         Names(L, b, x[1], x[3].buy, "buy"), Names(L, s, x[1], x[3].sell, "sell"),
         NEW L2, DOMAIN L2 = DOMAIN L, L2 \in [DOMAIN L2 -> EngineOrder],
         FilledBy(L, L2, x, b, s), NEW Q, Q = P \ {x}
  PROVE  Flight(L2, Q, K, S, B)
<1>a. /\ \A id \in DOMAIN L : SameIdentity(L, L2, id)
      /\ \A id \in DOMAIN L : L2[id].open = IF id \in {b, s} THEN L[id].open - x[3].qty
                                            ELSE L[id].open
  BY DEF FilledBy
<1>. USE <1>a
<1>1. FlightType(L, P) /\ P \subseteq InFlight /\ IsFiniteSet(P) /\ TradeSound(L, x)
  BY DEF Flight, FlightType
<1>2. FlightType(L2, Q)
  <2>1. IsFiniteSet(Q)
    BY <1>1, FS_RemoveElement
  <2>. QED  BY <1>1, <2>1 DEF FlightType
<1>3. ASSUME NEW id \in DOMAIN L
      PROVE  id \in {b, s} <=> x \in Naming(P, L[id].market, L[id].eid)
  <2>1. x[3].buy # 0 /\ x[3].sell # 0
    BY <1>1 DEF TradeSound
  <2>2. x \in Naming(P, L[id].market, L[id].eid) <=>
          x[1] = L[id].market /\ (L[id].eid = x[3].buy \/ L[id].eid = x[3].sell)
    BY DEF Naming
  <2>3. b \in DOMAIN L /\ s \in DOMAIN L
    BY DEF Names
  <2>. QED  BY <2>1, <2>2, <2>3 DEF Names, OwnIds
<1>4. ASSUME NEW id \in DOMAIN L
      PROVE  Left(L2, Q, id) = Left(L, P, id)
  <2>. DEFINE m == L[id].market  n == L[id].eid
              a == Owed(P, m, n)  c == Owed(Q, m, n)
              q == x[3].qty  l == L[id].open
  <2>1. a \in Nat /\ c \in Nat /\ q \in Nat /\ l \in Nat
    <3>1. Q \subseteq InFlight /\ IsFiniteSet(Q)
      BY <1>2 DEF FlightType
    <3>. QED  BY <1>1, <3>1, LeftType, OwedType DEF InFlight, Trade, EngineOrder
  <2>2. c = IF id \in {b, s} THEN a - q ELSE a
    BY <1>1, <1>3, OwedRemove
  <2>3. L2[id].market = m /\ L2[id].eid = n /\ L2[id].open = IF id \in {b, s} THEN l - q ELSE l
    BY DEF SameIdentity
  <2>4. Left(L2, Q, id) = L2[id].open - c /\ Left(L, P, id) = l - a
    BY <2>3 DEF Left
  <2>. HIDE DEF a, c, q, l, m, n
  <2>. QED  BY <2>1, <2>2, <2>3, <2>4
<1>5. \A y \in Q : TradeSound(L2, y)
  <2>1. \A y \in Q : TradeSound(L, y)
    BY DEF Flight
  <2>. QED  BY <1>1, <2>1, SoundFollows DEF FlightType
<1>6. NoOverfill(L2, Q)
  BY <1>4 DEF Flight, NoOverfill
<1>7. BookBacked(L2, Q, K, S, B) /\ BookComplete(L2, Q, K, S, B)
  <2>1. ASSUME NEW id \in OrderIds, Rests(L, P, K, id) \/ Rests(L2, Q, K, id)
        PROVE  SameRest(L, P, K, L2, Q, K, id)
    <3>1. id \in DOMAIN L
      BY <2>1 DEF Rests
    <3>. QED  BY <1>4, <2>1, <3>1, IdentitySame
  <2>. QED  BY <2>1, BooksFollow DEF Flight
<1>. QED  BY <1>2, <1>4, <1>5, <1>6, <1>7 DEF Flight

(* Trade x of q of order tk with resting order mo. *)
CanMatch(L, P, m, tk, mo, q) ==
  /\ L[tk].market = m /\ L[tk].eid # 0
  /\ mo.side # L[tk].side /\ Crosses(L[tk].side, L[tk].price, mo)
  /\ q = Least(Left(L, P, tk), mo.qty) /\ Left(L, P, tk) > 0

TradeOf(L, m, tk, mo, q, x) ==
  /\ x[1] = m /\ x[3].qty = q /\ x[3].price = mo.price
  /\ IF L[tk].side = "buy" THEN x[3].buy = L[tk].eid /\ x[3].sell = mo.eid
                           ELSE x[3].buy = mo.eid /\ x[3].sell = L[tk].eid

BooksTaken(S, B, B2, m, mo, q) ==
  \A n \in S : B2[n] = IF n = m THEN Take(B[m], mo, q) ELSE B[n]

LeftDrops(L, P, Q, tk, q) == Left(L, Q, tk) = Left(L, P, tk) - q

OthersLeft(L, P, Q, K, tk) ==
  \A id \in K \ {tk} : id \in DOMAIN L => Left(L, Q, id) = Left(L, P, id)

(* Another trade of the order being matched. *)
LEMMA FlightMatch ==
  ASSUME NEW L, NEW P, NEW K, NEW S, NEW B, Flight(L, P, K, S, B), OwnIds(L),
         NEW m \in S, NEW tk \in DOMAIN L, tk \in K, NEW mo \in B[m], NEW q,
         CanMatch(L, P, m, tk, mo, q), NEW x \in InFlight, x \notin P,
         TradeOf(L, m, tk, mo, q, x), NEW B2, BooksTaken(S, B, B2, m, mo, q),
         NEW Q, Q = P \cup {x}
  PROVE  /\ Flight(L, Q, K, S, B2) /\ LeftDrops(L, P, Q, tk, q)
         /\ OthersLeft(L, P, Q, K, tk) /\ q \in Nat /\ q > 0
<1>a. /\ L[tk].market = m /\ L[tk].eid # 0
      /\ mo.side # L[tk].side /\ Crosses(L[tk].side, L[tk].price, mo)
      /\ q = Least(Left(L, P, tk), mo.qty) /\ Left(L, P, tk) > 0
  BY DEF CanMatch
<1>b. /\ x[1] = m /\ x[3].qty = q /\ x[3].price = mo.price
      /\ IF L[tk].side = "buy" THEN x[3].buy = L[tk].eid /\ x[3].sell = mo.eid
                               ELSE x[3].buy = mo.eid /\ x[3].sell = L[tk].eid
  BY DEF TradeOf
<1>c. \A n \in S : B2[n] = IF n = m THEN Take(B[m], mo, q) ELSE B[n]
  BY DEF BooksTaken
<1>. USE <1>a, <1>b, <1>c
<1>1. FlightType(L, P) /\ P \subseteq InFlight /\ IsFiniteSet(P)
  BY DEF Flight, FlightType
<1>2. PICK mk \in OrderIds : Rests(L, P, K, mk) /\ L[mk].market = m /\ mo = Rest(L, P, mk)
  BY Zenon DEF Flight, BookBacked
<1>3. /\ mk \in DOMAIN L /\ mk \notin K /\ mk # tk /\ L[mk].eid # 0
      /\ mo.eid = L[mk].eid /\ mo.side = L[mk].side /\ mo.price = L[mk].price
      /\ mo.qty = Left(L, P, mk) /\ mo.qty > 0
  BY <1>2 DEF Rests, Rest
<1>4. /\ L[mk] \in EngineOrder /\ L[tk] \in EngineOrder
      /\ Left(L, P, mk) \in Int /\ Left(L, P, tk) \in Int
  BY <1>1, <1>3, LeftType
<1>5. q \in Nat /\ q > 0 /\ q <= mo.qty /\ q <= Left(L, P, tk) /\ mo.qty \in Int
  <2>. DEFINE a == Left(L, P, tk)  b == mo.qty
  <2>1. a \in Int /\ b \in Int /\ a > 0 /\ b > 0
    BY <1>3, <1>4
  <2>. HIDE DEF a, b
  <2>2. Least(a, b) \in Nat /\ Least(a, b) > 0 /\ Least(a, b) <= a /\ Least(a, b) <= b
    BY <2>1 DEF Least
  <2>. QED  BY <2>1, <2>2 DEF a, b
<1>6. FlightType(L, Q)
  <2>1. IsFiniteSet(Q)
    BY <1>1, FS_AddElement
  <2>. QED  BY <1>1, <2>1 DEF FlightType
<1>7. ASSUME NEW id \in DOMAIN L
      PROVE  id \in {tk, mk} <=> x \in Naming(Q, L[id].market, L[id].eid)
  <2>1. x \in Naming(Q, L[id].market, L[id].eid) <=>
          m = L[id].market /\ (L[id].eid = L[tk].eid \/ L[id].eid = L[mk].eid)
    BY <1>3 DEF Naming
  <2>. QED  BY <2>1, <1>2, <1>3 DEF OwnIds
<1>8. ASSUME NEW id \in DOMAIN L
      PROVE  /\ Left(L, Q, id) = IF id \in {tk, mk} THEN Left(L, P, id) - q ELSE Left(L, P, id)
             /\ Left(L, P, id) \in Int
  <2>. DEFINE n == L[id].market  e == L[id].eid
              a == Owed(P, n, e)  c == Owed(Q, n, e)  l == L[id].open
  <2>1. a \in Nat /\ c \in Nat /\ l \in Nat
    BY <1>1, <1>6, LeftType DEF EngineOrder
  <2>2. c = IF id \in {tk, mk} THEN a + q ELSE a
    <3>1. /\ x \in Naming(Q, n, e) => c = a + x[3].qty
          /\ x \notin Naming(Q, n, e) => c = a
      BY <1>1, OwedAdd
    <3>2. id \in {tk, mk} <=> x \in Naming(Q, n, e)
      BY <1>7
    <3>. HIDE DEF a, c, l, n, e
    <3>. QED  BY <3>1, <3>2
  <2>3. Left(L, Q, id) = l - c /\ Left(L, P, id) = l - a
    BY DEF Left
  <2>. HIDE DEF a, c, l, n, e
  <2>. QED  BY <2>1, <2>2, <2>3, <1>5
<1>9. \A y \in Q : TradeSound(L, y)
  <2>1. TradeSound(L, x)
    <3>. DEFINE b == IF L[tk].side = "buy" THEN tk ELSE mk
                s == IF L[tk].side = "buy" THEN mk ELSE tk
    <3>1. L[tk].side \in {"buy", "sell"} /\ L[mk].side \in {"buy", "sell"}
      BY <1>4 DEF EngineOrder, EngineSides
    <3>2. tk \in OrderIds
      BY <1>1 DEF FlightType
    <3>3. Names(L, b, m, x[3].buy, "buy") /\ Names(L, s, m, x[3].sell, "sell")
      BY <1>2, <1>3, <3>1 DEF Names
    <3>4. L[s].price <= mo.price /\ mo.price <= L[b].price
      <4>1. L[tk].price \in Nat /\ mo.price \in Nat
        BY <1>3, <1>4 DEF EngineOrder
      <4>2. CASE L[tk].side = "buy"
        BY <1>3, <4>1, <4>2 DEF Crosses
      <4>3. CASE L[tk].side # "buy"
        BY <1>3, <4>1, <4>3 DEF Crosses
      <4>. QED  BY <4>2, <4>3
    <3>5. b \in OrderIds /\ s \in OrderIds
      BY <3>2
    <3>6. x[3].buy # 0 /\ x[3].sell # 0
      BY <1>3
    <3>. HIDE DEF b, s
    <3>. QED  BY <3>3, <3>4, <3>5, <3>6, <1>5 DEF TradeSound
  <2>. QED  BY <2>1 DEF Flight
<1>10. NoOverfill(L, Q)
  <2>1. ASSUME NEW id \in DOMAIN L PROVE Left(L, Q, id) >= 0
    <3>1. Left(L, P, id) >= 0
      BY DEF Flight, NoOverfill
    <3>2. q <= Left(L, P, tk) /\ q <= Left(L, P, mk)
      BY <1>3, <1>5
    <3>. DEFINE a == Left(L, P, id)  c == Left(L, Q, id)
    <3>3. a \in Int /\ a >= 0 /\ (id \in {tk, mk} => q <= a)
      BY <1>8, <3>1, <3>2
    <3>4. c = IF id \in {tk, mk} THEN a - q ELSE a
      BY <1>8
    <3>. HIDE DEF a, c
    <3>5. c >= 0
      BY <1>5, <3>3, <3>4
    <3>. QED  BY <3>5 DEF c
  <2>. QED  BY <2>1 DEF NoOverfill
<1>. DEFINE rest == [mo EXCEPT !.qty = @ - q]
<1>11. mo.qty # q => Rests(L, Q, K, mk) /\ Rest(L, Q, mk) = rest /\ rest \in Take(B[m], mo, q)
  <2>1. SUFFICES ASSUME mo.qty # q
                 PROVE  Rests(L, Q, K, mk) /\ Rest(L, Q, mk) = rest /\ rest \in Take(B[m], mo, q)
    OBVIOUS
  <2>2. Left(L, Q, mk) = mo.qty - q
    BY <1>3, <1>8
  <2>3. mo.qty - q > 0
    BY <1>5, <2>1
  <2>4. Rests(L, Q, K, mk)
    BY <1>3, <2>2, <2>3 DEF Rests
  <2>5. Rest(L, Q, mk) = rest
    <3>. DEFINE r == mo.qty - q
    <3>1. rest = [mo EXCEPT !.qty = r]
      OBVIOUS
    <3>2. mo = [eid |-> L[mk].eid, side |-> L[mk].side, price |-> L[mk].price,
                qty |-> Left(L, P, mk)]
      BY <1>2 DEF Rest
    <3>3. Rest(L, Q, mk) = [eid |-> L[mk].eid, side |-> L[mk].side, price |-> L[mk].price, qty |-> r]
      BY <2>2 DEF Rest
    <3>. HIDE DEF r, rest
    <3>. QED  BY <3>1, <3>2, <3>3
  <2>6. rest \in Take(B[m], mo, q)
    BY <2>1 DEF Take
  <2>. QED  BY <2>4, <2>5, <2>6
<1>12. ASSUME NEW id \in OrderIds, id # mk, Rests(L, P, K, id) \/ Rests(L, Q, K, id)
       PROVE  SameRest(L, P, K, L, Q, K, id)
  <2>1. id \in DOMAIN L /\ id \notin K
    BY <1>12 DEF Rests
  <2>2. Left(L, Q, id) = Left(L, P, id)
    BY <1>8, <1>12, <2>1
  <2>. QED  BY <1>12, <2>1, <2>2 DEF SameRest, Rests, Rest
<1>13. BookBacked(L, Q, K, S, B2)
  <2>1. ASSUME NEW n \in S, NEW o \in B2[n]
        PROVE  \E id \in OrderIds : Rests(L, Q, K, id) /\ L[id].market = n /\ o = Rest(L, Q, id)
    <3>1. CASE o \in B[n] /\ ~(n = m /\ o = mo)
      <4>1. PICK id \in OrderIds : Rests(L, P, K, id) /\ L[id].market = n /\ o = Rest(L, P, id)
        BY <3>1, Zenon DEF Flight, BookBacked
      <4>2. id # mk
        BY <1>2, <3>1, <4>1
      <4>3. SameRest(L, P, K, L, Q, K, id)
        BY <1>12, <4>1, <4>2
      <4>. QED  BY <4>1, <4>3 DEF SameRest
    <3>2. CASE n = m /\ mo.qty # q /\ o = rest
      BY <1>2, <1>11, <3>2
    <3>3. \/ o \in B[n] /\ ~(n = m /\ o = mo)
          \/ n = m /\ mo.qty # q /\ o = rest
      <4>1. CASE n # m
        BY <4>1
      <4>2. CASE n = m
        <5>1. o \in Take(B[m], mo, q)
          BY <4>2
        <5>. QED  BY <4>2, <5>1 DEF Take
      <4>. QED  BY <4>1, <4>2
    <3>. QED  BY <3>1, <3>2, <3>3
  <2>. QED  BY <2>1, Zenon DEF BookBacked
<1>14. BookComplete(L, Q, K, S, B2)
  <2>1. ASSUME NEW id \in OrderIds, Rests(L, Q, K, id), L[id].market \in S
        PROVE  Rest(L, Q, id) \in B2[L[id].market]
    <3>1. CASE id = mk
      <4>1. mo.qty # q
        <5>1. Left(L, Q, mk) > 0 /\ Left(L, Q, mk) = mo.qty - q
          BY <1>3, <1>8, <2>1, <3>1 DEF Rests
        <5>. QED  BY <5>1, <1>5
      <4>. QED  BY <1>2, <1>11, <3>1, <4>1
    <3>2. CASE id # mk
      <4>1. SameRest(L, P, K, L, Q, K, id)
        BY <1>12, <2>1, <3>2
      <4>2. Rest(L, P, id) \in B[L[id].market]
        BY <4>1, <2>1 DEF SameRest, Flight, BookComplete
      <4>3. L[id].market = m => Rest(L, P, id) # mo
        <5>1. id \in DOMAIN L
          BY <2>1 DEF Rests
        <5>2. Rest(L, P, id).eid = L[id].eid
          BY DEF Rest
        <5>. QED  BY <1>2, <1>3, <3>2, <5>1, <5>2 DEF OwnIds
      <4>4. Rest(L, P, id) \in B2[L[id].market]
        BY <2>1, <4>2, <4>3 DEF Take
      <4>. QED  BY <4>1, <4>4 DEF SameRest
    <3>. QED  BY <3>1, <3>2
  <2>. QED  BY <2>1, Zenon DEF BookComplete
<1>15. Flight(L, Q, K, S, B2)
  BY <1>6, <1>9, <1>10, <1>13, <1>14 DEF Flight
<1>. QED  BY <1>3, <1>5, <1>8, <1>15 DEF LeftDrops, OthersLeft

(* The order being matched comes to rest. *)
BooksRest(L, P, S, B, B2, tk) ==
  \A n \in S : B2[n] = IF n = L[tk].market /\ Left(L, P, tk) > 0
                       THEN B[n] \cup {Rest(L, P, tk)} ELSE B[n]

LEMMA FlightFinish ==
  ASSUME NEW L, NEW P, NEW K, NEW S, NEW B, Flight(L, P, K, S, B),
         NEW tk \in DOMAIN L, tk \in K, L[tk].eid # 0,
         NEW B2, BooksRest(L, P, S, B, B2, tk), NEW J, J = K \ {tk}
  PROVE  Flight(L, P, J, S, B2)
<1>a. \A n \in S : B2[n] = IF n = L[tk].market /\ Left(L, P, tk) > 0
                           THEN B[n] \cup {Rest(L, P, tk)} ELSE B[n]
  BY DEF BooksRest
<1>. USE <1>a
<1>1. tk \in OrderIds
  BY DEF Flight, FlightType
<1>2. \A id \in OrderIds : id # tk => (Rests(L, P, J, id) <=> Rests(L, P, K, id))
  BY DEF Rests
<1>3. Rests(L, P, J, tk) <=> Left(L, P, tk) > 0
  BY DEF Rests
<1>4. ~Rests(L, P, K, tk)
  BY DEF Rests
<1>5. BookBacked(L, P, J, S, B2)
  <2>1. ASSUME NEW n \in S, NEW o \in B2[n]
        PROVE  \E id \in OrderIds : Rests(L, P, J, id) /\ L[id].market = n /\ o = Rest(L, P, id)
    <3>1. CASE o \in B[n]
      <4>1. PICK id \in OrderIds : Rests(L, P, K, id) /\ L[id].market = n /\ o = Rest(L, P, id)
        BY <3>1, Zenon DEF Flight, BookBacked
      <4>. QED  BY <1>2, <1>4, <4>1
    <3>2. CASE o \notin B[n]
      BY <1>1, <1>3, <3>2
    <3>. QED  BY <3>1, <3>2
  <2>. QED  BY <2>1, Zenon DEF BookBacked
<1>6. BookComplete(L, P, J, S, B2)
  <2>1. ASSUME NEW id \in OrderIds, Rests(L, P, J, id), L[id].market \in S
        PROVE  Rest(L, P, id) \in B2[L[id].market]
    <3>1. CASE id = tk
      BY <1>3, <2>1, <3>1
    <3>2. CASE id # tk
      <4>1. Rest(L, P, id) \in B[L[id].market]
        BY <1>2, <2>1, <3>2 DEF Flight, BookComplete
      <4>. QED  BY <2>1, <4>1
    <3>. QED  BY <3>1, <3>2
  <2>. QED  BY <2>1, Zenon DEF BookComplete
<1>. QED  BY <1>5, <1>6 DEF Flight

(* Nobody is owed under id zero or under an id no order has. *)
LEMMA NoneOwed ==
  ASSUME NEW L, NEW P, FlightType(L, P), \A x \in P : TradeSound(L, x), NEW m, NEW n,
         n = 0 \/ \A i \in DOMAIN L : L[i].market = m => L[i].eid # n
  PROVE  Naming(P, m, n) = {} /\ Owed(P, m, n) = 0
<1>1. ASSUME NEW x \in Naming(P, m, n) PROVE FALSE
  <2>1. x \in P /\ x[1] = m /\ (n = x[3].buy \/ n = x[3].sell)
    BY DEF Naming
  <2>2. TradeSound(L, x)
    BY <2>1
  <2>. QED  BY <2>1, <2>2 DEF TradeSound, Names
<1>2. Naming(P, m, n) = {}
  BY <1>1
<1>. QED  BY <1>2, OwedType DEF FlightType

(* An engine takes an order on and gives it a new id. *)
GivenId(L, L2, tk, n) ==
  /\ L2[tk].market = L[tk].market /\ L2[tk].side = L[tk].side /\ L2[tk].price = L[tk].price
  /\ L2[tk].open = L[tk].open /\ L2[tk].eid = n

OthersKeep(L, L2, tk) ==
  DOMAIN L2 = DOMAIN L /\ \A i \in DOMAIN L : i # tk => L2[i] = L[i]

FreeId(L, tk, n) == \A i \in DOMAIN L : L[i].market = L[tk].market => L[i].eid # n

SameLeft(L, L2, P) == \A i \in DOMAIN L : Left(L2, P, i) = Left(L, P, i)

WholeLeft(L, L2, P, tk) == Left(L2, P, tk) = L[tk].open

LEMMA FlightAccept ==
  ASSUME NEW L, NEW P, NEW K, NEW S, NEW B, Flight(L, P, K, S, B),
         NEW tk \in DOMAIN L, L[tk].eid = 0, NEW n \in Nat, n # 0,
         FreeId(L, tk, n), NEW L2, L2 \in [DOMAIN L2 -> EngineOrder], OthersKeep(L, L2, tk),
         GivenId(L, L2, tk, n), NEW J, J = K \cup {tk}
  PROVE  /\ Flight(L2, P, J, S, B)
         /\ SameLeft(L, L2, P)
         /\ WholeLeft(L, L2, P, tk)
<1>0. /\ \A i \in DOMAIN L : L[i].market = L[tk].market => L[i].eid # n
      /\ DOMAIN L2 = DOMAIN L /\ \A i \in DOMAIN L : i # tk => L2[i] = L[i]
  BY DEF FreeId, OthersKeep
<1>1. FlightType(L, P) /\ FlightType(L2, P) /\ \A x \in P : TradeSound(L, x)
  BY <1>0 DEF Flight, FlightType
<1>2. L[tk] \in EngineOrder
  BY <1>0, <1>1, LeftType
<1>3. L2[tk].market = L[tk].market /\ L2[tk].eid = n /\ L2[tk].open = L[tk].open /\ L[tk].open \in Nat
  BY <1>0, <1>2 DEF EngineOrder, GivenId
<1>4. Owed(P, L[tk].market, 0) = 0 /\ Owed(P, L[tk].market, n) = 0
  BY <1>0, <1>1, NoneOwed
<1>5. Left(L, P, tk) = L[tk].open - 0 /\ Left(L2, P, tk) = L[tk].open - 0
  BY <1>0, <1>3, <1>4 DEF Left
<1>6. Left(L, P, tk) = L[tk].open /\ Left(L2, P, tk) = L[tk].open
  <2>. DEFINE a == L[tk].open
  <2>1. a - 0 = a
    <3>1. a \in Nat
      BY <1>0, <1>3
    <3>. HIDE DEF a
    <3>. QED  BY <1>0, <3>1
  <2>. QED  BY <1>0, <1>5, <2>1
<1>7. \A i \in DOMAIN L : Left(L2, P, i) = Left(L, P, i)
  <2>1. \A i \in DOMAIN L : i # tk => Left(L2, P, i) = Left(L, P, i)
    BY <1>0 DEF Left
  <2>. QED  BY <1>0, <1>6, <2>1
<1>8. \A x \in P : TradeSound(L2, x)
  <2>1. ASSUME NEW x \in P PROVE TradeSound(L2, x)
    <3>1. x[3].buy # 0 /\ x[3].sell # 0 /\ TradeSound(L, x)
      BY <1>0, <1>1 DEF TradeSound
    <3>2. \A id \in DOMAIN L : L[id].eid \in {x[3].buy, x[3].sell} =>
            id \in DOMAIN L2 /\ SameIdentity(L, L2, id)
      BY <1>0, <3>1 DEF SameIdentity
    <3>. QED  BY <1>0, <1>1, <3>1, <3>2, SoundFollows DEF FlightType
  <2>. QED  BY <1>0, <2>1
<1>9. NoOverfill(L2, P)
  BY <1>0, <1>7 DEF Flight, NoOverfill
<1>10. BookBacked(L2, P, J, S, B) /\ BookComplete(L2, P, J, S, B)
  <2>1. ASSUME NEW id \in OrderIds, Rests(L, P, K, id) \/ Rests(L2, P, J, id)
        PROVE  SameRest(L, P, K, L2, P, J, id)
    <3>1. id \in DOMAIN L /\ id # tk
      BY <1>0, <2>1 DEF Rests
    <3>2. SameIdentity(L, L2, id) /\ (id \in K <=> id \in J)
      BY <1>0, <3>1 DEF SameIdentity
    <3>. QED  BY <1>0, <1>7, <2>1, <3>1, <3>2, IdentitySame
  <2>. QED  BY <1>0, <2>1, BooksFollow DEF Flight
<1>11. Flight(L2, P, J, S, B)
  BY <1>0, <1>1, <1>8, <1>9, <1>10 DEF Flight
<1>. QED  BY <1>6, <1>7, <1>11 DEF SameLeft, WholeLeft

(* Closed orders leave the picture, new ones enter it without an id, markets
   close and open. *)
RestatesTo(L, L2) ==
  /\ \A id \in DOMAIN L : id \in DOMAIN L2 => L2[id] = L[id]
  /\ \A id \in DOMAIN L : id \notin DOMAIN L2 => L[id].open = 0
  /\ \A id \in DOMAIN L2 : id \notin DOMAIN L => L2[id].eid = 0

BooksRestate(L2, S, B, S2, B2) ==
  \A m \in S2 : \/ m \in S /\ B2[m] = B[m]
                \/ B2[m] = {} /\ \A id \in DOMAIN L2 : L2[id].market = m => L2[id].eid = 0

LEMMA FlightRestate ==
  ASSUME NEW L, NEW P, NEW K, NEW S, NEW B, Flight(L, P, K, S, B),
         NEW L2, DOMAIN L2 \subseteq OrderIds, L2 \in [DOMAIN L2 -> EngineOrder],
         NEW S2, NEW B2, RestatesTo(L, L2), BooksRestate(L2, S, B, S2, B2)
  PROVE  Flight(L2, P, K, S2, B2)
<1>a. /\ \A id \in DOMAIN L : id \in DOMAIN L2 => L2[id] = L[id]
      /\ \A id \in DOMAIN L : id \notin DOMAIN L2 => L[id].open = 0
      /\ \A id \in DOMAIN L2 : id \notin DOMAIN L => L2[id].eid = 0
  BY DEF RestatesTo
<1>b. \A m \in S2 : \/ m \in S /\ B2[m] = B[m]
                    \/ B2[m] = {} /\ \A id \in DOMAIN L2 : L2[id].market = m => L2[id].eid = 0
  BY DEF BooksRestate
<1>. USE <1>a, <1>b
<1>1. /\ FlightType(L, P) /\ P \subseteq InFlight /\ IsFiniteSet(P)
      /\ \A x \in P : TradeSound(L, x) /\ DOMAIN L \subseteq OrderIds
  BY DEF Flight, FlightType
<1>2. FlightType(L2, P)
  BY <1>1 DEF FlightType
<1>3. \A id \in DOMAIN L : id \in DOMAIN L2 => Left(L2, P, id) = Left(L, P, id)
  BY DEF Left
<1>4. ASSUME NEW id \in DOMAIN L, id \notin DOMAIN L2
      PROVE  ~(Left(L, P, id) > 0) /\ Naming(P, L[id].market, L[id].eid) = {}
  <2>. DEFINE m == L[id].market  n == L[id].eid  a == Owed(P, m, n)  l == Left(L, P, id)
  <2>1. a \in Nat /\ l = L[id].open - a /\ L[id].open = 0 /\ l >= 0
    BY <1>1, <1>4, LeftType DEF Flight, NoOverfill
  <2>2. a = 0 /\ ~(l > 0)
    <3>1. l = 0 - a
      BY <2>1
    <3>2. a \in Nat /\ l >= 0
      BY <2>1
    <3>. HIDE DEF a, l, m, n
    <3>. QED  BY <3>1, <3>2
  <2>3. ASSUME NEW x \in Naming(P, m, n) PROVE FALSE
    <3>1. x \in P /\ TradeSound(L, x)
      BY <1>1 DEF Naming
    <3>2. x[3].qty > 0
      BY <3>1 DEF TradeSound
    <3>3. x[3].qty \in Nat /\ x[3].qty <= 0
      BY <1>1, <2>2, OwedType
    <3>. QED  BY <3>2, <3>3
  <2>. QED  BY <2>2, <2>3
<1>5. \A x \in P : TradeSound(L2, x)
  <2>1. ASSUME NEW x \in P PROVE TradeSound(L2, x)
    <3>1. ASSUME NEW id \in DOMAIN L, L[id].market = x[1], L[id].eid \in {x[3].buy, x[3].sell}
          PROVE  id \in DOMAIN L2 /\ SameIdentity(L, L2, id)
      <4>1. x \in Naming(P, L[id].market, L[id].eid)
        BY <3>1 DEF Naming
      <4>. QED  BY <1>4, <4>1 DEF SameIdentity
    <3>. QED  BY <1>1, <3>1, SoundFollows
  <2>. QED  BY <2>1
<1>6. NoOverfill(L2, P)
  <2>1. ASSUME NEW id \in DOMAIN L2 PROVE Left(L2, P, id) >= 0
    <3>1. CASE id \in DOMAIN L
      BY <1>3, <3>1 DEF Flight, NoOverfill
    <3>2. CASE id \notin DOMAIN L
      <4>1. L2[id].eid = 0
        BY <3>2
      <4>2. Owed(P, L2[id].market, L2[id].eid) = 0
        BY <1>1, <4>1, NoneOwed
      <4>3. L2[id].open \in Nat
        BY DEF EngineOrder
      <4>4. Left(L2, P, id) = L2[id].open - 0
        BY <4>2 DEF Left
      <4>. QED  BY <4>3, <4>4
    <3>. QED  BY <3>1, <3>2
  <2>. QED  BY <2>1 DEF NoOverfill
<1>. DEFINE T == S2 \cap {m \in S : B2[m] = B[m]}
<1>7. BookBacked(L2, P, K, T, B2) /\ BookComplete(L2, P, K, T, B2)
  <2>1. ASSUME NEW id \in OrderIds, Rests(L, P, K, id) \/ Rests(L2, P, K, id)
        PROVE  SameRest(L, P, K, L2, P, K, id)
    <3>1. id \in DOMAIN L /\ id \in DOMAIN L2
      <4>1. CASE Rests(L, P, K, id)
        <5>1. id \in DOMAIN L /\ Left(L, P, id) > 0
          BY <4>1 DEF Rests
        <5>. QED  BY <1>4, <5>1
      <4>2. CASE Rests(L2, P, K, id)
        BY <4>2 DEF Rests
      <4>. QED  BY <2>1, <4>1, <4>2
    <3>2. SameIdentity(L, L2, id)
      BY <3>1 DEF SameIdentity
    <3>. QED  BY <1>3, <2>1, <3>1, <3>2, IdentitySame
  <2>2. T \subseteq S /\ \A m \in T : B2[m] = B[m]
    OBVIOUS
  <2>. HIDE DEF T
  <2>. QED  BY <2>1, <2>2, BooksFollow DEF Flight
<1>8. ASSUME NEW m \in S2, m \notin T
      PROVE  B2[m] = {} /\ \A id \in DOMAIN L2 : L2[id].market = m => L2[id].eid = 0
  BY <1>8
<1>. HIDE DEF T
<1>9. BookBacked(L2, P, K, S2, B2)
  BY <1>7, <1>8 DEF BookBacked
<1>10. BookComplete(L2, P, K, S2, B2)
  BY <1>7, <1>8 DEF BookComplete, Rests
<1>11. Flight(L2, P, K, S2, B2)
  BY <1>2, <1>5, <1>6, <1>9, <1>10 DEF Flight
<1>. QED  BY <1>11

(* An engine loses its books and what it was matching. *)
DropsTo(L, P, K, L2, P2, K2, S2) ==
  /\ \A id \in DOMAIN L : SameIdentity(L, L2, id) \/ L2[id].eid = 0
  /\ \A id \in DOMAIN L : L2[id].market = L[id].market /\ L2[id].open = L[id].open
  /\ \A x \in P2 : \A id \in DOMAIN L :
       L[id].market = x[1] /\ L[id].eid \in {x[3].buy, x[3].sell} => SameIdentity(L, L2, id)
  /\ \A id \in DOMAIN L : L[id].market \in S2 =>
       SameIdentity(L, L2, id) /\ (id \in K <=> id \in K2)
  /\ \A x \in P : x[1] \in S2 => x \in P2

SameLeftIn(L, P, L2, P2, S) ==
  \A id \in DOMAIN L : L[id].market \in S => Left(L2, P2, id) = Left(L, P, id)

SameBooksIn(S, B, B2) == \A m \in S : B2[m] = B[m]

LEMMA FlightDrop ==
  ASSUME NEW L, NEW P, NEW K, NEW S, NEW B, Flight(L, P, K, S, B),
         NEW L2, DOMAIN L2 = DOMAIN L, L2 \in [DOMAIN L2 -> EngineOrder],
         NEW P2, P2 \subseteq P, NEW K2, NEW S2, S2 \subseteq S,
         NEW B2, SameBooksIn(S2, B, B2), DropsTo(L, P, K, L2, P2, K2, S2)
  PROVE  Flight(L2, P2, K2, S2, B2) /\ SameLeftIn(L, P, L2, P2, S2)
<1>a. \A m \in S2 : B2[m] = B[m]
  BY DEF SameBooksIn
<1>b. /\ \A id \in DOMAIN L : SameIdentity(L, L2, id) \/ L2[id].eid = 0
      /\ \A id \in DOMAIN L : L2[id].market = L[id].market /\ L2[id].open = L[id].open
      /\ \A x \in P2 : \A id \in DOMAIN L :
           L[id].market = x[1] /\ L[id].eid \in {x[3].buy, x[3].sell} => SameIdentity(L, L2, id)
      /\ \A id \in DOMAIN L : L[id].market \in S2 =>
           SameIdentity(L, L2, id) /\ (id \in K <=> id \in K2)
      /\ \A x \in P : x[1] \in S2 => x \in P2
  BY DEF DropsTo
<1>. USE <1>a, <1>b
<1>1. /\ FlightType(L, P) /\ P \subseteq InFlight /\ IsFiniteSet(P)
      /\ \A x \in P : TradeSound(L, x) /\ DOMAIN L \subseteq OrderIds
  BY DEF Flight, FlightType
<1>2. FlightType(L2, P2)
  <2>1. IsFiniteSet(P2)
    BY <1>1, FS_Subset
  <2>. QED  BY <1>1, <2>1 DEF FlightType
<1>3. \A x \in P2 : TradeSound(L2, x)
  BY <1>1, SoundFollows
<1>4. ASSUME NEW id \in DOMAIN L, L[id].market \in S2
      PROVE  Left(L2, P2, id) = Left(L, P, id)
  <2>1. Naming(P2, L[id].market, L[id].eid) = Naming(P, L[id].market, L[id].eid)
    BY <1>4 DEF Naming
  <2>2. L2[id].market = L[id].market /\ L2[id].eid = L[id].eid /\ L2[id].open = L[id].open
    BY <1>4 DEF SameIdentity
  <2>. QED  BY <2>1, <2>2 DEF Left, Owed
<1>5. NoOverfill(L2, P2)
  <2>1. ASSUME NEW id \in DOMAIN L PROVE Left(L2, P2, id) >= 0
    <3>0. L2[id] \in EngineOrder /\ Left(L, P, id) >= 0
      BY DEF Flight, NoOverfill
    <3>1. CASE L2[id].eid = 0
      <4>1. Owed(P2, L2[id].market, L2[id].eid) = 0
        BY <1>2, <1>3, <3>1, NoneOwed
      <4>2. L2[id].open \in Nat
        BY <3>0 DEF EngineOrder
      <4>3. Left(L2, P2, id) = L2[id].open - 0
        BY <4>1 DEF Left
      <4>. QED  BY <4>2, <4>3
    <3>2. CASE SameIdentity(L, L2, id)
      <4>. DEFINE m == L[id].market  n == L[id].eid  a == Owed(P, m, n)  c == Owed(P2, m, n)
                  l == L[id].open
      <4>1. Left(L, P, id) = l - a /\ Left(L2, P2, id) = l - c
        BY <3>2 DEF Left, SameIdentity
      <4>2. c <= a
        BY <1>1, OwedPart
      <4>3. l \in Nat /\ a \in Nat /\ c \in Nat
        <5>1. P2 \subseteq InFlight /\ IsFiniteSet(P2)
          BY <1>2 DEF FlightType
        <5>. QED  BY <1>1, <5>1, LeftType, OwedType DEF EngineOrder
      <4>. HIDE DEF a, c, l, m, n
      <4>. QED  BY <3>0, <4>1, <4>2, <4>3
    <3>. QED  BY <3>1, <3>2
  <2>. QED  BY <2>1 DEF NoOverfill
<1>6. BookBacked(L2, P2, K2, S2, B2) /\ BookComplete(L2, P2, K2, S2, B2)
  <2>1. ASSUME NEW id \in OrderIds, id \in DOMAIN L, L[id].market \in S2,
               Rests(L, P, K, id) \/ Rests(L2, P2, K2, id)
        PROVE  SameRest(L, P, K, L2, P2, K2, id)
    BY <1>4, <2>1, IdentitySame
  <2>2. ASSUME NEW id \in OrderIds, Rests(L, P, K, id) /\ L[id].market \in S2
        PROVE  SameRest(L, P, K, L2, P2, K2, id)
    BY <2>1, <2>2 DEF Rests
  <2>3. ASSUME NEW id \in OrderIds, Rests(L2, P2, K2, id) /\ L2[id].market \in S2
        PROVE  SameRest(L, P, K, L2, P2, K2, id)
    <3>1. id \in DOMAIN L
      BY <2>3 DEF Rests
    <3>. QED  BY <2>1, <2>3, <3>1
  <2>. QED  BY <2>2, <2>3, BooksFollow DEF Flight
<1>. QED  BY <1>2, <1>3, <1>4, <1>5, <1>6 DEF Flight, SameLeftIn

(* With nothing in flight what the engine has left of an order is what the
   ledger says. *)
LEMMA NothingOwed ==
  ASSUME NEW L, FlightType(L, {}), NEW id \in DOMAIN L
  PROVE  Left(L, {}, id) = L[id].open /\ L[id].open \in Nat
<1>1. Naming({}, L[id].market, L[id].eid) = {}
  BY DEF Naming
<1>2. Owed({}, L[id].market, L[id].eid) = 0
  BY <1>1, OwedType DEF FlightType
<1>3. L[id].open \in Nat
  BY LeftType DEF EngineOrder
<1>4. Left(L, {}, id) = L[id].open - 0
  BY <1>2 DEF Left
<1>. DEFINE a == L[id].open
<1>5. a - 0 = a
  <2>1. a \in Nat
    BY <1>3
  <2>. HIDE DEF a
  <2>. QED  BY <2>1
<1>. QED  BY <1>3, <1>4, <1>5

(* An order is taken off its book. *)
LEMMA FlightCancel ==
  ASSUME NEW L, NEW K, NEW S, NEW B, Flight(L, {}, K, S, B), OwnIds(L),
         NEW c \in DOMAIN L, L[c].eid # 0,
         NEW L2, DOMAIN L2 = DOMAIN L, L2 \in [DOMAIN L2 -> EngineOrder],
         \A id \in DOMAIN L : SameIdentity(L, L2, id),
         \A id \in DOMAIN L : L2[id].open = IF id = c THEN 0 ELSE L[id].open,
         NEW B2, \A m \in S : \A o : o \in B2[m] <=>
                   o \in B[m] /\ ~(m = L[c].market /\ o.eid = L[c].eid)
  PROVE  Flight(L2, {}, K, S, B2)
<1>1. FlightType(L, {}) /\ FlightType(L2, {}) /\ DOMAIN L \subseteq OrderIds
  BY DEF Flight, FlightType
<1>2. \A id \in DOMAIN L : Left(L, {}, id) = L[id].open /\ Left(L2, {}, id) = L2[id].open
                           /\ L2[id].open \in Nat
  BY <1>1, NothingOwed
<1>3. NoOverfill(L2, {})
  BY <1>2 DEF NoOverfill
<1>4. ASSUME NEW id \in OrderIds, id # c, Rests(L, {}, K, id) \/ Rests(L2, {}, K, id)
      PROVE  SameRest(L, {}, K, L2, {}, K, id)
  <2>1. id \in DOMAIN L
    BY <1>4 DEF Rests
  <2>2. Left(L2, {}, id) = Left(L, {}, id)
    BY <1>2, <1>4, <2>1
  <2>. QED  BY <1>4, <2>1, <2>2, IdentitySame
<1>5. BookBacked(L2, {}, K, S, B2)
  <2>1. ASSUME NEW m \in S, NEW o \in B2[m]
        PROVE  \E id \in OrderIds : Rests(L2, {}, K, id) /\ L2[id].market = m /\ o = Rest(L2, {}, id)
    <3>1. o \in B[m] /\ (m = L[c].market => o.eid # L[c].eid)
      OBVIOUS
    <3>2. PICK id \in OrderIds : Rests(L, {}, K, id) /\ L[id].market = m /\ o = Rest(L, {}, id)
      BY <3>1, Zenon DEF Flight, BookBacked
    <3>3. id # c
      BY <3>1, <3>2 DEF Rest
    <3>4. SameRest(L, {}, K, L2, {}, K, id)
      BY <1>4, <3>2, <3>3
    <3>. QED  BY <3>2, <3>4 DEF SameRest
  <2>. QED  BY <2>1, Zenon DEF BookBacked
<1>6. BookComplete(L2, {}, K, S, B2)
  <2>1. ASSUME NEW id \in OrderIds, Rests(L2, {}, K, id), L2[id].market \in S
        PROVE  Rest(L2, {}, id) \in B2[L2[id].market]
    <3>1. id \in DOMAIN L /\ id # c
      BY <1>2, <2>1 DEF Rests
    <3>2. SameRest(L, {}, K, L2, {}, K, id)
      BY <1>4, <2>1, <3>1
    <3>3. Rest(L, {}, id) \in B[L[id].market] /\ L[id].market \in S /\ L[id].eid # 0
      BY <2>1, <3>2 DEF Flight, BookComplete, SameRest, Rests
    <3>4. L[id].market = L[c].market => Rest(L, {}, id).eid # L[c].eid
      BY <3>1, <3>3 DEF OwnIds, Rest
    <3>5. Rest(L, {}, id) \in B2[L[id].market]
      BY <3>3, <3>4
    <3>. QED  BY <3>2, <3>5 DEF SameRest
  <2>. QED  BY <2>1, Zenon DEF BookComplete
<1>7. \A x \in {} : TradeSound(L2, x)
  OBVIOUS
<1>. QED  BY <1>1, <1>3, <1>5, <1>6, <1>7 DEF Flight

(* What happens to the orders of a market without a book explains nothing
   less. *)
LEMMA FlightElsewhere ==
  ASSUME NEW L, NEW K, NEW S, NEW B, Flight(L, {}, K, S, B),
         NEW L2, DOMAIN L2 = DOMAIN L, L2 \in [DOMAIN L2 -> EngineOrder],
         \A id \in DOMAIN L : SameIdentity(L, L2, id),
         \A id \in DOMAIN L : L[id].market \in S => L2[id].open = L[id].open
  PROVE  Flight(L2, {}, K, S, B)
<1>1. FlightType(L, {}) /\ FlightType(L2, {}) /\ DOMAIN L \subseteq OrderIds
  BY DEF Flight, FlightType
<1>2. \A id \in DOMAIN L : Left(L, {}, id) = L[id].open /\ Left(L2, {}, id) = L2[id].open
                           /\ L2[id].open \in Nat
  BY <1>1, NothingOwed
<1>3. NoOverfill(L2, {})
  BY <1>2 DEF NoOverfill
<1>4. ASSUME NEW id \in OrderIds, id \in DOMAIN L, L[id].market \in S,
             Rests(L, {}, K, id) \/ Rests(L2, {}, K, id)
      PROVE  SameRest(L, {}, K, L2, {}, K, id)
  <2>1. Left(L2, {}, id) = Left(L, {}, id)
    BY <1>2, <1>4
  <2>. QED  BY <1>4, <2>1, IdentitySame
<1>5. BookBacked(L2, {}, K, S, B) /\ BookComplete(L2, {}, K, S, B)
  <2>1. ASSUME NEW id \in OrderIds, Rests(L, {}, K, id) /\ L[id].market \in S
        PROVE  SameRest(L, {}, K, L2, {}, K, id)
    BY <1>4, <2>1 DEF Rests
  <2>2. ASSUME NEW id \in OrderIds, Rests(L2, {}, K, id) /\ L2[id].market \in S
        PROVE  SameRest(L, {}, K, L2, {}, K, id)
    <3>1. id \in DOMAIN L /\ L[id].market \in S
      BY <2>2 DEF Rests, SameIdentity
    <3>. QED  BY <1>4, <2>2, <3>1
  <2>. QED  BY <2>1, <2>2, BooksFollow DEF Flight
<1>6. \A x \in {} : TradeSound(L2, x)
  OBVIOUS
<1>. QED  BY <1>1, <1>3, <1>5, <1>6 DEF Flight

(* Engines that have just started. *)
LEMMA FlightFresh ==
  ASSUME NEW L, DOMAIN L \subseteq OrderIds, L \in [DOMAIN L -> EngineOrder],
         \A id \in DOMAIN L : L[id].eid = 0,
         NEW K, NEW S, NEW B, \A m \in S : B[m] = {}
  PROVE  Flight(L, {}, K, S, B)
<1>1. FlightType(L, {})
  BY FS_EmptySet DEF FlightType
<1>2. NoOverfill(L, {})
  BY <1>1, NothingOwed DEF NoOverfill
<1>3. \A x \in {} : TradeSound(L, x)
  OBVIOUS
<1>. QED  BY <1>1, <1>2, <1>3 DEF Flight, BookBacked, BookComplete, Rests

-----------------------------------------------------------------------------
(* The orders the engines have been given, and the live orders. *)

(* The orders the engines have been given are known to memory, and active. *)
LEMMA GivenKnown ==
  ASSUME PInv, AwaitingIds \/ Submitted, NEW k \in 1..Len(admitted)
  PROVE  /\ admitted[k] \in OrderIds
         /\ mem.orders[admitted[k]] \in Order
         /\ mem.orders[admitted[k]] # NoOrder
         /\ Active(mem.orders[admitted[k]])
         /\ mem.orders[admitted[k]].market \in Markets
         /\ mem.markets[mem.orders[admitted[k]].market] # NoMarket
         /\ mem.markets[mem.orders[admitted[k]].market] \in Market
         /\ SymbolOf(admitted[k]) \in Symbols
         /\ EngineOf(k) \in Engines
<1>1. admitted[k] \in OrderIds
  BY DEF PInv, SInv, IInv, TypeOK
<1>2. mem.orders[admitted[k]] # NoOrder /\ Active(mem.orders[admitted[k]])
  <2>1. CASE Submitted
    BY <2>1, AdmittedKnown DEF PInv, SInv, InEngineActive
  <2>2. CASE ~Submitted
    <3>1. op = "place" /\ pc = "commit" /\ after = "return"
      BY <2>2 DEF AwaitingIds, Submitted
    <3>2. change.orders[admitted[k]] # NoOrder
      BY <3>1 DEF PInv, SInv, IInv, CompletionStaged
    <3>3. mem.orders[admitted[k]] # NoOrder
      BY <1>1, <3>1, <3>2 DEF PInv, SInv, IInv, StagedFaithful, Reserving
    <3>. QED  BY <1>1, <3>2, <3>3 DEF PInv, SInv, StagedAdvances
  <2>. QED  BY <2>1, <2>2
<1>3. mem.orders[admitted[k]] \in Order
  BY <1>1, <1>2 DEF PInv, SInv, IInv, TypeOK, LedgerType
<1>. DEFINE o == mem.orders[admitted[k]]
<1>4. o.market \in Markets
  <2>. HIDE DEF o
  <2>. QED  BY <1>3 DEF Order, o
<1>5. mem.markets[o.market] # NoMarket
  BY <1>1, <1>2 DEF PInv, SInv, IInv, MarketsKnown, MarketsIn
<1>6. mem.markets[o.market] \in Market
  <2>. HIDE DEF o
  <2>. QED  BY <1>4, <1>5 DEF PInv, SInv, IInv, TypeOK, LedgerType
<1>7. SymbolOf(admitted[k]) \in Symbols
  BY <1>6 DEF SymbolOf, Market
<1>8. EngineOf(k) \in Engines
  BY <1>7, ConstantsAssumption DEF EngineOf
<1>. QED  BY <1>1, <1>2, <1>3, <1>4, <1>5, <1>6, <1>7, <1>8

(* The orders an engine has been given have places of their own. *)
LEMMA PlaceIs ==
  ASSUME PInv, AwaitingIds, NEW k \in 1..Len(admitted)
  PROVE  /\ Among(admitted[k]) /\ PlaceOf(admitted[k]) = k
         /\ mem.orders[admitted[k]].eid = 0
         /\ Eid(admitted[k]) = Answer(k).eid
         /\ admitted[k] \in OrderIds
<1>0. admitted[k] \in OrderIds /\ Len(admitted) \in Nat
  BY DEF PInv, SInv, IInv, TypeOK
<1>1. \A j \in 1..Len(admitted) : admitted[j] = admitted[k] => j = k
  <2>1. \A i, j \in 1..Len(admitted) : i < j =>
          mem.orders[admitted[i]].seq < mem.orders[admitted[j]].seq
    BY DEF PInv, SubmittedInOrder
  <2>2. ASSUME NEW j \in 1..Len(admitted), admitted[j] = admitted[k], j # k PROVE FALSE
    <3>1. mem.orders[admitted[j]] \in Order \cup {NoOrder}
      BY <1>0, <2>2 DEF PInv, SInv, IInv, TypeOK, LedgerType
    <3>2. mem.orders[admitted[k]].seq < mem.orders[admitted[k]].seq
      BY <2>1, <2>2, <1>0
    <3>3. mem.orders[admitted[k]].seq \in Nat
      BY GivenKnown DEF Order
    <3>. QED  BY <3>2, <3>3
  <2>. QED  BY <2>2
<1>2. Among(admitted[k]) /\ PlaceOf(admitted[k]) = k
  BY <1>1 DEF Among, PlaceOf
<1>3. mem.orders[admitted[k]].eid = 0
  BY DEF PInv, SubmittedInOrder
<1>. QED  BY <1>0, <1>2, <1>3 DEF Eid

LEMMA AnswerType ==
  ASSUME PInv, AwaitingIds \/ Submitted, NEW k \in 1..Len(admitted)
  PROVE  Answer(k) \in Result
<1>1. CASE k \in DOMAIN results
  BY <1>1 DEF Answer, PInv, SInv, IInv, TypeOK
<1>2. CASE k \notin DOMAIN results
  <2>. DEFINE t == taker[EngineOf(k)]
  <2>1. t \in Taker \cup {NoTaker}
    BY GivenKnown DEF PInv, SInv, IInv, TypeOK
  <2>2. Answer(k) = IF t # NoTaker /\ t.k = k THEN [eid |-> t.eid, trades |-> t.trades]
                    ELSE [eid |-> 0, trades |-> <<>>]
    BY <1>2 DEF Answer
  <2>. HIDE DEF t
  <2>. QED  BY <2>1, <2>2 DEF Taker, Result
<1>. QED  BY <1>1, <1>2

(* Every active order has an id in its engine, which is zero before it has
   one. *)
LEMMA EidType ==
  ASSUME PInv, NEW id \in ActiveOrders(mem)
  PROVE  Eid(id) \in Nat /\ id \in OrderIds /\ mem.orders[id] \in Order /\ mem.orders[id] # NoOrder
<1>1. id \in OrderIds /\ mem.orders[id] \in Order /\ mem.orders[id] # NoOrder
  BY DEF ActiveOrders, Active, PInv, SInv, IInv, TypeOK, LedgerType
<1>2. mem.orders[id].eid \in Nat
  BY <1>1 DEF Order
<1>3. CASE AwaitingIds /\ Among(id)
  <2>1. PICK k \in 1..Len(admitted) : admitted[k] = id
    BY <1>3 DEF Among
  <2>2. Eid(id) = Answer(k).eid /\ Answer(k) \in Result
    BY <1>3, <2>1, PlaceIs, AnswerType
  <2>. QED  BY <1>1, <2>2 DEF Result
<1>4. CASE ~(AwaitingIds /\ Among(id))
  BY <1>1, <1>2, <1>4 DEF Eid
<1>. QED  BY <1>3, <1>4

(* What the engines know of an active order. *)
LEMMA LiveAt ==
  ASSUME PInv, OrdersGood(mem), OrdersGood(change)
  PROVE  /\ DOMAIN Live = ActiveOrders(mem) /\ DOMAIN Live \subseteq OrderIds
         /\ Live \in [DOMAIN Live -> EngineOrder]
         /\ \A id \in DOMAIN Live :
              /\ Live[id].market = mem.orders[id].market
              /\ Live[id].side = EngineSide(mem.orders[id].side)
              /\ Live[id].price = EnginePrice(mem.orders[id].side, mem.orders[id].price)
              /\ Live[id].eid = Eid(id)
              /\ Live[id].open = Unfilled(Staged(id))
<1>. DEFINE F(id) == [market |-> mem.orders[id].market, side |-> EngineSide(mem.orders[id].side),
                      price |-> EnginePrice(mem.orders[id].side, mem.orders[id].price),
                      eid |-> Eid(id), open |-> Unfilled(Staged(id))]
<1>1. Live = [id \in ActiveOrders(mem) |-> F(id)]
  BY DEF Live
<1>2. DOMAIN Live = ActiveOrders(mem) /\ \A id \in DOMAIN Live : Live[id] = F(id)
  <2>. HIDE DEF F
  <2>. QED  BY <1>1
<1>3. ASSUME NEW id \in ActiveOrders(mem)
      PROVE  F(id) \in EngineOrder
  <2>1. mem.orders[id] \in Order /\ mem.orders[id] # NoOrder /\ id \in OrderIds /\ Eid(id) \in Nat
    BY EidType
  <2>2. mem.orders[id].price \in 1..99
    BY <2>1 DEF PInv, SInv, IInv, PricesValid
  <2>3. EnginePrice(mem.orders[id].side, mem.orders[id].price) \in Nat
    BY <2>2 DEF EnginePrice
  <2>4. EngineSide(mem.orders[id].side) \in EngineSides /\ mem.orders[id].market \in Markets
    BY <2>1 DEF EngineSide, EngineSides, Order
  <2>5. Unfilled(Staged(id)) \in Nat
    <3>1. Staged(id) \in Order \cup {NoOrder}
      BY <2>1 DEF Staged, PInv, SInv, IInv, TypeOK, LedgerType
    <3>2. Staged(id) # NoOrder => Staged(id).filled <= Staged(id).qty
      BY <2>1 DEF Staged, OrdersGood
    <3>. DEFINE o == Staged(id)
    <3>3. Unfilled(o) \in Nat
      <4>1. o \in Order \cup {NoOrder} /\ (o # NoOrder => o.filled <= o.qty)
        BY <3>1, <3>2
      <4>. HIDE DEF o
      <4>. QED  BY <4>1 DEF Unfilled, Active, Remaining, Order
    <3>. QED  BY <3>3
  <2>. QED  BY <2>1, <2>3, <2>4, <2>5 DEF EngineOrder
<1>4. ActiveOrders(mem) \subseteq OrderIds
  BY DEF ActiveOrders
<1>5. Live \in [DOMAIN Live -> EngineOrder]
  <2>. HIDE DEF F
  <2>. QED  BY <1>1, <1>2, <1>3
<1>. QED  BY <1>2, <1>4, <1>5

(* Among active orders an engine id of a market names one. *)
LEMMA LiveOwnIds ==
  ASSUME PInv
  PROVE  OwnIds(Live)
<1>1. /\ DOMAIN Live = ActiveOrders(mem)
      /\ \A id \in DOMAIN Live : Live[id].market = mem.orders[id].market /\ Live[id].eid = Eid(id)
  BY DEF Live
<1>. DEFINE Mkt(id) == mem.orders[id].market
<1>2. ASSUME NEW i \in ActiveOrders(mem), NEW j \in ActiveOrders(mem), i # j,
             mem.orders[i].market = mem.orders[j].market, Eid(i) = Eid(j), Eid(i) # 0,
             mem.orders[j].eid = 0
      PROVE  FALSE
  <2>0. /\ i \in OrderIds /\ Active(mem.orders[i]) /\ mem.orders[i].eid \in Nat
        /\ j \in OrderIds /\ Active(mem.orders[j])
    BY EidType DEF ActiveOrders, Order
  <2>1. AwaitingIds /\ Among(j)
    BY <1>2 DEF Eid
  <2>2. PICK k \in 1..Len(admitted) : admitted[k] = j
    BY <2>1 DEF Among
  <2>3. Eid(j) = Answer(k).eid /\ Answer(k) \in Result
    BY <2>1, <2>2, PlaceIs, AnswerType
  <2>. DEFINE e == EngineOf(k)
  <2>4. k \in DOMAIN results \/ (k \notin DOMAIN results /\ taker[e] # NoTaker /\ taker[e].k = k)
    BY <1>2, <2>3 DEF Answer
  <2>5. e \in Engines
    BY <2>1, GivenKnown
  <2>6. FreshId(Eid(j), k)
    <3>1. CASE k \in DOMAIN results
      BY <2>1, <2>3, <3>1 DEF Answer, PInv, AnswersInOrder
    <3>2. CASE k \notin DOMAIN results /\ taker[e] # NoTaker /\ taker[e].k = k
      BY <2>3, <2>5, <3>2 DEF Answer, PInv, TakersInOrder
    <3>. QED  BY <2>4, <3>1, <3>2
  <2>7. mem.orders[i].eid < Eid(j) /\ Eid(j) \in Nat
    BY <1>2, <2>0, <2>2, <2>3, <2>6 DEF FreshId, Result
  <2>8. mem.orders[i].eid = 0
    BY <1>2, <2>0, <2>7 DEF Eid
  <2>9. Among(i)
    BY <1>2, <2>8 DEF Eid
  <2>10. PICK l \in 1..Len(admitted) : admitted[l] = i
    BY <2>9 DEF Among
  <2>11. Eid(i) = Answer(l).eid /\ Answer(l) \in Result
    BY <2>1, <2>10, PlaceIs, AnswerType
  <2>12. l \in DOMAIN results
         \/ (l \notin DOMAIN results /\ taker[EngineOf(l)] # NoTaker /\ taker[EngineOf(l)].k = l)
    BY <1>2, <2>11 DEF Answer
  <2>13. SameMarket(l, k) /\ SameMarket(k, l) /\ EngineOf(l) = e /\ l # k
    BY <1>2, <2>2, <2>10 DEF SameMarket, EngineOf, SymbolOf
  <2>14. CASE k \in DOMAIN results /\ l \in DOMAIN results
    <3>1. results[k].eid \in Nat /\ results[l].eid \in Nat /\ results[k].eid = results[l].eid
      BY <1>2, <2>3, <2>11, <2>14 DEF Answer, Result
    <3>2. k \in Nat /\ l \in Nat
      OBVIOUS
    <3>. QED  BY <2>1, <2>13, <2>14, <3>1, <3>2 DEF PInv, AnswersInOrder
  <2>15. CASE k \in DOMAIN results /\ l \notin DOMAIN results
    <3>1. results[k].eid < taker[e].eid
      BY <2>5, <2>12, <2>13, <2>15 DEF PInv, TakersInOrder
    <3>2. results[k].eid = taker[e].eid /\ results[k].eid \in Nat
      BY <1>2, <2>3, <2>11, <2>12, <2>13, <2>15 DEF Answer, Result
    <3>. QED  BY <3>1, <3>2
  <2>16. CASE k \notin DOMAIN results /\ l \in DOMAIN results
    <3>1. results[l].eid < taker[e].eid
      BY <2>4, <2>5, <2>13, <2>16 DEF PInv, TakersInOrder
    <3>2. results[l].eid = taker[e].eid /\ results[l].eid \in Nat
      BY <1>2, <2>3, <2>4, <2>11, <2>13, <2>16 DEF Answer, Result
    <3>. QED  BY <3>1, <3>2
  <2>17. CASE k \notin DOMAIN results /\ l \notin DOMAIN results
    BY <2>4, <2>12, <2>13, <2>17
  <2>. QED  BY <2>4, <2>12, <2>14, <2>15, <2>16, <2>17
<1>3. ASSUME NEW i \in ActiveOrders(mem), NEW j \in ActiveOrders(mem),
             mem.orders[i].market = mem.orders[j].market, Eid(i) = Eid(j), Eid(i) # 0
      PROVE  i = j
  <2>1. SUFFICES ASSUME i # j PROVE FALSE
    OBVIOUS
  <2>2. CASE mem.orders[j].eid = 0
    BY <1>2, <1>3, <2>1, <2>2
  <2>3. CASE mem.orders[i].eid = 0
    BY <1>2, <1>3, <2>1, <2>3
  <2>4. CASE mem.orders[i].eid # 0 /\ mem.orders[j].eid # 0
    <3>1. /\ i \in OrderIds /\ Active(mem.orders[i]) /\ mem.orders[i] \in Order
          /\ j \in OrderIds /\ Active(mem.orders[j]) /\ mem.orders[j] \in Order
          /\ mem.orders[i] # NoOrder /\ mem.orders[j] # NoOrder
      BY EidType DEF ActiveOrders
    <3>2. mem.orders[i].eid = mem.orders[j].eid
      BY <1>3, <2>4 DEF Eid
    <3>3. mem.orders[i].seq # mem.orders[j].seq
      BY <2>1, <3>1 DEF PInv, OwnPlaces
    <3>4. /\ mem.orders[i].seq \in Nat /\ mem.orders[j].seq \in Nat /\ mem.orders[i].eid \in Nat
      BY <3>1 DEF Order
    <3>. QED  BY <1>3, <2>4, <3>1, <3>2, <3>3, <3>4 DEF PInv, IdsInOrder
  <2>. QED  BY <2>2, <2>3, <2>4
<1>. QED  BY <1>1, <1>3 DEF OwnIds

-----------------------------------------------------------------------------
(* Facts about a state, and the same facts about the next one. *)

(* While no engine has been given an order, nothing is in flight. *)
LEMMA QuietState ==
  PInv /\ ~Submitted =>
    /\ Pending = {} /\ Matching = {} /\ TakerLeft
    /\ DistinctTrades /\ TradesKnown /\ Drained /\ Unstaged
<1>. SUFFICES ASSUME PInv, ~Submitted
              PROVE  /\ Pending = {} /\ Matching = {} /\ TakerLeft
                     /\ DistinctTrades /\ TradesKnown /\ Drained /\ Unstaged
  OBVIOUS
<1>1. Pending = {}
  BY DEF Pending
<1>2. \A e \in Engines : taker[e] = NoTaker
  BY DEF PInv, SInv, IInv, Control, Submitted
<1>3. Matching = {}
  BY <1>2 DEF Matching
<1>4. TakerLeft
  BY <1>2 DEF TakerLeft
<1>5. DistinctTrades /\ TradesKnown /\ Drained /\ Unstaged
  BY <1>1 DEF DistinctTrades, TradesKnown, Drained, Unstaged, Submitted
<1>. QED  BY <1>1, <1>3, <1>4, <1>5

LEMMA QuietNext ==
  PInv' /\ ~Submitted' =>
    /\ Pending' = {} /\ Matching' = {} /\ TakerLeft'
    /\ DistinctTrades' /\ TradesKnown' /\ Drained' /\ Unstaged'
<1>1. PInv' /\ ~Submitted' =>
        (/\ Pending = {} /\ Matching = {} /\ TakerLeft
         /\ DistinctTrades /\ TradesKnown /\ Drained /\ Unstaged)'
  BY QuietState, PTL
<1>. QED  BY <1>1

LEMMA LiveNow ==
  PInv /\ OrdersGood(mem) /\ OrdersGood(change) =>
    /\ DOMAIN Live = ActiveOrders(mem) /\ DOMAIN Live \subseteq OrderIds
    /\ Live \in [DOMAIN Live -> EngineOrder]
BY LiveAt

LEMMA LiveNext ==
  PInv' /\ OrdersGood(mem)' /\ OrdersGood(change)' =>
    /\ DOMAIN Live' = ActiveOrders(mem)' /\ DOMAIN Live' \subseteq OrderIds
    /\ Live' \in [DOMAIN Live' -> EngineOrder]
<1>1. PInv' /\ OrdersGood(mem)' /\ OrdersGood(change)' =>
        (/\ DOMAIN Live = ActiveOrders(mem) /\ DOMAIN Live \subseteq OrderIds
         /\ Live \in [DOMAIN Live -> EngineOrder])'
  BY LiveNow, PTL
<1>. QED  BY <1>1

LEMMA OwnIdsNow == PInv => OwnIds(Live)
BY LiveOwnIds

LEMMA OwnIdsNext == PInv' => OwnIds(Live)'
BY OwnIdsNow, PTL

(* What the engines know of the orders stays. *)
LEMMA LiveKept ==
  ASSUME mem'.orders = mem.orders,
         \A id \in ActiveOrders(mem) : Eid(id)' = Eid(id),
         \A id \in ActiveOrders(mem) : Unfilled(Staged(id))' = Unfilled(Staged(id))
  PROVE  Live' = Live /\ ActiveOrders(mem)' = ActiveOrders(mem)
<1>1. ActiveOrders(mem)' = ActiveOrders(mem)
  BY DEF ActiveOrders
<1>. QED  BY <1>1 DEF Live

LEMMA ServedKept ==
  ASSUME mem'.markets = mem.markets, books' = books,
         \A m \in Markets : MarketOpen(m) =>
           (mem.markets[m].symbol \in listed' <=> mem.markets[m].symbol \in listed)
  PROVE  Served' = Served /\ BookOf' = BookOf
<1>1. Served' = Served
  BY DEF Served, MarketOpen
<1>. QED  BY <1>1 DEF BookOf

(* A step outside the engines that neither fills nor closes an order. *)
LEMMA FlightKept ==
  ASSUME FlightInv, Running' => Running, Live' = Live, Pending' = Pending, Matching' = Matching,
         Served' = Served, BookOf' = BookOf
  PROVE  FlightInv'
BY DEF FlightInv

(* The markets and orders of the ledgers, and of what is staged, stay. *)
LEMMA LedgersKept ==
  ASSUME LedgersSound, mem' = mem, disk' = disk,
         \/ change'.markets = change.markets /\ change'.orders = change.orders
         \/ change' = Empty
  PROVE  LedgersSound'
<1>1. SymbolsOwn(mem.markets)' /\ SymbolsOwn(disk.markets)' /\ OrdersGood(mem)' /\ OrdersGood(disk)'
  BY DEF LedgersSound, SymbolsOwn, OrdersGood
<1>2. CASE change'.markets = change.markets /\ change'.orders = change.orders
  <2>1. Apply(mem', change').markets = Apply(mem, change).markets
    BY <1>2 DEF Apply
  <2>2. SymbolsOwn(Apply(mem', change').markets)
    BY <2>1 DEF LedgersSound
  <2>3. OrdersGood(change)'
    BY <1>2 DEF LedgersSound, OrdersGood
  <2>. QED  BY <1>1, <2>2, <2>3 DEF LedgersSound
<1>3. CASE change' = Empty
  <2>1. \A m \in Markets : Apply(mem', change').markets[m] = mem.markets[m]
    BY <1>3 DEF Apply, Empty
  <2>2. SymbolsOwn(Apply(mem', change').markets)
    <3>. DEFINE f == Apply(mem', change').markets
    <3>1. \A m \in Markets : f[m] = mem.markets[m]
      BY <2>1
    <3>. HIDE DEF f
    <3>2. SymbolsOwn(f)
      BY <3>1 DEF LedgersSound, SymbolsOwn
    <3>. QED  BY <3>2 DEF f
  <2>3. OrdersGood(change)'
    BY <1>3, EmptyLedger DEF OrdersGood
  <2>. QED  BY <1>1, <2>2, <2>3 DEF LedgersSound
<1>. QED  BY <1>2, <1>3

(* The ledgers stay and something is staged. *)
LEMMA LedgersStage ==
  ASSUME LedgersSound, mem' = mem, disk' = disk, change' \in LedgerType,
         OrdersGood(change'), SymbolsOwn(Apply(mem, change').markets)
  PROVE  LedgersSound'
BY DEF LedgersSound, SymbolsOwn, OrdersGood

LEMMA SymbolsStaged ==
  ASSUME NEW c, SymbolsOwn(Apply(mem, change).markets), c.markets = change.markets
  PROVE  SymbolsOwn(Apply(mem, c).markets)
<1>1. Apply(mem, c).markets = Apply(mem, change).markets
  BY DEF Apply
<1>. QED  BY <1>1

-----------------------------------------------------------------------------
(* The symbols and fills of the ledgers, action by action. *)

(* Steps that stage nothing new. *)
LEMMA LKeeps ==
  ASSUME PInv, LedgersSound,
         \/ \E c \in Creations : AddBookUncertain(c)
         \/ \E u \in Users, cents \in DepositSizes : Deposit(u, cents)
         \/ \E b \in Batches : Place(b)
         \/ \E id \in OrderIds : Cancel(id)
         \/ \E m \in Markets, outcome \in Outcomes, u \in Users : ResolveFor(m, outcome, u)
         \/ AdmissionDone
         \/ \E k \in 1..Len(admitted) : EngineAccept(k)
         \/ \E e \in Engines : EngineMatch(e) \/ EngineFinish(e) \/ EngineRestart(e)
         \/ EngineDone \/ BookMissing \/ EngineError \/ Crash \/ Stop
         \/ FillsDone
         \/ \E id \in todo : RemoveRejected(id) \/ RecoverNext(id)
         \/ RecoverDone
         \/ UNCHANGED vars
  PROVE  LedgersSound'
<1>1. mem' = mem /\ disk' = disk
  BY DEF AddBookUncertain, Deposit, Place, Cancel, ResolveFor, AdmissionDone, EngineAccept,
         EngineMatch, EngineFinish, EngineRestart, EngineDone, BookMissing, EngineError, Crash,
         Stop, FillsDone, RemoveRejected, RecoverNext, RecoverDone, service, vars
<1>2. CASE \E u \in Users, cents \in DepositSizes : Deposit(u, cents)
  <2>1. PICK u \in Users, cents \in DepositSizes : Deposit(u, cents)
    BY <1>2
  <2>2. change' = BalanceEvent(change, u, cents)
    BY <2>1 DEF Deposit
  <2>3. cents \in Int /\ change \in LedgerType
    BY ConstantsAssumption DEF PInv, SInv, IInv, TypeOK
  <2>4. change'.markets = change.markets /\ change'.orders = change.orders
    BY <2>2, <2>3, BalanceEventLedger
  <2>. QED  BY <1>1, <2>4, LedgersKept
<1>3. CASE ~ \E u \in Users, cents \in DepositSizes : Deposit(u, cents)
  <2>1. change' = change \/ change' = Empty
    BY <1>3 DEF AddBookUncertain, Place, Cancel, ResolveFor, AdmissionDone, EngineAccept,
         EngineMatch, EngineFinish, EngineRestart, EngineDone, BookMissing, EngineError, Crash,
         Stop, FillsDone, RemoveRejected, RecoverNext, RecoverDone, scratch, vars,
         Fail, Return, Exit, ScratchCleared
  <2>. QED  BY <1>1, <2>1, LedgersKept
<1>. QED  BY <1>2, <1>3

LEMMA LCreateMarketFor ==
  ASSUME PInv, LedgersSound, NEW c \in Creations, CreateMarketFor(c)
  PROVE  LedgersSound'
<1>. DEFINE market == [symbol |-> c.symbol, owner |-> c.owner, status |-> "open"]
<1>1. c.id \in Markets /\ market \in Market
  BY ConstantsAssumption DEF Market, MarketStatuses
<1>2. change \in LedgerType /\ mem \in LedgerType
  BY DEF PInv, SInv, IInv, TypeOK
<1>3. mem' = mem /\ disk' = disk /\ change' = MarketEvent(change, c.id, market)
  BY DEF CreateMarketFor, service
<1>4. /\ \A id \in OrderIds : change.orders[id] = NoOrder
      /\ \A m \in Markets : change.markets[m] = NoMarket
  BY SAtRest DEF CreateMarketFor, PInv
<1>5. market.symbol = c.symbol
  OBVIOUS
<1>. HIDE DEF market
<1>6. /\ change' \in LedgerType /\ change'.orders = change.orders
      /\ change'.markets = [change.markets EXCEPT ![c.id] = market]
  BY <1>1, <1>2, <1>3, MarketEventLedger
<1>7. OrdersGood(change')
  BY <1>4, <1>6 DEF OrdersGood
<1>8. SymbolsOwn(Apply(mem, change').markets)
  <2>. DEFINE f == Apply(mem, change').markets
  <2>1. \A m \in Markets : f[m] = IF m = c.id THEN market ELSE mem.markets[m]
    BY <1>1, <1>2, <1>4, <1>6, ApplyLedger, ConstantsAssumption DEF LedgerType
  <2>2. \A m \in Markets : mem.markets[m] # NoMarket => mem.markets[m].symbol # c.symbol
    BY DEF CreateMarketFor, NewMarket
  <2>. HIDE DEF f
  <2>3. SymbolsOwn(f)
    BY <1>5, <2>1, <2>2 DEF LedgersSound, SymbolsOwn
  <2>. QED  BY <2>3 DEF f
<1>. QED  BY <1>3, <1>6, <1>7, <1>8, LedgersStage

(* An order that is staged with no more fills than it asks for, and fewer
   while it is active. *)
LEMMA StagedGood ==
  ASSUME OrdersGood(change), change \in LedgerType, NEW id \in OrderIds, NEW o, NEW c,
         o # NoOrder => o.filled <= o.qty /\ (Active(o) => o.filled < o.qty),
         c.orders = [change.orders EXCEPT ![id] = o]
  PROVE  OrdersGood(c)
<1>1. \A i \in OrderIds : c.orders[i] = IF i = id THEN o ELSE change.orders[i]
  BY DEF LedgerType
<1>. QED  BY <1>1 DEF OrdersGood

LEMMA LAdmitNext ==
  ASSUME PInv, PInv', LedgersSound, AdmitNext
  PROVE  LedgersSound'
<1>. DEFINE r == reqs[cur]
            o == AdmittedOrder(r)
            d == ReserveEvents(change, r.id, o)
<1>1. mem' = mem /\ disk' = disk
  BY DEF AdmitNext, service
<1>2. r \in Requests /\ r \in Request
  BY ConstantsAssumption DEF AdmitNext, PInv, SInv, IInv, TypeOK
<1>3. CASE change' = change
  BY <1>1, <1>3, LedgersKept
<1>4. CASE change' # change
  <2>1. Admissible(r) /\ change' = [d EXCEPT !.sequence = @ + 1]
    BY <1>4 DEF AdmitNext
  <2>2. r.id \in OrderIds
    BY <1>2 DEF Request
  <2>3. AdmissionSequence \in Nat
    <3>1. mem.sequence \in Nat /\ Len(admitted) \in Nat
      <4>1. mem \in LedgerType /\ admitted \in Seq(OrderIds)
        BY DEF PInv, SInv, IInv, TypeOK
      <4>. QED  BY <4>1 DEF LedgerType
    <3>. QED  BY <3>1 DEF AdmissionSequence
  <2>4. o \in Order /\ o.filled = 0 /\ o.qty = r.qty
    BY <1>2, <2>3 DEF AdmittedOrder, Order, Request, OrderStatuses, ActiveStatuses
  <2>. HIDE DEF o
  <2>5. change \in LedgerType /\ change' \in LedgerType /\ mem \in LedgerType
    BY DEF PInv, SInv, IInv, TypeOK
  <2>6. d \in LedgerType /\ d.orders = [change.orders EXCEPT ![r.id] = o] /\ d.markets = change.markets
    BY <2>2, <2>4, <2>5, ReserveLedger
  <2>. HIDE DEF d
  <2>7. change'.orders = [change.orders EXCEPT ![r.id] = o] /\ change'.markets = change.markets
    BY <2>1, <2>6 DEF LedgerType
  <2>8. r.qty \in Nat /\ r.qty > 0
    BY <1>2, <2>1 DEF Admissible, Request
  <2>9. OrdersGood(change')
    BY <2>2, <2>4, <2>5, <2>7, <2>8, StagedGood DEF LedgersSound
  <2>10. SymbolsOwn(Apply(mem, change').markets)
    BY <2>7, SymbolsStaged DEF LedgersSound
  <2>. QED  BY <1>1, <2>5, <2>9, <2>10, LedgersStage
<1>. QED  BY <1>3, <1>4

(* A StageOrder step stages the order as memory has it, under its new id. *)
LEMMA StageOrderStages ==
  ASSUME PInv, StageOrder
  PROVE  /\ cur \in 1..Len(admitted) /\ admitted[cur] \in OrderIds
         /\ mem.orders[admitted[cur]] \in Order /\ Active(mem.orders[admitted[cur]])
         /\ results[cur] \in Result
         /\ change'.markets = change.markets
         /\ \E o \in Order :
              /\ change'.orders = [change.orders EXCEPT ![admitted[cur]] = o]
              /\ o = [mem.orders[admitted[cur]] EXCEPT !.eid = results[cur].eid,
                        !.status = IF mem.orders[admitted[cur]].filled > 0 THEN "partial" ELSE "open"]
<1>1. cur \in 1..Len(admitted) /\ Submitted /\ cur \in DOMAIN results /\ change \in LedgerType
  BY DEF StageOrder, PInv, SInv, IInv, TypeOK, Control, Submitted, Answered
<1>2. admitted[cur] \in OrderIds /\ mem.orders[admitted[cur]] \in Order /\ Active(mem.orders[admitted[cur]])
  BY <1>1, GivenKnown
<1>3. results[cur] \in Result
  BY <1>1 DEF PInv, SInv, IInv, TypeOK
<1>. DEFINE m == mem.orders[admitted[cur]]
            st == IF m.filled > 0 THEN "partial" ELSE "open"
            o == [m EXCEPT !.eid = results[cur].eid, !.status = st]
<1>4. o \in Order
  <2>1. st \in OrderStatuses /\ results[cur].eid \in Nat /\ m \in Order
    BY <1>2, <1>3 DEF OrderStatuses, ActiveStatuses, Result
  <2>. HIDE DEF m, st
  <2>. QED  BY <2>1 DEF Order
<1>5. change' = OrderEvent(change, admitted[cur], o, 0)
  BY DEF StageOrder
<1>6. /\ change'.orders = [change.orders EXCEPT ![admitted[cur]] = o]
      /\ change'.markets = change.markets
  <2>. HIDE DEF o
  <2>. QED  BY <1>1, <1>2, <1>4, <1>5, OrderEventLedger
<1>. QED  BY <1>1, <1>2, <1>3, <1>4, <1>6

LEMMA LStageOrder ==
  ASSUME PInv, PInv', LedgersSound, StageOrder
  PROVE  LedgersSound'
<1>1. mem' = mem /\ disk' = disk /\ change' \in LedgerType /\ change \in LedgerType
  BY DEF StageOrder, service, PInv, SInv, IInv, TypeOK
<1>2. PICK o \in Order :
        /\ change'.orders = [change.orders EXCEPT ![admitted[cur]] = o]
        /\ o = [mem.orders[admitted[cur]] EXCEPT !.eid = results[cur].eid,
                  !.status = IF mem.orders[admitted[cur]].filled > 0 THEN "partial" ELSE "open"]
  BY StageOrderStages
<1>3. /\ admitted[cur] \in OrderIds /\ mem.orders[admitted[cur]] \in Order
      /\ Active(mem.orders[admitted[cur]]) /\ change'.markets = change.markets
  BY StageOrderStages
<1>4. o.filled < o.qty
  <2>1. mem.orders[admitted[cur]].filled < mem.orders[admitted[cur]].qty
    BY <1>3 DEF LedgersSound, OrdersGood, Active
  <2>2. o.filled = mem.orders[admitted[cur]].filled /\ o.qty = mem.orders[admitted[cur]].qty
    BY <1>2, <1>3 DEF Order
  <2>. QED  BY <2>1, <2>2
<1>5. OrdersGood(change')
  <2>1. o.filled \in Nat /\ o.qty \in Nat
    BY DEF Order
  <2>2. o.filled <= o.qty
    BY <1>4, <2>1
  <2>. QED  BY <1>1, <1>2, <1>3, <1>4, <2>2, StagedGood DEF LedgersSound
<1>6. SymbolsOwn(Apply(mem, change').markets)
  BY <1>3, SymbolsStaged DEF LedgersSound
<1>. QED  BY <1>1, <1>5, <1>6, LedgersStage

LEMMA LRemoveOrder ==
  ASSUME PInv, PInv', LedgersSound, NEW id \in todo, RemoveOrder(id)
  PROVE  LedgersSound'
<1>. DEFINE m == mem.orders[id]
            o == [m EXCEPT !.status = "cancelled"]
<1>1. mem' = mem /\ disk' = disk /\ change' \in LedgerType /\ change \in LedgerType
  BY DEF RemoveOrder, service, PInv, SInv, IInv, TypeOK
<1>2. id \in OrderIds /\ m \in Order /\ m # NoOrder
  <2>1. id \in OrderIds
    BY DEF PInv, SInv, IInv, TypeOK
  <2>2. OnBook(m)
    BY DEF RemoveOrder, PInv, SInv, IInv, Control
  <2>. QED  BY <2>1, <2>2 DEF OnBook, PInv, SInv, IInv, TypeOK, LedgerType
<1>3. change' = ReleaseEvents(change, id, m)
  BY DEF RemoveOrder
<1>4. m.filled <= m.qty
  BY <1>2 DEF LedgersSound, OrdersGood
<1>. HIDE DEF m
<1>5. /\ change'.orders = [change.orders EXCEPT ![id] = o] /\ change'.markets = change.markets
  BY <1>1, <1>2, <1>3, ReleaseLedger
<1>6. o.filled <= o.qty /\ ~Active(o)
  BY <1>2, <1>4 DEF Order, Active, ActiveStatuses
<1>. HIDE DEF o
<1>7. OrdersGood(change')
  BY <1>1, <1>2, <1>5, <1>6, StagedGood DEF LedgersSound
<1>8. SymbolsOwn(Apply(mem, change').markets)
  BY <1>5, SymbolsStaged DEF LedgersSound
<1>. QED  BY <1>1, <1>7, <1>8, LedgersStage

(* A settlement stages its market, under its own symbol. *)
LEMMA RemoveDoneStages ==
  ASSUME PInv, RemoveDone
  PROVE  /\ change'.orders = change.orders
         /\ \A m \in Markets : change'.markets[m] # NoMarket =>
              mem.markets[m] # NoMarket /\ change'.markets[m].symbol = mem.markets[m].symbol
<1>. DEFINE m == target.market
            status == IF target.outcome = "yes" THEN "resolved_yes" ELSE "resolved_no"
            market == [mem.markets[m] EXCEPT !.status = status]
            paid == PayoutEvents(change, mem, m, target.outcome)
<1>1. change \in LedgerType /\ mem \in LedgerType
  BY DEF PInv, SInv, IInv, TypeOK
<1>2. \A x \in Markets : change.markets[x] = NoMarket
  BY DEF RemoveDone, PInv, SInv, SettlementInv
<1>3. CASE op # "resolve"
  BY <1>2, <1>3 DEF RemoveDone
<1>4. CASE op = "resolve"
  <2>1. m \in Markets /\ mem.markets[m] # NoMarket /\ target.outcome \in Outcomes
    BY <1>4 DEF RemoveDone, PInv, SInv, IInv, TypeOK, Control
  <2>2. mem.markets[m] \in Market
    <3>. HIDE DEF m
    <3>. QED  BY <1>1, <2>1 DEF LedgerType
  <2>3. market \in Market /\ market.symbol = mem.markets[m].symbol
    <3>1. status \in MarketStatuses
      BY DEF MarketStatuses
    <3>. HIDE DEF status, m
    <3>. QED  BY <2>2, <3>1 DEF Market
  <2>4. paid \in LedgerType /\ paid.orders = change.orders /\ paid.markets = change.markets
    BY <1>1, <2>1, PayoutLedger
  <2>5. change' = MarketEvent(paid, m, market)
    BY <1>4 DEF RemoveDone
  <2>. HIDE DEF paid, market, m
  <2>6. change'.orders = change.orders /\ change'.markets = [change.markets EXCEPT ![m] = market]
    BY <2>1, <2>3, <2>4, <2>5, MarketEventLedger
  <2>7. \A x \in Markets : change'.markets[x] = IF x = m THEN market ELSE NoMarket
    BY <1>1, <1>2, <2>6 DEF LedgerType
  <2>. QED  BY <2>1, <2>3, <2>6, <2>7
<1>. QED  BY <1>3, <1>4

LEMMA LRemoveDone ==
  ASSUME PInv, PInv', LedgersSound, RemoveDone
  PROVE  LedgersSound'
<1>1. mem' = mem /\ disk' = disk /\ change' \in LedgerType /\ mem \in LedgerType
  BY DEF RemoveDone, service, PInv, SInv, IInv, TypeOK
<1>2. OrdersGood(change')
  BY RemoveDoneStages DEF LedgersSound, OrdersGood
<1>3. SymbolsOwn(Apply(mem, change').markets)
  <2>. DEFINE f == Apply(mem, change').markets
  <2>1. \A m \in Markets : f[m] = IF change'.markets[m] = NoMarket THEN mem.markets[m]
                                  ELSE change'.markets[m]
    BY <1>1, ApplyLedger
  <2>. HIDE DEF f
  <2>2. \A m \in Markets : f[m] # NoMarket =>
          mem.markets[m] # NoMarket /\ f[m].symbol = mem.markets[m].symbol
    BY <2>1, RemoveDoneStages
  <2>3. SymbolsOwn(f)
    BY <2>2 DEF LedgersSound, SymbolsOwn
  <2>. QED  BY <2>3 DEF f
<1>. QED  BY <1>1, <1>2, <1>3, LedgersStage

(* What a commit makes of the two ledgers. *)
LEMMA CommitGood ==
  ASSUME PInv, LedgersSound, pc = "commit"
  PROVE  /\ SymbolsOwn(Apply(mem, change).markets) /\ SymbolsOwn(Apply(disk, change).markets)
         /\ OrdersGood(Apply(mem, change)) /\ OrdersGood(Apply(disk, change))
<1>1. mem \in LedgerType /\ disk \in LedgerType /\ change \in LedgerType
  BY DEF PInv, SInv, IInv, TypeOK
<1>. DEFINE M == Apply(mem, change)
            D == Apply(disk, change)
<1>2. M.markets = D.markets
  BY SCommitLedgers DEF PInv
<1>3. \A id \in OrderIds :
        /\ M.orders[id] = IF change.orders[id] = NoOrder THEN mem.orders[id] ELSE change.orders[id]
        /\ D.orders[id] = IF change.orders[id] = NoOrder THEN disk.orders[id] ELSE change.orders[id]
  BY <1>1, ApplyLedger
<1>4. SymbolsOwn(M.markets)
  BY DEF LedgersSound
<1>. HIDE DEF M, D
<1>5. OrdersGood(M) /\ OrdersGood(D)
  BY <1>3 DEF LedgersSound, OrdersGood
<1>. QED  BY <1>2, <1>4, <1>5 DEF M, D

LEMMA LCommit ==
  ASSUME PInv, PInv', LedgersSound, Commit \/ CommitFails
  PROVE  LedgersSound'
<1>1. /\ pc = "commit" /\ change' = Empty
      /\ mem' = mem \/ mem' = Apply(mem, change)
      /\ disk' = disk \/ disk' = Apply(disk, change)
  BY DEF Commit, CommitFails, Logged, Return, Fail, Exit, ScratchCleared
<1>2. /\ SymbolsOwn(mem'.markets) /\ OrdersGood(mem')
      /\ SymbolsOwn(disk'.markets) /\ OrdersGood(disk')
  BY <1>1, CommitGood DEF LedgersSound
<1>3. OrdersGood(change')
  BY <1>1, EmptyLedger DEF OrdersGood
<1>4. SymbolsOwn(Apply(mem', change').markets)
  <2>. DEFINE f == Apply(mem', change').markets
  <2>1. \A m \in Markets : f[m] = mem'.markets[m]
    BY <1>1 DEF Apply, Empty
  <2>. HIDE DEF f
  <2>2. SymbolsOwn(f)
    BY <1>2, <2>1 DEF SymbolsOwn
  <2>. QED  BY <2>2 DEF f
<1>. QED  BY <1>2, <1>3, <1>4 DEF LedgersSound, SymbolsOwn, OrdersGood

(* A restart forgets engine ids, and nothing of markets and fills. *)
LEMMA StartMem ==
  ASSUME PInv, Start
  PROVE  /\ mem'.markets = disk.markets
         /\ \A id \in OrderIds : mem'.orders[id] = IF Active(disk.orders[id])
                                                   THEN [disk.orders[id] EXCEPT !.eid = 0]
                                                   ELSE disk.orders[id]
<1>1. disk \in LedgerType
  BY DEF PInv, SInv, IInv, TypeOK
<1>2. mem' = [disk EXCEPT !.orders =
              [id \in OrderIds |-> IF id \in RecoverableOrders(disk)
                                   THEN [disk.orders[id] EXCEPT !.eid = 0]
                                   ELSE disk.orders[id]]]
  BY DEF Start
<1>. QED  BY <1>1, <1>2 DEF LedgerType, RecoverableOrders

LEMMA LStart ==
  ASSUME PInv, LedgersSound, Start
  PROVE  LedgersSound'
<1>1. disk' = disk /\ change' = change /\ change = Empty
  BY DEF Start, PInv, SInv, IInv, Control
<1>2. \A m \in Markets : mem'.markets[m] = disk.markets[m] /\ Apply(mem', change').markets[m] = disk.markets[m]
  BY <1>1, StartMem DEF Apply, Empty
<1>3. SymbolsOwn(mem'.markets) /\ SymbolsOwn(Apply(mem', change').markets)
  <2>. DEFINE f == Apply(mem', change').markets
              g == mem'.markets
  <2>1. \A m \in Markets : f[m] = disk.markets[m] /\ g[m] = disk.markets[m]
    BY <1>2
  <2>. HIDE DEF f, g
  <2>2. SymbolsOwn(f) /\ SymbolsOwn(g)
    BY <2>1 DEF LedgersSound, SymbolsOwn
  <2>. QED  BY <2>2 DEF f, g
<1>4. OrdersGood(mem')
  <2>1. ASSUME NEW id \in OrderIds, mem'.orders[id] # NoOrder
        PROVE  /\ mem'.orders[id].filled <= mem'.orders[id].qty
               /\ Active(mem'.orders[id]) => mem'.orders[id].filled < mem'.orders[id].qty
    <3>1. CASE Active(disk.orders[id])
      <4>1. disk.orders[id] \in Order /\ disk.orders[id] # NoOrder
        BY <3>1 DEF PInv, SInv, IInv, TypeOK, LedgerType, Active
      <4>2. /\ mem'.orders[id].filled = disk.orders[id].filled
            /\ mem'.orders[id].qty = disk.orders[id].qty
        BY <3>1, <4>1, StartMem DEF Order
      <4>. QED  BY <3>1, <4>1, <4>2 DEF LedgersSound, OrdersGood
    <3>2. CASE ~Active(disk.orders[id])
      <4>1. mem'.orders[id] = disk.orders[id]
        BY <3>2, StartMem
      <4>. QED  BY <2>1, <4>1 DEF LedgersSound, OrdersGood
    <3>. QED  BY <3>1, <3>2
  <2>. QED  BY <2>1 DEF OrdersGood
<1>5. OrdersGood(change)' /\ OrdersGood(disk)' /\ SymbolsOwn(disk.markets)'
  BY <1>1 DEF LedgersSound, OrdersGood, SymbolsOwn
<1>. QED  BY <1>3, <1>4, <1>5 DEF LedgersSound, SymbolsOwn, OrdersGood

-----------------------------------------------------------------------------
(* The books, action by action: a symbol nobody uses has no order, and no book
   is crossed. *)

(* Steps that leave the books alone. *)
LEMMA BooksKept ==
  ASSUME PInv, BooksSound, books' = books, Running' => Running,
         Running' => \A m \in Markets : mem.markets[m] # NoMarket =>
           mem'.markets[m] # NoMarket /\ mem'.markets[m].symbol = mem.markets[m].symbol
  PROVE  BooksSound'
<1>1. BooksUncrossed'
  BY DEF BooksSound, BooksUncrossed
<1>2. EmptyBooks'
  <2>1. SUFFICES ASSUME Running', NEW s \in Symbols,
                        \A m \in Markets : mem'.markets[m] # NoMarket => mem'.markets[m].symbol # s
                 PROVE  books'[s] = {}
    BY DEF EmptyBooks
  <2>2. \A m \in Markets : mem.markets[m] # NoMarket => mem.markets[m].symbol # s
    BY <2>1
  <2>. QED  BY <2>1, <2>2 DEF BooksSound, EmptyBooks
<1>. QED  BY <1>1, <1>2 DEF BooksSound

(* Books that lose orders or have them reduced. *)
LEMMA BooksShrink ==
  ASSUME PInv, BooksSound, Running' => Running, mem' = mem,
         \A s \in Symbols : \A o \in books'[s] :
           \E w \in books[s] : w.side = o.side /\ w.price = o.price
  PROVE  BooksSound'
<1>1. BooksUncrossed'
  <2>1. ASSUME NEW s \in Symbols, NEW b \in books'[s], NEW a \in books'[s],
               b.side = "buy", a.side = "sell"
        PROVE  b.price < a.price
    <3>1. PICK w \in books[s] : w.side = b.side /\ w.price = b.price
      OBVIOUS
    <3>2. PICK v \in books[s] : v.side = a.side /\ v.price = a.price
      OBVIOUS
    <3>3. w.price < v.price
      BY <2>1, <3>1, <3>2 DEF BooksSound, BooksUncrossed, Uncrossed
    <3>. QED  BY <3>1, <3>2, <3>3
  <2>. QED  BY <2>1 DEF BooksUncrossed, Uncrossed
<1>2. EmptyBooks'
  <2>1. SUFFICES ASSUME Running', NEW s \in Symbols,
                        \A m \in Markets : mem'.markets[m] # NoMarket => mem'.markets[m].symbol # s
                 PROVE  books'[s] = {}
    BY DEF EmptyBooks
  <2>2. books[s] = {}
    BY <2>1 DEF BooksSound, EmptyBooks
  <2>. QED  BY <2>2
<1>. QED  BY <1>1, <1>2 DEF BooksSound

(* Steps outside the engines that keep the books. *)
LEMMA BKeeps ==
  ASSUME PInv, PInv', BooksSound,
         \/ \E c \in Creations : CreateMarketFor(c) \/ AddBookUncertain(c)
         \/ \E u \in Users, cents \in DepositSizes : Deposit(u, cents)
         \/ \E b \in Batches : Place(b)
         \/ \E id \in OrderIds : Cancel(id)
         \/ \E m \in Markets, outcome \in Outcomes, u \in Users : ResolveFor(m, outcome, u)
         \/ AdmitNext \/ AdmissionDone
         \/ \E k \in 1..Len(admitted) : EngineAccept(k)
         \/ EngineDone \/ BookMissing \/ EngineError \/ Crash \/ Stop
         \/ StageOrder \/ StageFill \/ FillsDone \/ RemoveDone
         \/ \E id \in todo : RemoveRejected(id) \/ RecoverNext(id)
         \/ RecoverDone \/ CommitFails
         \/ UNCHANGED vars
  PROVE  BooksSound'
<1>1. mem' = mem /\ books' = books
  BY DEF CreateMarketFor, AddBookUncertain, Deposit, Place, Cancel, ResolveFor, AdmitNext, AdmissionDone,
         EngineAccept, EngineDone, BookMissing, EngineError, Crash, Stop, StageOrder, StageFill,
         FillsDone, RemoveDone, RemoveRejected, RecoverNext, RecoverDone, CommitFails,
         service, engine, vars
<1>2. Running' => Running
  BY DEF CreateMarketFor, AddBookUncertain, Deposit, Place, Cancel, ResolveFor, AdmitNext, AdmissionDone,
         EngineAccept, EngineDone, BookMissing, EngineError, Crash, Stop, StageOrder, StageFill,
         FillsDone, RemoveDone, RemoveRejected, RecoverNext, RecoverDone, CommitFails,
         service, control, vars, Running, Ready, Fail, Exit, Return
<1>. QED  BY <1>1, <1>2, BooksKept

LEMMA BCommit ==
  ASSUME PInv, PInv', BooksSound, Commit
  PROVE  BooksSound'
<1>1. books' = books /\ failed' = failed /\ pc = "commit" /\ mem' = Apply(mem, change)
  BY DEF Commit
<1>2. Running' => Running
  BY <1>1 DEF Running
<1>3. ASSUME NEW m \in Markets, mem.markets[m] # NoMarket
      PROVE  mem'.markets[m] # NoMarket /\ mem'.markets[m].symbol = mem.markets[m].symbol
  <2>1. mem \in LedgerType /\ change \in LedgerType
    BY DEF PInv, SInv, IInv, TypeOK
  <2>2. mem'.markets[m] = IF change.markets[m] = NoMarket THEN mem.markets[m] ELSE change.markets[m]
    BY <1>1, <2>1, ApplyLedger
  <2>. QED  BY <1>3, <2>2 DEF PInv, StagedSymbols
<1>. QED  BY <1>1, <1>2, <1>3, BooksKept

LEMMA BRemoveOrder ==
  ASSUME PInv, BooksSound, NEW id \in todo, RemoveOrder(id)
  PROVE  BooksSound'
<1>1. mem' = mem /\ pc' = pc /\ failed' = failed
      /\ books' = [books EXCEPT ![SymbolOf(id)] = @ \ OnEngine(id)]
  BY DEF RemoveOrder, service, control
<1>2. \A s \in Symbols : books'[s] \subseteq books[s]
  BY <1>1 DEF PInv, SInv, IInv, TypeOK
<1>3. Running' => Running
  BY <1>1 DEF Running
<1>. QED  BY <1>1, <1>2, <1>3, BooksShrink

LEMMA BEngineRestart ==
  ASSUME PInv, BooksSound, NEW e \in Engines, EngineRestart(e)
  PROVE  BooksSound'
<1>1. mem' = mem /\ pc' = pc /\ failed' = failed
      /\ books' = [s \in Symbols |-> IF Partition[s] = e THEN {} ELSE books[s]]
  BY DEF EngineRestart, service, control
<1>2. \A s \in Symbols : books'[s] \subseteq books[s]
  BY <1>1
<1>3. Running' => Running
  BY <1>1 DEF Running
<1>. QED  BY <1>1, <1>2, <1>3, BooksShrink

LEMMA BStart ==
  ASSUME Start
  PROVE  BooksSound'
BY DEF Start, BooksSound, EmptyBooks, BooksUncrossed, Uncrossed

(* The order an engine is matching is a known order of a listed market. *)
LEMMA TakerKnown ==
  ASSUME PInv, NEW e \in Engines, taker[e] # NoTaker
  PROVE  /\ pc = "engine" /\ Submitted /\ AwaitingIds
         /\ taker[e] \in Taker
         /\ taker[e].k \in 1..Len(admitted) /\ taker[e].k \notin DOMAIN results
         /\ EngineOf(taker[e].k) = e
         /\ admitted[taker[e].k] \in OrderIds /\ TakerOrder(e) \in Order /\ Active(TakerOrder(e))
         /\ TakerOrder(e).market \in Markets
         /\ mem.markets[TakerOrder(e).market] # NoMarket
         /\ TakerSymbol(e) = mem.markets[TakerOrder(e).market].symbol
         /\ TakerSymbol(e) \in Symbols /\ TakerSymbol(e) \in listed
         /\ books[TakerSymbol(e)] \subseteq Resting
         /\ TakerSide(e) \in EngineSides /\ TakerLimit(e) \in Nat
         /\ taker[e].eid # 0
<1>1. pc = "engine" /\ taker[e].k \in 1..Len(admitted) /\ EngineOf(taker[e].k) = e
      /\ taker[e].k \notin DOMAIN results
  BY DEF PInv, SInv, IInv, Control
<1>2. Submitted /\ AwaitingIds
  BY <1>1 DEF Submitted, AwaitingIds
<1>3. taker[e] \in Taker
  BY DEF PInv, SInv, IInv, TypeOK
<1>. DEFINE k == taker[e].k
<1>4. /\ admitted[k] \in OrderIds
      /\ mem.orders[admitted[k]] \in Order
      /\ mem.orders[admitted[k]] # NoOrder
      /\ Active(mem.orders[admitted[k]])
      /\ mem.orders[admitted[k]].market \in Markets
      /\ mem.markets[mem.orders[admitted[k]].market] # NoMarket
      /\ SymbolOf(admitted[k]) \in Symbols
  BY <1>1, <1>2, GivenKnown
<1>5. SymbolOf(admitted[k]) \in listed /\ taker[e].eid # 0
  BY DEF PInv, TakersInOrder, FreshId
<1>6. books[SymbolOf(admitted[k])] \subseteq Resting
  BY <1>4 DEF PInv, SInv, IInv, TypeOK
<1>7. TakerSide(e) \in EngineSides
  BY DEF TakerSide, EngineSide, EngineSides
<1>8. TakerLimit(e) \in Nat
  <2>1. mem.orders[admitted[k]].price \in 1..99
    BY <1>4 DEF PInv, SInv, IInv, PricesValid
  <2>2. TakerLimit(e) = EnginePrice(mem.orders[admitted[k]].side, mem.orders[admitted[k]].price)
    BY DEF TakerLimit, TakerOrder
  <2>. QED  BY <2>1, <2>2 DEF EnginePrice
<1>. QED  BY <1>1, <1>2, <1>3, <1>4, <1>5, <1>6, <1>7, <1>8 DEF TakerOrder, TakerSymbol, SymbolOf

(* What a Take leaves of a book. *)
LEMMA TakeBook ==
  ASSUME NEW book, book \subseteq Resting, NEW maker \in book, NEW q
  PROVE  \A o \in Take(book, maker, q) : \E w \in book : w.side = o.side /\ w.price = o.price
<1>1. maker \in Resting
  OBVIOUS
<1>2. ASSUME NEW o \in Take(book, maker, q), o \notin book
      PROVE  o.side = maker.side /\ o.price = maker.price
  <2>1. o = [maker EXCEPT !.qty = @ - q]
    BY <1>2 DEF Take
  <2>. QED  BY <1>1, <2>1 DEF Resting
<1>. QED  BY <1>2

LEMMA BEngineMatch ==
  ASSUME PInv, BooksSound, NEW e \in Engines, EngineMatch(e)
  PROVE  BooksSound'
<1>. DEFINE s == TakerSymbol(e)
<1>1. mem' = mem /\ pc' = pc /\ failed' = failed /\ taker[e] # NoTaker
  BY DEF EngineMatch, service, control
<1>2. PICK maker \in books[s] :
        \E q : books' = [books EXCEPT ![s] = Take(@, maker, q)]
  BY DEF EngineMatch
<1>3. PICK q : books' = [books EXCEPT ![s] = Take(@, maker, q)]
  BY <1>2
<1>4. s \in Symbols /\ books[s] \subseteq Resting /\ books \in [Symbols -> SUBSET Resting]
  BY <1>1, TakerKnown DEF PInv, SInv, IInv, TypeOK
<1>. HIDE DEF s
<1>5. \A x \in Symbols : books'[x] = IF x = s THEN Take(books[s], maker, q) ELSE books[x]
  BY <1>3, <1>4
<1>6. \A x \in Symbols : \A o \in books'[x] :
        \E w \in books[x] : w.side = o.side /\ w.price = o.price
  BY <1>4, <1>5, TakeBook
<1>7. Running' => Running
  BY <1>1 DEF Running
<1>. QED  BY <1>1, <1>6, <1>7, BooksShrink

(* What rests after the loop does not cross what it did not trade with. *)
LEMMA BEngineFinish ==
  ASSUME PInv, BooksSound, NEW e \in Engines, EngineFinish(e)
  PROVE  BooksSound'
<1>. DEFINE s == TakerSymbol(e)
            rest == [eid |-> taker[e].eid, side |-> TakerSide(e), price |-> TakerLimit(e),
                     qty |-> taker[e].left]
<1>1. mem' = mem /\ pc' = pc /\ failed' = failed /\ taker[e] # NoTaker
  BY DEF EngineFinish, service, control
<1>2. /\ books' = [books EXCEPT ![s] = IF taker[e].left > 0 THEN @ \cup {rest} ELSE @]
      /\ ~MoreToTrade(e)
  BY DEF EngineFinish
<1>3. /\ s \in Symbols /\ books[s] \subseteq Resting /\ books \in [Symbols -> SUBSET Resting]
      /\ mem.markets[TakerOrder(e).market] # NoMarket
      /\ s = mem.markets[TakerOrder(e).market].symbol /\ TakerOrder(e).market \in Markets
      /\ TakerSide(e) \in EngineSides /\ TakerLimit(e) \in Nat
  BY <1>1, TakerKnown DEF PInv, SInv, IInv, TypeOK
<1>4. \A x \in Symbols : books'[x] = IF x = s /\ taker[e].left > 0 THEN books[s] \cup {rest}
                                     ELSE books[x]
  <2>. HIDE DEF s, rest
  <2>. QED  BY <1>2, <1>3
<1>5. taker[e].left > 0 => \A o \in books[s] : o.side # TakerSide(e) =>
        ~Crosses(TakerSide(e), TakerLimit(e), o)
  BY <1>2 DEF MoreToTrade, CanTrade, Opposite
<1>6. rest.side = TakerSide(e) /\ rest.price = TakerLimit(e)
  OBVIOUS
<1>7. \A x \in Symbols : Uncrossed(books[x])
  BY DEF BooksSound, BooksUncrossed
<1>. HIDE DEF s, rest
<1>8. taker[e].left > 0 => Uncrossed(books[s] \cup {rest})
  <2>1. ASSUME taker[e].left > 0, NEW b \in books[s] \cup {rest}, NEW a \in books[s] \cup {rest},
               b.side = "buy", a.side = "sell"
        PROVE  b.price < a.price
    <3>1. \A o \in books[s] : o.price \in Nat /\ o.side \in EngineSides
      BY <1>3 DEF Resting
    <3>2. CASE b \in books[s] /\ a \in books[s]
      BY <1>3, <1>7, <2>1, <3>2 DEF Uncrossed
    <3>3. CASE b = rest /\ a \in books[s]
      BY <1>3, <1>5, <1>6, <2>1, <3>1, <3>3 DEF Crosses
    <3>4. CASE b \in books[s] /\ a = rest
      BY <1>3, <1>5, <1>6, <2>1, <3>1, <3>4 DEF Crosses
    <3>. QED  BY <2>1, <3>2, <3>3, <3>4
  <2>. QED  BY <2>1 DEF Uncrossed
<1>9. BooksUncrossed'
  BY <1>4, <1>7, <1>8 DEF BooksUncrossed
<1>10. EmptyBooks'
  <2>1. SUFFICES ASSUME Running', NEW x \in Symbols,
                        \A m \in Markets : mem'.markets[m] # NoMarket => mem'.markets[m].symbol # x
                 PROVE  books'[x] = {}
    BY DEF EmptyBooks
  <2>2. Running
    BY <1>1, <2>1 DEF Running
  <2>3. x # s
    BY <1>1, <1>3, <2>1
  <2>. QED  BY <1>1, <1>4, <2>1, <2>2, <2>3 DEF BooksSound, EmptyBooks
<1>. QED  BY <1>9, <1>10 DEF BooksSound

-----------------------------------------------------------------------------
(* What is in flight, action by action.  First the steps with no order in an
   engine's hands. *)
LEMMA QuietStep ==
  ASSUME PInv, PInv', FlightSound, ~Submitted, ~Submitted', ~AwaitingIds, ~AwaitingIds',
         mem' = mem, books' = books, Running' => Running, OneMarket',
         \A m \in Markets : MarketOpen(m) =>
           (mem.markets[m].symbol \in listed' <=> mem.markets[m].symbol \in listed),
         \A id \in ActiveOrders(mem) : Unfilled(Staged(id))' = Unfilled(Staged(id))
  PROVE  FlightSound'
<1>1. /\ Pending = {} /\ Matching = {} /\ Pending' = {} /\ Matching' = {} /\ TakerLeft'
      /\ DistinctTrades' /\ TradesKnown' /\ Drained' /\ Unstaged'
  BY QuietState, QuietNext
<1>2. \A id \in ActiveOrders(mem) : Eid(id)' = Eid(id)
  BY DEF Eid
<1>3. Live' = Live
  BY <1>2, LiveKept
<1>4. Served' = Served /\ BookOf' = BookOf
  BY ServedKept
<1>5. FlightInv'
  BY <1>1, <1>3, <1>4, FlightKept DEF FlightSound
<1>. QED  BY <1>1, <1>5 DEF FlightSound, FlightStaged

(* A new market has a symbol no open market has. *)
LEMMA NewSymbol ==
  ASSUME NEW c, NewMarket(c), listed' = listed \cup {c.symbol}, NEW m \in Markets, MarketOpen(m)
  PROVE  mem.markets[m].symbol \in listed' <=> mem.markets[m].symbol \in listed
BY DEF NewMarket, MarketOpen

LEMMA FBegins ==
  ASSUME PInv, PInv', FlightSound,
         \/ \E c \in Creations : CreateMarketFor(c) \/ AddBookUncertain(c)
         \/ \E u \in Users, cents \in DepositSizes : Deposit(u, cents)
         \/ \E b \in Batches : Place(b)
         \/ \E id \in OrderIds : Cancel(id)
         \/ \E m \in Markets, outcome \in Outcomes, u \in Users : ResolveFor(m, outcome, u)
  PROVE  FlightSound'
<1>1. Ready /\ mem' = mem /\ books' = books /\ failed' = failed
  BY DEF CreateMarketFor, AddBookUncertain, Deposit, Place, Cancel, ResolveFor, service, engine
<1>2. Running
  BY <1>1 DEF Ready, Running
<1>3. change = Empty /\ op = "none"
  BY <1>1, SAtRest DEF PInv
<1>4. ~Submitted /\ ~AwaitingIds
  BY <1>1, <1>3 DEF Ready, Submitted, AwaitingIds
<1>5. ~Submitted' /\ ~AwaitingIds'
  BY <1>1, <1>3 DEF CreateMarketFor, AddBookUncertain, Deposit, Place, Cancel, ResolveFor, control,
                    Ready, Submitted, AwaitingIds
<1>6. change'.orders = change.orders
  <2>1. change \in LedgerType
    BY DEF PInv, SInv, IInv, TypeOK
  <2>2. ASSUME NEW c \in Creations, CreateMarketFor(c) PROVE change'.orders = change.orders
    <3>1. [symbol |-> c.symbol, owner |-> c.owner, status |-> "open"] \in Market /\ c.id \in Markets
      BY ConstantsAssumption DEF Market, MarketStatuses
    <3>. QED  BY <2>1, <2>2, <3>1, MarketEventLedger DEF CreateMarketFor
  <2>3. ASSUME NEW u \in Users, NEW cents \in DepositSizes, Deposit(u, cents)
        PROVE  change'.orders = change.orders
    <3>1. cents \in Int
      BY ConstantsAssumption
    <3>. QED  BY <2>1, <2>3, <3>1, BalanceEventLedger DEF Deposit
  <2>. QED  BY <2>2, <2>3 DEF AddBookUncertain, Place, Cancel, ResolveFor, scratch
<1>7. \A id \in ActiveOrders(mem) : Unfilled(Staged(id))' = Unfilled(Staged(id))
  BY <1>1, <1>6 DEF Unfilled, Staged
<1>8. \A m \in Markets : MarketOpen(m) =>
        (mem.markets[m].symbol \in listed' <=> mem.markets[m].symbol \in listed)
  BY NewSymbol DEF CreateMarketFor, AddBookUncertain, Deposit, Place, Cancel, ResolveFor, engine
<1>9. OneMarket'
  <2>1. \A id \in OrderIds : change.orders[id] = NoOrder
    BY <1>3, EmptyLedger
  <2>2. CASE \E id \in OrderIds : Cancel(id)
    <3>1. PICK id \in OrderIds : todo' = {id}
      BY <2>2 DEF Cancel
    <3>. QED  BY <1>1, <1>6, <2>1, <3>1 DEF OneMarket
  <2>3. CASE \E m \in Markets, outcome \in Outcomes, u \in Users : ResolveFor(m, outcome, u)
    <3>1. PICK m \in Markets : todo' = {id \in OrderIds : OnBook(mem.orders[id]) /\ mem.orders[id].market = m}
      BY <2>3 DEF ResolveFor
    <3>. QED  BY <1>1, <1>6, <2>1, <3>1 DEF OneMarket
  <2>4. CASE pc' # "remove"
    BY <2>4 DEF OneMarket
  <2>5. pc' = "remove" => \/ \E id \in OrderIds : Cancel(id)
                          \/ \E m \in Markets, outcome \in Outcomes, u \in Users : ResolveFor(m, outcome, u)
    BY <1>1 DEF CreateMarketFor, AddBookUncertain, Deposit, Place, control, Ready
  <2>. QED  BY <2>2, <2>3, <2>4, <2>5
<1>. QED  BY <1>1, <1>2, <1>4, <1>5, <1>7, <1>8, <1>9, QuietStep

LEMMA FAdmitNext ==
  ASSUME PInv, PInv', FlightSound, AdmitNext
  PROVE  FlightSound'
<1>1. /\ mem' = mem /\ books' = books /\ failed' = failed /\ pc' = pc /\ pc = "admit"
      /\ listed' = listed /\ op' = op /\ after' = after
  BY DEF AdmitNext, service, engine, control
<1>2. ~Submitted /\ ~Submitted' /\ ~AwaitingIds /\ ~AwaitingIds' /\ OneMarket' /\ (Running' => Running)
  BY <1>1 DEF Submitted, AwaitingIds, OneMarket, Running
<1>3. ASSUME NEW id \in ActiveOrders(mem)
      PROVE  Unfilled(Staged(id))' = Unfilled(Staged(id))
  <2>1. id \in OrderIds /\ mem.orders[id] # NoOrder
    BY DEF ActiveOrders, Active
  <2>2. change.orders[id] = NoOrder /\ change'.orders[id] = NoOrder
    <3>1. Reserving /\ Reserving'
      BY <1>1 DEF Reserving
    <3>2. ASSUME change.orders[id] # NoOrder PROVE FALSE
      <4>1. change.orders[id].status # "pending"
        BY <2>1, <3>2 DEF PInv, SInv, IInv, StagedFaithful
      <4>2. PICK k \in 1..Len(admitted) : admitted[k] = id
        BY <2>1, <3>1, <3>2 DEF PInv, SInv, IInv, Control
      <4>. QED  BY <3>1, <4>1, <4>2 DEF PInv, SInv, InEngineActive
    <3>3. ASSUME change'.orders[id] # NoOrder PROVE FALSE
      <4>1. change'.orders[id].status # "pending"
        BY <1>1, <2>1, <3>3 DEF PInv, SInv, IInv, StagedFaithful
      <4>2. PICK k \in 1..Len(admitted') : admitted'[k] = id
        BY <2>1, <3>1, <3>3 DEF PInv, SInv, IInv, Control
      <4>. QED  BY <3>1, <4>1, <4>2 DEF PInv, SInv, InEngineActive
    <3>. QED  BY <3>2, <3>3
  <2>. QED  BY <1>1, <2>2 DEF Unfilled, Staged
<1>. QED  BY <1>1, <1>2, <1>3, QuietStep

LEMMA FAdmissionDone ==
  ASSUME PInv, PInv', FlightSound, AdmissionDone
  PROVE  FlightSound'
<1>1. /\ mem' = mem /\ books' = books /\ failed' = failed /\ pc = "admit" /\ listed' = listed
      /\ op = "place"
  BY DEF AdmissionDone, service, PInv, SInv, IInv, Control
<1>2. ~Submitted /\ ~AwaitingIds /\ (Running' => Running)
  BY <1>1 DEF Submitted, AwaitingIds, Running
<1>3. ~Submitted' /\ ~AwaitingIds' /\ OneMarket'
  BY <1>1 DEF AdmissionDone, Return, Submitted, AwaitingIds, OneMarket
<1>4. \A id \in OrderIds : change'.orders[id] = change.orders[id]
  <2>1. CASE admitted = <<>>
    <3>1. change' = Empty
      BY <2>1 DEF AdmissionDone, Return, ScratchCleared
    <3>2. \A id \in OrderIds : change.orders[id] = NoOrder
      BY <1>1, <2>1 DEF PInv, SInv, IInv, Control, Reserving
    <3>. QED  BY <3>1, <3>2, EmptyLedger
  <2>2. CASE admitted # <<>>
    BY <2>2 DEF AdmissionDone, scratch
  <2>. QED  BY <2>1, <2>2
<1>5. \A id \in ActiveOrders(mem) : Unfilled(Staged(id))' = Unfilled(Staged(id))
  BY <1>1, <1>4 DEF Unfilled, Staged, ActiveOrders
<1>. QED  BY <1>1, <1>2, <1>3, <1>5, QuietStep

LEMMA FRemoveDone ==
  ASSUME PInv, PInv', FlightSound, RemoveDone
  PROVE  FlightSound'
<1>1. /\ mem' = mem /\ books' = books /\ failed' = failed /\ pc = "remove" /\ listed' = listed
      /\ op \in {"cancel", "resolve"} /\ op' = op /\ pc' = "commit" /\ after' = "return"
  BY DEF RemoveDone, service, engine, PInv, SInv, IInv, Control
<1>2. ~Submitted /\ ~AwaitingIds /\ (Running' => Running) /\ ~Submitted' /\ ~AwaitingIds' /\ OneMarket'
  BY <1>1 DEF Submitted, AwaitingIds, Running, OneMarket
<1>3. \A id \in ActiveOrders(mem) : Unfilled(Staged(id))' = Unfilled(Staged(id))
  BY <1>1, RemoveDoneStages DEF Unfilled, Staged
<1>. QED  BY <1>1, <1>2, <1>3, QuietStep

LEMMA FRecoverDone ==
  ASSUME PInv, PInv', FlightSound, RecoverDone
  PROVE  FlightSound'
<1>1. /\ mem' = mem /\ books' = books /\ failed' = failed /\ pc = "recover" /\ listed' = listed
      /\ op = "recover" /\ op' = "none" /\ pc' = "idle" /\ change = Empty /\ change' = Empty
  BY DEF RecoverDone, service, Return, ScratchCleared, PInv, SInv, IInv, Control
<1>2. ~Submitted /\ ~AwaitingIds /\ (Running' => Running) /\ ~Submitted' /\ ~AwaitingIds' /\ OneMarket'
  BY <1>1 DEF Submitted, AwaitingIds, Running, OneMarket
<1>3. \A id \in ActiveOrders(mem) : Unfilled(Staged(id))' = Unfilled(Staged(id))
  BY <1>1 DEF Unfilled, Staged
<1>. QED  BY <1>1, <1>2, <1>3, QuietStep

(* A latched failure, or the end of the process: nothing is claimed of the
   engines until a restart. *)
LEMMA FQuits ==
  ASSUME PInv, PInv', FlightSound, CommitFails \/ EngineError \/ BookMissing \/ Crash \/ Stop
  PROVE  FlightSound'
<1>1. ~Running' /\ pc' \in {"idle", "down"}
  BY DEF CommitFails, EngineError, BookMissing, Crash, Stop, Fail, Exit, Return, Running
<1>2. ~Submitted' /\ OneMarket' /\ FlightInv'
  BY <1>1 DEF Submitted, OneMarket, FlightInv
<1>. QED  BY <1>2, QuietNext DEF FlightSound, FlightStaged

(* A restart begins with empty books. *)
LEMMA FStart ==
  ASSUME PInv, PInv', LedgersSound', Start
  PROVE  FlightSound'
<1>1. pc' = "recover" /\ op' = "recover" /\ books' = [s \in Symbols |-> {}]
  BY DEF Start
<1>2. ~Submitted' /\ ~AwaitingIds' /\ OneMarket'
  BY <1>1 DEF Submitted, AwaitingIds, OneMarket
<1>3. /\ DOMAIN Live' \subseteq OrderIds /\ Live' \in [DOMAIN Live' -> EngineOrder]
      /\ DOMAIN Live' = ActiveOrders(mem)'
  BY LiveNext DEF LedgersSound
<1>4. ASSUME NEW id \in ActiveOrders(mem)'
      PROVE  Live'[id].eid = 0
  <2>1. id \in OrderIds /\ Active(mem'.orders[id])
    BY DEF ActiveOrders
  <2>2. Active(disk.orders[id])
    BY <2>1, StartMem
  <2>3. mem'.orders[id].eid = 0
    <3>1. disk.orders[id] \in Order
      BY <2>1, <2>2 DEF PInv, SInv, IInv, TypeOK, LedgerType, Active
    <3>. QED  BY <2>1, <2>2, <3>1, StartMem DEF Order
  <2>. QED  BY <1>2, <2>3 DEF Live, Eid
<1>5. \A m \in Served' : BookOf'[m] = {}
  <2>1. ASSUME NEW m \in Served' PROVE BookOf'[m] = {}
    <3>1. mem'.markets[m].symbol \in listed' /\ listed' \subseteq Symbols
      BY DEF Served, PInv, SInv, IInv, TypeOK
    <3>. QED  BY <1>1, <3>1 DEF BookOf
  <2>. QED  BY <2>1
<1>6. Pending' = {}
  BY <1>2, QuietNext
<1>7. FlightInv'
  BY <1>3, <1>4, <1>5, <1>6, FlightFresh DEF FlightInv
<1>. QED  BY <1>2, <1>7, QuietNext DEF FlightSound, FlightStaged

-----------------------------------------------------------------------------
(* Cancellation and settlement take orders off the books. *)

(* The order to remove is active and has its engine id. *)
LEMMA ToRemove ==
  ASSUME PInv, pc = "remove", NEW id \in todo
  PROVE  /\ id \in OrderIds /\ id \in ActiveOrders(mem) /\ mem.orders[id] \in Order
         /\ mem.orders[id].eid # 0 /\ Eid(id) = mem.orders[id].eid
         /\ mem.orders[id].market \in Markets /\ MarketOpen(mem.orders[id].market)
         /\ ~Submitted /\ ~AwaitingIds /\ Running
         /\ SymbolOf(id) \in Symbols
<1>1. id \in OrderIds /\ op \in {"cancel", "resolve"} /\ OnBook(mem.orders[id])
  BY DEF PInv, SInv, IInv, TypeOK, Control
<1>2. Active(mem.orders[id]) /\ mem.orders[id] # NoOrder
  BY <1>1 DEF OnBook, Active, ActiveStatuses
<1>3. mem.orders[id] \in Order
  BY <1>1, <1>2 DEF PInv, SInv, IInv, TypeOK, LedgerType
<1>4. ~failed
  BY DEF PInv, SInv, IInv, Control
<1>5. mem.orders[id].eid # 0
  BY <1>1, <1>2, <1>4 DEF PInv, IdsAccounted, Recovering
<1>6. mem.orders[id].market \in Markets
  BY <1>3 DEF Order
<1>7. MarketOpen(mem.orders[id].market)
  BY <1>1, <1>2 DEF PInv, SInv, ActiveInOpen, IsOpen, MarketOpen
<1>8. ~Submitted /\ ~AwaitingIds /\ Running
  BY <1>1, <1>4 DEF Submitted, AwaitingIds, Running
<1>9. SymbolOf(id) \in Symbols
  BY <1>6, <1>7 DEF SymbolOf, MarketOpen, PInv, SInv, IInv, TypeOK, LedgerType, Market
<1>. QED  BY <1>1, <1>2, <1>3, <1>5, <1>6, <1>7, <1>8, <1>9 DEF ActiveOrders, Eid

LEMMA FRemoveRejected ==
  ASSUME PInv, PInv', FInv, LedgersSound', NEW id \in todo, RemoveRejected(id)
  PROVE  FlightSound'
<1>1. /\ mem' = mem /\ books' = books /\ failed' = failed /\ pc = "remove" /\ listed' = listed
      /\ op' = "none" /\ pc' = "idle" /\ change' = Empty /\ OnEngine(id) = {}
  BY DEF RemoveRejected, service, Return, ScratchCleared
<1>2. ~Submitted' /\ ~AwaitingIds' /\ OneMarket'
  BY <1>1 DEF Submitted, AwaitingIds, OneMarket
<1>3. /\ id \in OrderIds /\ id \in ActiveOrders(mem) /\ mem.orders[id] \in Order
      /\ mem.orders[id].eid # 0 /\ Eid(id) = mem.orders[id].eid
      /\ mem.orders[id].market \in Markets /\ MarketOpen(mem.orders[id].market)
      /\ ~Submitted /\ ~AwaitingIds /\ Running
  BY <1>1, ToRemove
<1>4. Pending = {} /\ Matching = {} /\ Pending' = {} /\ Matching' = {}
  BY <1>2, <1>3, QuietState, QuietNext
<1>5. Flight(Live, {}, {}, Served, BookOf)
  BY <1>3, <1>4 DEF FInv, FlightSound, FlightInv
<1>6. /\ DOMAIN Live = ActiveOrders(mem) /\ DOMAIN Live \subseteq OrderIds
      /\ \A i \in DOMAIN Live :
           /\ Live[i].market = mem.orders[i].market
           /\ Live[i].side = EngineSide(mem.orders[i].side)
           /\ Live[i].price = EnginePrice(mem.orders[i].side, mem.orders[i].price)
           /\ Live[i].eid = Eid(i)
           /\ Live[i].open = Unfilled(Staged(i))
  BY LiveAt DEF FInv, LedgersSound
<1>7. /\ DOMAIN Live' = ActiveOrders(mem)' /\ ActiveOrders(mem)' = ActiveOrders(mem)
      /\ Live' \in [DOMAIN Live' -> EngineOrder]
  BY <1>1, LiveNext DEF LedgersSound, ActiveOrders
<1>8. \A i \in DOMAIN Live :
        /\ Live'[i].market = mem.orders[i].market
        /\ Live'[i].side = EngineSide(mem.orders[i].side)
        /\ Live'[i].price = EnginePrice(mem.orders[i].side, mem.orders[i].price)
        /\ Live'[i].eid = Eid(i)
        /\ Live'[i].open = Unfilled(mem.orders[i])
  <2>1. \A i \in ActiveOrders(mem) : Eid(i)' = Eid(i)
    BY <1>1, <1>2, <1>3 DEF Eid
  <2>2. \A i \in ActiveOrders(mem) : Unfilled(Staged(i))' = Unfilled(mem.orders[i])
    BY <1>1, EmptyLedger DEF Unfilled, Staged, ActiveOrders
  <2>. QED  BY <1>1, <1>6, <1>7, <2>1, <2>2 DEF Live
<1>. DEFINE m == mem.orders[id].market
<1>9. m \notin Served
  <2>1. SUFFICES ASSUME m \in Served PROVE FALSE
    OBVIOUS
  <2>2. change.orders[id] = NoOrder
    BY <1>1 DEF FInv, FlightSound, FlightStaged, OneMarket
  <2>3. Live[id].open > 0
    <3>1. Live[id].open = Unfilled(mem.orders[id])
      BY <1>3, <1>6, <2>2 DEF Staged
    <3>2. Active(mem.orders[id]) /\ mem.orders[id].filled < mem.orders[id].qty
      BY <1>3 DEF ActiveOrders, FInv, LedgersSound, OrdersGood, Active
    <3>3. mem.orders[id].filled \in Nat /\ mem.orders[id].qty \in Nat
      BY <1>3 DEF Order
    <3>. QED  BY <3>1, <3>2, <3>3 DEF Unfilled, Remaining
  <2>4. Left(Live, {}, id) = Live[id].open
    BY <1>3, <1>5, <1>6, NothingOwed DEF Flight
  <2>5. Rests(Live, {}, {}, id) /\ Live[id].market \in Served
    BY <1>3, <1>6, <2>1, <2>3, <2>4 DEF Rests
  <2>6. Rest(Live, {}, id) \in BookOf[m]
    BY <1>3, <1>5, <1>6, <2>5 DEF Flight, BookComplete
  <2>7. BookOf[m] = books[SymbolOf(id)]
    BY <2>1 DEF BookOf, SymbolOf
  <2>8. Rest(Live, {}, id).eid = mem.orders[id].eid
    BY <1>3, <1>6 DEF Rest
  <2>. QED  BY <1>1, <2>6, <2>7, <2>8 DEF OnEngine
<1>10. ASSUME NEW i \in DOMAIN Live, Live[i].market \in Served
       PROVE  Live'[i].open = Live[i].open
  <2>1. change.orders[i] = NoOrder
    BY <1>1, <1>3, <1>6, <1>9, <1>10 DEF FInv, FlightSound, FlightStaged, OneMarket
  <2>. QED  BY <1>6, <1>8, <2>1 DEF Staged
<1>11. \A i \in DOMAIN Live : SameIdentity(Live, Live', i)
  BY <1>6, <1>8 DEF SameIdentity
<1>12. Flight(Live', {}, {}, Served, BookOf)
  BY <1>5, <1>6, <1>7, <1>10, <1>11, FlightElsewhere
<1>13. Served' = Served /\ BookOf' = BookOf
  BY <1>1, ServedKept
<1>14. FlightInv'
  BY <1>4, <1>12, <1>13 DEF FlightInv
<1>. QED  BY <1>2, <1>14, QuietNext DEF FlightSound, FlightStaged

LEMMA FRemoveOrder ==
  ASSUME PInv, PInv', FInv, LedgersSound', NEW id \in todo, RemoveOrder(id)
  PROVE  FlightSound'
<1>1. /\ mem' = mem /\ failed' = failed /\ pc = "remove" /\ listed' = listed
      /\ op' = op /\ pc' = "remove" /\ after' = after /\ todo' = todo \ {id}
      /\ books' = [books EXCEPT ![SymbolOf(id)] = @ \ OnEngine(id)]
      /\ change' = ReleaseEvents(change, id, mem.orders[id])
  BY DEF RemoveOrder, service, control
<1>2. /\ id \in OrderIds /\ id \in ActiveOrders(mem) /\ mem.orders[id] \in Order
      /\ mem.orders[id].eid # 0 /\ Eid(id) = mem.orders[id].eid
      /\ mem.orders[id].market \in Markets /\ MarketOpen(mem.orders[id].market)
      /\ ~Submitted /\ ~AwaitingIds /\ Running /\ SymbolOf(id) \in Symbols
  BY <1>1, ToRemove
<1>3. ~Submitted' /\ ~AwaitingIds'
  BY <1>1, <1>2 DEF Submitted, AwaitingIds
<1>4. Pending = {} /\ Matching = {} /\ Pending' = {} /\ Matching' = {}
  BY <1>2, <1>3, QuietState, QuietNext
<1>5. Flight(Live, {}, {}, Served, BookOf)
  BY <1>2, <1>4 DEF FInv, FlightSound, FlightInv
<1>6. /\ DOMAIN Live = ActiveOrders(mem) /\ DOMAIN Live \subseteq OrderIds
      /\ \A i \in DOMAIN Live :
           /\ Live[i].market = mem.orders[i].market
           /\ Live[i].side = EngineSide(mem.orders[i].side)
           /\ Live[i].price = EnginePrice(mem.orders[i].side, mem.orders[i].price)
           /\ Live[i].eid = Eid(i)
           /\ Live[i].open = Unfilled(Staged(i))
  BY LiveAt DEF FInv, LedgersSound
<1>7. /\ DOMAIN Live' = ActiveOrders(mem)' /\ ActiveOrders(mem)' = ActiveOrders(mem)
      /\ Live' \in [DOMAIN Live' -> EngineOrder]
  BY <1>1, LiveNext DEF LedgersSound, ActiveOrders
<1>a. change \in LedgerType
  BY DEF PInv, SInv, IInv, TypeOK
<1>b. change'.orders = [change.orders EXCEPT ![id] = [mem.orders[id] EXCEPT !.status = "cancelled"]]
  BY <1>1, <1>2, <1>a, ReleaseLedger
<1>. DEFINE closed == [mem.orders[id] EXCEPT !.status = "cancelled"]
<1>c. closed # NoOrder /\ ~Active(closed)
  <2>1. closed \in Order /\ closed.status = "cancelled"
    BY <1>2 DEF Order, OrderStatuses
  <2>. HIDE DEF closed
  <2>. QED  BY <2>1, ConstantsAssumption DEF Active, ActiveStatuses
<1>d. \A i \in OrderIds : change'.orders[i] = IF i = id THEN closed ELSE change.orders[i]
  <2>. HIDE DEF closed
  <2>. QED  BY <1>2, <1>a, <1>b DEF LedgerType, closed
<1>. HIDE DEF closed
<1>8. \A i \in DOMAIN Live :
        /\ Live'[i].market = mem.orders[i].market
        /\ Live'[i].side = EngineSide(mem.orders[i].side)
        /\ Live'[i].price = EnginePrice(mem.orders[i].side, mem.orders[i].price)
        /\ Live'[i].eid = Eid(i)
        /\ Live'[i].open = IF i = id THEN 0 ELSE Unfilled(Staged(i))
  <2>1. \A i \in ActiveOrders(mem) : Eid(i)' = Eid(i)
    BY <1>1, <1>2, <1>3 DEF Eid
  <2>2. \A i \in ActiveOrders(mem) :
          Unfilled(Staged(i))' = IF i = id THEN 0 ELSE Unfilled(Staged(i))
    BY <1>1, <1>6, <1>c, <1>d DEF Unfilled, Staged
  <2>. QED  BY <1>1, <1>6, <1>7, <2>1, <2>2 DEF Live
<1>9. \A i \in DOMAIN Live : SameIdentity(Live, Live', i)
  BY <1>6, <1>8 DEF SameIdentity
<1>10. \A i \in DOMAIN Live : Live'[i].open = IF i = id THEN 0 ELSE Live[i].open
  BY <1>6, <1>8
<1>11. Served' = Served
  BY <1>1 DEF Served, MarketOpen
<1>12. \A m \in Served : \A o : o \in BookOf'[m] <=>
         o \in BookOf[m] /\ ~(m = Live[id].market /\ o.eid = Live[id].eid)
  <2>1. ASSUME NEW m \in Served
        PROVE  /\ BookOf[m] = books[mem.markets[m].symbol]
               /\ BookOf'[m] = books'[mem.markets[m].symbol]
               /\ mem.markets[m].symbol \in Symbols /\ m \in Markets /\ mem.markets[m] # NoMarket
    BY <1>1, <1>11 DEF BookOf, Served, MarketOpen, PInv, SInv, IInv, TypeOK
  <2>2. \A s \in Symbols : \A o : o \in books'[s] <=>
          o \in books[s] /\ ~(s = SymbolOf(id) /\ o.eid = mem.orders[id].eid)
    BY <1>1, <1>2 DEF PInv, SInv, IInv, TypeOK, OnEngine
  <2>3. Live[id].market = mem.orders[id].market /\ Live[id].eid = mem.orders[id].eid
    BY <1>2, <1>6
  <2>4. ASSUME NEW m \in Served PROVE mem.markets[m].symbol = SymbolOf(id) <=> m = mem.orders[id].market
    BY <1>2, <2>1 DEF FInv, LedgersSound, SymbolsOwn, SymbolOf, MarketOpen
  <2>. QED  BY <2>1, <2>2, <2>3, <2>4
<1>13. OwnIds(Live) /\ Live[id].eid # 0 /\ id \in DOMAIN Live
  BY <1>2, <1>6, LiveOwnIds
<1>14. Flight(Live', {}, {}, Served, BookOf')
  <2>. DEFINE L2 == Live'
              B2 == BookOf'
  <2>1. /\ DOMAIN L2 = DOMAIN Live /\ L2 \in [DOMAIN L2 -> EngineOrder]
        /\ \A i \in DOMAIN Live : SameIdentity(Live, L2, i)
        /\ \A i \in DOMAIN Live : L2[i].open = IF i = id THEN 0 ELSE Live[i].open
    BY <1>6, <1>7, <1>9, <1>10
  <2>2. \A m \in Served : \A o : o \in B2[m] <=>
          o \in BookOf[m] /\ ~(m = Live[id].market /\ o.eid = Live[id].eid)
    BY <1>12
  <2>. HIDE DEF L2, B2
  <2>3. Flight(L2, {}, {}, Served, B2)
    BY <1>5, <1>13, <2>1, <2>2, FlightCancel
  <2>. QED  BY <2>3 DEF L2, B2
<1>15. FlightInv'
  BY <1>4, <1>11, <1>14 DEF FlightInv
<1>16. OneMarket'
  <2>1. todo \subseteq OrderIds
    BY DEF PInv, SInv, IInv, TypeOK
  <2>2. \A i \in OrderIds : i \in todo' \/ change'.orders[i] # NoOrder =>
          i \in todo \/ change.orders[i] # NoOrder
    BY <1>1, <1>d
  <2>3. \A i \in todo' : change'.orders[i] = NoOrder
    BY <1>1, <1>d, <2>1 DEF FInv, FlightSound, FlightStaged, OneMarket
  <2>. QED  BY <1>1, <2>2, <2>3 DEF FInv, FlightSound, FlightStaged, OneMarket
<1>. QED  BY <1>3, <1>15, <1>16, QuietNext DEF FlightSound, FlightStaged

-----------------------------------------------------------------------------
(* The service's own steps while its orders are in the engines' hands. *)
LEMMA AnswersStay ==
  ASSUME mem' = mem, admitted' = admitted, results' = results, taker' = taker
  PROVE  /\ \A k : Answer(k)' = Answer(k)
         /\ Matching' = Matching
         /\ (Submitted' <=> Submitted) => Pending' = Pending
         /\ (AwaitingIds' <=> AwaitingIds) => \A id : Eid(id)' = Eid(id)
<1>1. \A k : Answer(k)' = Answer(k)
  BY DEF Answer, EngineOf, SymbolOf
<1>2. Matching' = Matching
  BY DEF Matching
<1>3. \A k : AnswerTrades(k)' = AnswerTrades(k)
  BY <1>1 DEF AnswerTrades
<1>4. (Submitted' <=> Submitted) => Pending' = Pending
  BY <1>3 DEF Pending
<1>5. (AwaitingIds' <=> AwaitingIds) => \A id : Eid(id)' = Eid(id)
  BY <1>1 DEF Eid, Among, PlaceOf
<1>. QED  BY <1>1, <1>2, <1>4, <1>5

LEMMA FGoesOn ==
  ASSUME PInv, PInv', FlightSound, Submitted, Submitted', AwaitingIds' <=> AwaitingIds,
         mem' = mem, admitted' = admitted, results' = results, taker' = taker,
         books' = books, listed' = listed, Running' => Running,
         \A id \in ActiveOrders(mem) : Unfilled(Staged(id))' = Unfilled(Staged(id)),
         Drained', Unstaged'
  PROVE  FlightSound'
<1>1. /\ \A k : Answer(k)' = Answer(k)
      /\ Matching' = Matching /\ Pending' = Pending
      /\ \A id : Eid(id)' = Eid(id)
  BY AnswersStay
<1>2. Live' = Live /\ ActiveOrders(mem)' = ActiveOrders(mem)
  BY <1>1, LiveKept
<1>3. Served' = Served /\ BookOf' = BookOf
  BY ServedKept
<1>4. FlightInv'
  BY <1>1, <1>2, <1>3, FlightKept DEF FlightSound
<1>5. TakerLeft'
  BY <1>1, <1>2 DEF FlightSound, TakerLeft, TakerSymbol, SymbolOf
<1>6. DistinctTrades'
  BY <1>1 DEF FlightSound, FlightStaged, DistinctTrades
<1>7. TradesKnown'
  BY <1>1, <1>2 DEF FlightSound, FlightStaged, TradesKnown
<1>8. OneMarket'
  BY DEF OneMarket, Submitted
<1>. QED  BY <1>4, <1>5, <1>6, <1>7, <1>8 DEF FlightSound, FlightStaged

LEMMA FEngineDone ==
  ASSUME PInv, PInv', FlightSound, EngineDone
  PROVE  FlightSound'
<1>1. /\ mem' = mem /\ admitted' = admitted /\ results' = results /\ taker' = taker
      /\ books' = books /\ listed' = listed /\ failed' = failed /\ pc = "engine" /\ pc' = "stage"
      /\ op' = op /\ after' = after /\ change' = change /\ cur' = 1
  BY DEF EngineDone, service, engine
<1>2. Submitted /\ Submitted' /\ AwaitingIds /\ AwaitingIds' /\ (Running' => Running)
  BY <1>1 DEF Submitted, AwaitingIds, Running
<1>3. \A id \in ActiveOrders(mem) : Unfilled(Staged(id))' = Unfilled(Staged(id))
  BY <1>1 DEF Staged, Unfilled
<1>4. Drained'
  BY <1>1 DEF Drained
<1>5. Unstaged'
  <2>1. change = Empty
    BY <1>1 DEF PInv, SInv, IInv, Control
  <2>2. \A j \in 1..Len(admitted) : admitted[j] \in OrderIds
    BY DEF PInv, SInv, IInv, TypeOK
  <2>. QED  BY <1>1, <2>1, <2>2, EmptyLedger DEF Unstaged
<1>. QED  BY <1>1, <1>2, <1>3, <1>4, <1>5, FGoesOn

LEMMA FStageOrder ==
  ASSUME PInv, PInv', FInv, StageOrder
  PROVE  FlightSound'
<1>. DEFINE a == admitted[cur]
<1>1. /\ mem' = mem /\ admitted' = admitted /\ results' = results /\ taker' = taker
      /\ books' = books /\ listed' = listed /\ failed' = failed /\ pc = "stage"
      /\ op' = op /\ cur' = cur /\ op \in {"place", "recover"}
      /\ \/ op = "recover" /\ pc' = "commit" /\ after' = "fill"
         \/ op # "recover" /\ pc' = "fill"
  BY DEF StageOrder, service, engine, PInv, SInv, IInv, Control
<1>2. Submitted /\ Submitted' /\ AwaitingIds /\ AwaitingIds' /\ (Running' => Running)
  BY <1>1 DEF Submitted, AwaitingIds, Running
<1>3. PICK o \in Order :
        /\ change'.orders = [change.orders EXCEPT ![a] = o]
        /\ o = [mem.orders[a] EXCEPT !.eid = results[cur].eid,
                  !.status = IF mem.orders[a].filled > 0 THEN "partial" ELSE "open"]
  BY StageOrderStages
<1>4. cur \in 1..Len(admitted) /\ a \in OrderIds /\ mem.orders[a] \in Order /\ Active(mem.orders[a])
  BY StageOrderStages
<1>5. change.orders[a] = NoOrder
  <2>1. cur >= cur
    BY <1>4
  <2>. QED  BY <1>1, <1>4, <2>1 DEF FInv, FlightSound, FlightStaged, Unstaged
<1>6. Unfilled(o) = Unfilled(mem.orders[a])
  <2>1. o.filled = mem.orders[a].filled /\ o.qty = mem.orders[a].qty /\ Active(o)
    <3>. DEFINE st == IF mem.orders[a].filled > 0 THEN "partial" ELSE "open"
    <3>1. st \in ActiveStatuses
      BY DEF ActiveStatuses
    <3>2. o = [mem.orders[a] EXCEPT !.eid = results[cur].eid, !.status = st]
      BY <1>3
    <3>. HIDE DEF st
    <3>3. o.filled = mem.orders[a].filled /\ o.qty = mem.orders[a].qty /\ o.status = st
      BY <1>4, <3>2 DEF Order
    <3>. QED  BY <3>1, <3>3, ConstantsAssumption DEF Active
  <2>. QED  BY <1>4, <2>1 DEF Unfilled, Remaining
<1>. HIDE DEF a
<1>7. \A i \in OrderIds : change'.orders[i] = IF i = a THEN o ELSE change.orders[i]
  BY <1>3, <1>4 DEF PInv, SInv, IInv, TypeOK, LedgerType
<1>8. \A id \in ActiveOrders(mem) : Unfilled(Staged(id))' = Unfilled(Staged(id))
  <2>1. ASSUME NEW id \in ActiveOrders(mem) PROVE Unfilled(Staged(id))' = Unfilled(Staged(id))
    <3>1. id \in OrderIds
      BY DEF ActiveOrders
    <3>2. CASE id = a
      <4>1. Staged(id)' = o /\ Staged(id) = mem.orders[a]
        BY <1>5, <1>7, <3>1, <3>2, ConstantsAssumption DEF Staged
      <4>. QED  BY <1>6, <4>1 DEF Unfilled
    <3>3. CASE id # a
      BY <1>1, <1>7, <3>1, <3>3 DEF Staged, Unfilled
    <3>. QED  BY <3>2, <3>3
  <2>. QED  BY <2>1
<1>9. Drained'
  BY <1>1 DEF FInv, FlightSound, FlightStaged, Drained
<1>10. Unstaged'
  <2>1. ASSUME NEW j \in 1..Len(admitted), j > cur
        PROVE  change'.orders[admitted[j]] = NoOrder
    <3>1. change.orders[admitted[j]] = NoOrder
      <4>1. j >= cur
        BY <1>4, <2>1
      <4>. QED  BY <1>1, <4>1 DEF FInv, FlightSound, FlightStaged, Unstaged
    <3>2. admitted[j] # a /\ admitted[j] \in OrderIds
      <4>1. PlaceOf(admitted[j]) = j /\ admitted[j] \in OrderIds
        BY <1>2, PlaceIs
      <4>2. PlaceOf(admitted[cur]) = cur
        BY <1>2, <1>4, PlaceIs
      <4>3. j # cur
        BY <1>4, <2>1
      <4>. QED  BY <4>1, <4>2, <4>3 DEF a
    <3>. QED  BY <1>7, <3>1, <3>2
  <2>. QED  BY <1>1, <2>1 DEF Unstaged
<1>. QED  BY <1>1, <1>2, <1>8, <1>9, <1>10, FGoesOn DEF FInv

(* Once the fills of the last answer are staged, nothing is in flight. *)
LEMMA FFillsDone ==
  ASSUME PInv, PInv', FlightSound, FillsDone
  PROVE  FlightSound'
<1>1. /\ mem' = mem /\ admitted' = admitted /\ results' = results /\ taker' = taker
      /\ books' = books /\ listed' = listed /\ failed' = failed /\ pc = "fill"
      /\ op' = op /\ op \in {"place", "recover"} /\ change' = change
      /\ results[cur].trades = <<>>
  BY DEF FillsDone, service, engine, PInv, SInv, IInv, Control
<1>2. Submitted /\ (Running' => Running) /\ (AwaitingIds <=> op = "place")
  BY <1>1 DEF FillsDone, Submitted, AwaitingIds, Running
<1>3. \A id \in ActiveOrders(mem) : Unfilled(Staged(id))' = Unfilled(Staged(id))
  BY <1>1 DEF Staged, Unfilled
<1>4. cur \in 1..Len(admitted) /\ DOMAIN results = 1..Len(admitted)
      /\ (op = "recover" => Len(admitted) = 1)
  BY <1>1, <1>2 DEF PInv, SInv, IInv, Control, Answered
<1>5. CASE cur < Len(admitted) /\ cur' = cur + 1 /\ pc' = "stage" /\ after' = after
  <2>1. op = "place"
    <3>1. Len(admitted) # 1
      <4>1. admitted \in Seq(OrderIds) /\ cur \in Nat \ {0}
        BY DEF PInv, SInv, IInv, TypeOK
      <4>2. Len(admitted) \in Nat
        BY <4>1
      <4>3. cur < Len(admitted)
        BY <1>5
      <4>4. cur \in Nat /\ cur # 0
        BY <4>1
      <4>. DEFINE n == Len(admitted)
      <4>5. n \in Nat /\ cur < n
        BY <4>2, <4>3
      <4>. HIDE DEF n
      <4>6. n # 1
        BY <4>4, <4>5
      <4>. QED  BY <4>6 DEF n
    <3>. QED  BY <1>1, <1>4, <3>1
  <2>2. Submitted' /\ AwaitingIds' /\ AwaitingIds
    BY <1>2, <1>5, <2>1 DEF Submitted, AwaitingIds
  <2>3. Drained'
    <3>1. ASSUME NEW j \in 1..(cur' - 1) PROVE results[j].trades = <<>>
      <4>1. j \in 1..(cur - 1) \/ j = cur
        BY <1>4, <1>5
      <4>. QED  BY <1>1, <4>1 DEF FlightSound, FlightStaged, Drained
    <3>. QED  BY <1>1, <3>1 DEF Drained
  <2>4. Unstaged'
    <3>1. ASSUME NEW j \in 1..Len(admitted), j >= cur' PROVE change.orders[admitted[j]] = NoOrder
      <4>1. j > cur
        BY <1>4, <1>5, <3>1
      <4>. QED  BY <1>1, <4>1 DEF FlightSound, FlightStaged, Unstaged
    <3>. QED  BY <1>1, <1>5, <3>1 DEF Unstaged
  <2>. QED  BY <1>1, <1>2, <1>3, <2>2, <2>3, <2>4, FGoesOn
<1>6. CASE /\ cur = Len(admitted)
           /\ \/ op = "recover" /\ pc' = "recover"
              \/ op = "recover" /\ pc' = "commit" /\ after' = "recover"
              \/ op = "place" /\ pc' = "commit" /\ after' = "return"
  <2>1. ~Submitted' /\ (AwaitingIds' <=> AwaitingIds) /\ OneMarket'
    BY <1>1, <1>2, <1>6 DEF Submitted, AwaitingIds, OneMarket
  <2>2. Pending = {}
    <3>1. ASSUME NEW k \in 1..Len(admitted) PROVE AnswerTrades(k) = {}
      <4>1. Answer(k) = results[k] /\ (k \in 1..(cur - 1) \/ k = cur)
        BY <1>4, <1>6 DEF Answer
      <4>2. Answer(k).trades = <<>>
        BY <1>1, <4>1 DEF FlightSound, FlightStaged, Drained
      <4>. QED  BY <4>2 DEF AnswerTrades
    <3>. QED  BY <3>1 DEF Pending
  <2>3. Pending' = {} /\ Matching' = {}
    BY <2>1, QuietNext
  <2>4. Matching' = Matching /\ \A id : Eid(id)' = Eid(id)
    BY <1>1, <2>1, AnswersStay
  <2>5. Live' = Live
    BY <1>1, <1>3, <2>4, LiveKept
  <2>6. Served' = Served /\ BookOf' = BookOf
    BY <1>1, ServedKept
  <2>7. FlightInv'
    BY <1>2, <2>2, <2>3, <2>4, <2>5, <2>6, FlightKept DEF FlightSound
  <2>. QED  BY <2>1, <2>7, QuietNext DEF FlightSound, FlightStaged
<1>. QED  BY <1>1, <1>5, <1>6 DEF FillsDone

(* Recovery submits the next order: it has no engine id and no trade yet. *)
LEMMA FRecoverNext ==
  ASSUME PInv, PInv', FlightSound, NEW id \in todo, RecoverNext(id)
  PROVE  FlightSound'
<1>1. /\ mem' = mem /\ admitted' = <<id>> /\ results' = <<>> /\ taker' = taker
      /\ books' = books /\ listed' = listed /\ failed' = failed /\ pc = "recover"
      /\ op' = op /\ op = "recover" /\ pc' = "engine" /\ change' = change
  BY DEF RecoverNext, service, PInv, SInv, IInv, Control
<1>2. ~Submitted /\ ~AwaitingIds /\ Submitted' /\ AwaitingIds' /\ (Running' => Running)
  BY <1>1 DEF Submitted, AwaitingIds, Running
<1>3. \A e \in Engines : taker[e] = NoTaker
  BY <1>1 DEF PInv, SInv, IInv, Control
<1>4. Len(admitted') = 1 /\ admitted'[1] = id /\ DOMAIN results' = {} /\ id \in OrderIds
      /\ 1..Len(admitted') = {1}
  BY <1>1 DEF PInv, SInv, IInv, TypeOK
<1>5. mem.orders[id].eid = 0
  BY <1>1 DEF PInv, SInv, AwaitingRecovery
<1>6. Answer(1)' = [eid |-> 0, trades |-> <<>>]
  <2>1. EngineOf(1)' \in Engines
    <3>1. mem.orders[id] # NoOrder
      BY <1>1 DEF PInv, SInv, IInv, Control
    <3>2. mem.orders[id] \in Order /\ mem.orders[id].market \in Markets
      BY <1>4, <3>1 DEF PInv, SInv, IInv, TypeOK, LedgerType, Order
    <3>3. mem.markets[mem.orders[id].market] \in Market
      BY <1>4, <3>1, <3>2 DEF PInv, SInv, IInv, TypeOK, LedgerType, MarketsKnown, MarketsIn
    <3>4. SymbolOf(id) \in Symbols
      BY <3>3 DEF SymbolOf, Market
    <3>. QED  BY <1>1, <1>4, <3>4, ConstantsAssumption DEF EngineOf, SymbolOf
  <2>. QED  BY <1>1, <1>3, <1>4, <2>1 DEF Answer
<1>7. ASSUME NEW i \in ActiveOrders(mem) PROVE Eid(i)' = Eid(i)
  <2>1. CASE i = id
    <3>1. Among(id)' /\ PlaceOf(id)' = 1
      BY <1>4 DEF Among, PlaceOf
    <3>. QED  BY <1>1, <1>2, <1>5, <1>6, <2>1, <3>1 DEF Eid
  <2>2. CASE i # id
    <3>1. ~Among(i)'
      BY <1>4, <2>2 DEF Among
    <3>. QED  BY <1>1, <1>2, <3>1 DEF Eid
  <2>. QED  BY <2>1, <2>2
<1>8. Live' = Live
  <2>1. \A i \in ActiveOrders(mem) : Unfilled(Staged(i))' = Unfilled(Staged(i))
    BY <1>1 DEF Staged, Unfilled
  <2>. QED  BY <1>1, <1>7, <2>1, LiveKept
<1>9. Pending' = {} /\ Pending = {}
  <2>1. AnswerTrades(1)' = {}
    BY <1>6 DEF AnswerTrades
  <2>2. Pending' = UNION {AnswerTrades(k)' : k \in {1}}
    BY <1>2, <1>4 DEF Pending
  <2>. QED  BY <1>2, <2>1, <2>2, QuietState
<1>10. Matching' = {} /\ Matching = {}
  BY <1>1, <1>3 DEF Matching
<1>11. Served' = Served /\ BookOf' = BookOf
  BY <1>1, ServedKept
<1>12. FlightInv'
  BY <1>2, <1>8, <1>9, <1>10, <1>11, FlightKept DEF FlightSound
<1>13. TakerLeft'
  BY <1>1, <1>3 DEF TakerLeft
<1>14. DistinctTrades' /\ TradesKnown'
  BY <1>4, <1>6, <1>9 DEF DistinctTrades, TradesKnown
<1>15. Drained' /\ Unstaged' /\ OneMarket'
  BY <1>1 DEF Drained, Unstaged, OneMarket
<1>. QED  BY <1>12, <1>13, <1>14, <1>15 DEF FlightSound, FlightStaged

-----------------------------------------------------------------------------
(* The engines' own steps. *)

(* A trade in flight is one of the trades of an answer. *)
LEMMA PendingIs ==
  Submitted =>
    \A x : x \in Pending <=>
      \E k \in 1..Len(admitted) : \E i \in DOMAIN Answer(k).trades :
        x = <<mem.orders[admitted[k]].market, k, Answer(k).trades[i]>>
<1>. SUFFICES ASSUME Submitted, NEW x
              PROVE  x \in Pending <=>
                       \E k \in 1..Len(admitted) : \E i \in DOMAIN Answer(k).trades :
                         x = <<mem.orders[admitted[k]].market, k, Answer(k).trades[i]>>
  OBVIOUS
<1>1. x \in Pending <=> \E k \in 1..Len(admitted) : x \in AnswerTrades(k)
  BY DEF Pending
<1>2. \A k : x \in AnswerTrades(k) <=> \E i \in DOMAIN Answer(k).trades :
        x = <<mem.orders[admitted[k]].market, k, Answer(k).trades[i]>>
  BY DEF AnswerTrades
<1>. QED  BY <1>1, <1>2

LEMMA PendingIsNext ==
  Submitted' =>
    \A x : x \in Pending' <=>
      \E k \in 1..Len(admitted') : \E i \in DOMAIN (Answer(k)').trades :
        x = <<mem'.orders[admitted'[k]].market, k, (Answer(k)').trades[i]>>
<1>. SUFFICES ASSUME Submitted', NEW x
              PROVE  x \in Pending' <=>
                       \E k \in 1..Len(admitted') : \E i \in DOMAIN (Answer(k)').trades :
                         x = <<mem'.orders[admitted'[k]].market, k, (Answer(k)').trades[i]>>
  OBVIOUS
<1>1. x \in Pending' <=> \E k \in 1..Len(admitted') : x \in AnswerTrades(k)'
  BY DEF Pending
<1>2. \A k : x \in AnswerTrades(k)' <=> \E i \in DOMAIN (Answer(k)').trades :
        x = <<mem'.orders[admitted'[k]].market, k, (Answer(k)').trades[i]>>
  BY DEF AnswerTrades
<1>. QED  BY <1>1, <1>2

(* The answers' trades and ids stay. *)
LEMMA AnswersSame ==
  ASSUME Submitted, Submitted', mem' = mem, admitted' = admitted,
         \A k \in 1..Len(admitted) : (Answer(k)').trades = Answer(k).trades
  PROVE  Pending' = Pending /\ (DistinctTrades => DistinctTrades')
<1>1. \A x : x \in Pending' <=> x \in Pending
  BY PendingIs, PendingIsNext
<1>2. Pending' = Pending
  BY <1>1
<1>3. DistinctTrades => DistinctTrades'
  BY DEF DistinctTrades
<1>. QED  BY <1>2, <1>3

(* Orders are in the hands of one engine each, their market's. *)
LEMMA OneEngine ==
  ASSUME PInv, AwaitingIds, NEW j \in 1..Len(admitted), NEW k \in 1..Len(admitted)
  PROVE  /\ admitted[j] = admitted[k] => j = k
         /\ mem.orders[admitted[j]].market = mem.orders[admitted[k]].market => EngineOf(j) = EngineOf(k)
<1>1. admitted[j] = admitted[k] => j = k
  BY PlaceIs
<1>. QED  BY <1>1 DEF EngineOf, SymbolOf

(* The market of an order an engine is matching is served. *)
LEMMA TakerServed ==
  ASSUME PInv, NEW e \in Engines, taker[e] # NoTaker
  PROVE  /\ TakerOrder(e).market \in Served /\ BookOf[TakerOrder(e).market] = books[TakerSymbol(e)]
         /\ admitted[taker[e].k] \in ActiveOrders(mem)
         /\ admitted[taker[e].k] \in Matching
<1>1. /\ admitted[taker[e].k] \in OrderIds /\ Active(TakerOrder(e)) /\ TakerOrder(e).market \in Markets
      /\ TakerSymbol(e) = mem.markets[TakerOrder(e).market].symbol /\ TakerSymbol(e) \in listed
  BY TakerKnown
<1>2. MarketOpen(TakerOrder(e).market)
  BY <1>1 DEF PInv, SInv, ActiveInOpen, IsOpen, MarketOpen, TakerOrder
<1>3. TakerOrder(e).market \in Served
  BY <1>1, <1>2 DEF Served
<1>. QED  BY <1>1, <1>3 DEF BookOf, ActiveOrders, TakerOrder, Matching

(* What is known of Live, in one place. *)
LEMMA LiveIs ==
  ASSUME PInv, FInv
  PROVE  /\ DOMAIN Live = ActiveOrders(mem) /\ DOMAIN Live \subseteq OrderIds
         /\ Live \in [DOMAIN Live -> EngineOrder]
         /\ \A id \in DOMAIN Live :
              /\ Live[id].market = mem.orders[id].market
              /\ Live[id].side = EngineSide(mem.orders[id].side)
              /\ Live[id].price = EnginePrice(mem.orders[id].side, mem.orders[id].price)
              /\ Live[id].eid = Eid(id)
              /\ Live[id].open = Unfilled(Staged(id))
         /\ OwnIds(Live)
BY LiveAt, LiveOwnIds DEF FInv, LedgersSound

LEMMA EngineRuns ==
  ASSUME PInv, FInv, pc = "engine"
  PROVE  Running /\ Submitted /\ AwaitingIds /\ Flight(Live, Pending, Matching, Served, BookOf)
         /\ \A id \in OrderIds : change.orders[id] = NoOrder
<1>1. Running
  BY DEF Running, PInv, SInv, IInv, Control
<1>2. change = Empty
  BY DEF PInv, SInv, IInv, Control
<1>. QED  BY <1>1, <1>2, EmptyLedger DEF Submitted, AwaitingIds, FInv, FlightSound, FlightInv

(* EngineAccept: the order gets a fresh id. *)
LEMMA AcceptAnswers ==
  ASSUME PInv, NEW k \in 1..Len(admitted), EngineAccept(k)
  PROVE  /\ Answer(k).eid = 0 /\ Answer(k).trades = <<>>
         /\ (Answer(k)').eid = nextEid[EngineOf(k)] + 1 /\ (Answer(k)').trades = <<>>
         /\ \A j \in 1..Len(admitted) : j # k => Answer(j)' = Answer(j)
         /\ taker'[EngineOf(k)] # NoTaker
         /\ taker'[EngineOf(k)].k = k /\ taker'[EngineOf(k)].trades = <<>>
         /\ taker'[EngineOf(k)].left = SubmittedQty(mem.orders[admitted[k]])
         /\ \A x \in Engines : x # EngineOf(k) => taker'[x] = taker[x]
<1>. DEFINE e == EngineOf(k)
            t == [k |-> k, eid |-> nextEid[e] + 1,
                  left |-> SubmittedQty(mem.orders[admitted[k]]), trades |-> <<>>]
<1>1. /\ pc = "engine" /\ k \notin DOMAIN results /\ taker[e] = NoTaker
      /\ taker' = [taker EXCEPT ![e] = t]
      /\ mem' = mem /\ admitted' = admitted /\ results' = results
  BY DEF EngineAccept, service, scratch
<1>2. Submitted
  BY <1>1 DEF Submitted
<1>3. \A j \in 1..Len(admitted) : EngineOf(j) \in Engines
  BY <1>2, GivenKnown
<1>4. taker \in [Engines -> Taker \cup {NoTaker}]
  BY DEF PInv, SInv, IInv, TypeOK
<1>5. t \in Taker
  <2>1. nextEid[e] \in Nat
    BY <1>3 DEF PInv, SInv, IInv, TypeOK
  <2>2. SubmittedQty(mem.orders[admitted[k]]) \in Int
    BY <1>2, GivenKnown DEF SubmittedQty, Remaining, Order
  <2>3. k \in Nat
    BY DEF PInv, SInv, IInv, TypeOK
  <2>. QED  BY <2>1, <2>2, <2>3 DEF Taker
<1>6. t # NoTaker /\ t.k = k /\ t.eid = nextEid[e] + 1 /\ t.trades = <<>>
      /\ t.left = SubmittedQty(mem.orders[admitted[k]])
  BY <1>5, ConstantsAssumption
<1>7. e \in Engines
  BY <1>3
<1>8. Answer(k).eid = 0 /\ Answer(k).trades = <<>>
  BY <1>1 DEF Answer
<1>. HIDE DEF t
<1>9. taker'[e] = t /\ \A x \in Engines : x # e => taker'[x] = taker[x]
  BY <1>1, <1>4, <1>7
<1>10. EngineOf(k)' = e /\ \A j : EngineOf(j)' = EngineOf(j)
  BY <1>1 DEF EngineOf, SymbolOf
<1>11. (Answer(k)').eid = nextEid[e] + 1 /\ (Answer(k)').trades = <<>>
  BY <1>1, <1>6, <1>9, <1>10 DEF Answer
<1>12. ASSUME NEW j \in 1..Len(admitted), j # k PROVE Answer(j)' = Answer(j)
  <2>1. CASE EngineOf(j) = e
    BY <1>1, <1>6, <1>9, <1>10, <1>12, <2>1 DEF Answer
  <2>2. CASE EngineOf(j) # e
    <3>1. taker'[EngineOf(j)] = taker[EngineOf(j)]
      BY <1>3, <1>9, <2>2
    <3>. QED  BY <1>1, <1>10, <3>1 DEF Answer
  <2>. QED  BY <2>1, <2>2
<1>. QED  BY <1>6, <1>8, <1>9, <1>11, <1>12

LEMMA FEngineAccept ==
  ASSUME PInv, PInv', FInv, LedgersSound', NEW k \in 1..Len(admitted), EngineAccept(k)
  PROVE  FlightSound'
<1>d. PICK e, a, n : e = EngineOf(k) /\ a = admitted[k] /\ n = nextEid[e] + 1
  OBVIOUS
<1>1. /\ pc = "engine" /\ taker[e] = NoTaker /\ mem' = mem /\ admitted' = admitted
      /\ change' = change /\ books' = books /\ listed' = listed /\ pc' = pc /\ failed' = failed
      /\ op' = op /\ after' = after
  BY <1>d DEF EngineAccept, service, scratch, control
<1>2. Running /\ Submitted /\ AwaitingIds /\ Flight(Live, Pending, Matching, Served, BookOf)
      /\ \A id \in OrderIds : change.orders[id] = NoOrder
  BY <1>1, EngineRuns
<1>3. Submitted' /\ AwaitingIds' /\ Running'
  BY <1>1, <1>2 DEF Submitted, AwaitingIds, Running
<1>4. /\ Answer(k).eid = 0 /\ Answer(k).trades = <<>>
      /\ (Answer(k)').eid = n /\ (Answer(k)').trades = <<>>
      /\ \A j \in 1..Len(admitted) : j # k => Answer(j)' = Answer(j)
      /\ taker'[e] # NoTaker /\ taker'[e].k = k /\ taker'[e].trades = <<>>
      /\ taker'[e].left = SubmittedQty(mem.orders[a])
      /\ \A x \in Engines : x # e => taker'[x] = taker[x]
  BY <1>d, AcceptAnswers
<1>5. /\ a \in OrderIds /\ mem.orders[a] \in Order /\ Active(mem.orders[a]) /\ e \in Engines
      /\ a \in ActiveOrders(mem) /\ Eid(a) = 0 /\ mem.orders[a].eid = 0
  BY <1>d, <1>2, <1>4, GivenKnown, PlaceIs DEF ActiveOrders
<1>6. n \in Nat /\ n # 0
  <2>1. nextEid \in [Engines -> Nat] /\ e \in Engines
    BY <1>5 DEF PInv, SInv, IInv, TypeOK
  <2>2. nextEid[e] \in Nat
    BY <2>1
  <2>. QED  BY <1>d, <2>2
<1>7. /\ DOMAIN Live = ActiveOrders(mem) /\ DOMAIN Live \subseteq OrderIds
      /\ \A id \in DOMAIN Live :
              /\ Live[id].market = mem.orders[id].market
              /\ Live[id].eid = Eid(id)
              /\ Live[id].open = Unfilled(Staged(id))
      /\ OwnIds(Live)
  BY LiveIs
<1>8. /\ DOMAIN Live' = DOMAIN Live /\ Live' \in [DOMAIN Live' -> EngineOrder]
  <2>1. ActiveOrders(mem)' = ActiveOrders(mem)
    BY <1>1 DEF ActiveOrders
  <2>. QED  BY <1>7, <2>1, LiveNext DEF LedgersSound
<1>9. Eid(a)' = n /\ \A i \in ActiveOrders(mem) : i # a => Eid(i)' = Eid(i)
  <2>1. \A i : Among(i)' = Among(i) /\ PlaceOf(i)' = PlaceOf(i)
    BY <1>1 DEF Among, PlaceOf
  <2>2. Among(a) /\ PlaceOf(a) = k
    BY <1>d, <1>2, PlaceIs
  <2>3. Eid(a)' = n
    BY <1>d, <1>1, <1>3, <1>4, <1>5, <2>1, <2>2 DEF Eid
  <2>4. ASSUME NEW i \in ActiveOrders(mem), i # a PROVE Eid(i)' = Eid(i)
    <3>1. CASE Among(i)
      <4>1. PICK j \in 1..Len(admitted) : admitted[j] = i
        BY <3>1 DEF Among
      <4>2. j # k /\ PlaceOf(i) = j
        BY <1>d, <1>2, <2>4, <4>1, PlaceIs
      <4>. QED  BY <1>1, <1>2, <1>3, <1>4, <2>1, <4>2 DEF Eid
    <3>2. CASE ~Among(i)
      BY <1>1, <2>1, <3>2 DEF Eid
    <3>. QED  BY <3>1, <3>2
  <2>. QED  BY <2>3, <2>4
<1>10. /\ \A i \in DOMAIN Live : i # a => Live'[i] = Live[i]
       /\ GivenId(Live, Live', a, n)
       /\ Live'[a].eid = n /\ Live'[a].market = Live[a].market
  <2>1. \A i \in ActiveOrders(mem) : Unfilled(Staged(i))' = Unfilled(Staged(i))
    BY <1>1 DEF Staged, Unfilled
  <2>2. ActiveOrders(mem)' = ActiveOrders(mem) /\ a \in ActiveOrders(mem) /\ mem'.orders = mem.orders
    BY <1>1, <1>5 DEF ActiveOrders
  <2>3. ASSUME NEW i \in DOMAIN Live, i # a PROVE Live'[i] = Live[i]
    <3>1. i \in ActiveOrders(mem) /\ Eid(i)' = Eid(i)
      BY <1>7, <1>9, <2>3
    <3>. QED  BY <2>1, <2>2, <3>1 DEF Live
  <2>4. /\ Live'[a].market = mem.orders[a].market
        /\ Live'[a].side = EngineSide(mem.orders[a].side)
        /\ Live'[a].price = EnginePrice(mem.orders[a].side, mem.orders[a].price)
        /\ Live'[a].eid = Eid(a)' /\ Live'[a].open = Unfilled(Staged(a))'
    BY <2>2 DEF Live
  <2>5. /\ Live[a].market = mem.orders[a].market
        /\ Live[a].side = EngineSide(mem.orders[a].side)
        /\ Live[a].price = EnginePrice(mem.orders[a].side, mem.orders[a].price)
        /\ Live[a].open = Unfilled(Staged(a))
    BY <2>2 DEF Live
  <2>6. GivenId(Live, Live', a, n)
    BY <1>9, <2>1, <2>2, <2>4, <2>5 DEF GivenId
  <2>. QED  BY <1>9, <2>3, <2>4, <2>5, <2>6
<1>11. \A i \in DOMAIN Live : Live[i].market = Live[a].market => Live[i].eid # n
  <2>1. ASSUME NEW i \in DOMAIN Live, Live[i].market = Live[a].market, Live[i].eid = n PROVE FALSE
    <3>1. i # a
      BY <1>5, <1>6, <1>7, <2>1
    <3>2. Live'[i].market = Live'[a].market /\ Live'[i].eid = Live'[a].eid /\ Live'[i].eid # 0
      BY <1>6, <1>10, <2>1, <3>1
    <3>3. OwnIds(Live')
      BY OwnIdsNext
    <3>. QED  BY <1>5, <1>7, <1>8, <3>1, <3>2, <3>3 DEF OwnIds
  <2>. QED  BY <2>1
<1>12. Pending' = Pending /\ DistinctTrades'
  <2>1. \A j \in 1..Len(admitted) : (Answer(j)').trades = Answer(j).trades
    BY <1>4
  <2>. QED  BY <1>1, <1>2, <1>3, <2>1, AnswersSame DEF FInv, FlightSound, FlightStaged
<1>13. Matching' = Matching \cup {a}
  <2>1. \A x \in Engines : taker'[x] # NoTaker <=> x = e \/ taker[x] # NoTaker
    BY <1>4
  <2>2. \A x \in Engines : taker'[x] # NoTaker => admitted'[taker'[x].k] =
          IF x = e THEN a ELSE admitted[taker[x].k]
    BY <1>d, <1>1, <1>4
  <2>3. ASSUME NEW z \in Matching' PROVE z \in Matching \cup {a}
    <3>1. PICK x \in Engines : taker'[x] # NoTaker /\ z = admitted'[taker'[x].k]
      BY DEF Matching
    <3>. QED  BY <2>1, <2>2, <3>1 DEF Matching
  <2>4. ASSUME NEW z \in Matching PROVE z \in Matching'
    <3>1. PICK x \in Engines : taker[x] # NoTaker /\ z = admitted[taker[x].k]
      BY DEF Matching
    <3>2. x # e /\ taker'[x] # NoTaker /\ z = admitted'[taker'[x].k]
      BY <1>1, <2>1, <2>2, <3>1
    <3>. QED  BY <3>2 DEF Matching
  <2>5. a \in Matching'
    <3>1. taker'[e] # NoTaker /\ a = admitted'[taker'[e].k] /\ e \in Engines
      BY <1>d, <1>1, <1>4, <1>5
    <3>. QED  BY <3>1 DEF Matching
  <2>. QED  BY <2>3, <2>4, <2>5
<1>14. Served' = Served /\ BookOf' = BookOf
  BY <1>1, ServedKept
<1>15. /\ Flight(Live', Pending, Matching \cup {a}, Served, BookOf)
       /\ \A i \in DOMAIN Live : Left(Live', Pending, i) = Left(Live, Pending, i)
       /\ Left(Live', Pending, a) = Live[a].open
  <2>1. a \in DOMAIN Live /\ Live[a].eid = 0
    BY <1>5, <1>7
  <2>2. /\ Live' \in [DOMAIN Live' -> EngineOrder] /\ GivenId(Live, Live', a, n)
        /\ OthersKeep(Live, Live', a) /\ FreeId(Live, a, n)
    BY <1>8, <1>10, <1>11 DEF OthersKeep, FreeId
  <2>3. PICK L, L2, P, K, S, B :
          L = Live /\ L2 = Live' /\ P = Pending /\ K = Matching /\ S = Served /\ B = BookOf
    OBVIOUS
  <2>4. Flight(L, P, K, S, B) /\ a \in DOMAIN L /\ L[a].eid = 0 /\ n \in Nat /\ n # 0
    BY <1>2, <1>6, <2>1, <2>3
  <2>5. /\ L2 \in [DOMAIN L2 -> EngineOrder] /\ GivenId(L, L2, a, n)
        /\ OthersKeep(L, L2, a) /\ FreeId(L, a, n)
    BY <2>2, <2>3
  <2>6. PICK J : J = K \cup {a}
    OBVIOUS
  <2>7. Flight(L2, P, J, S, B) /\ SameLeft(L, L2, P) /\ WholeLeft(L, L2, P, a)
    BY <2>4, <2>5, <2>6, FlightAccept
  <2>. QED  BY <2>3, <2>6, <2>7 DEF SameLeft, WholeLeft
<1>16. FlightInv'
  BY <1>12, <1>13, <1>14, <1>15 DEF FlightInv
<1>17. TakerLeft'
  <2>1. ASSUME NEW x \in Engines, taker'[x] # NoTaker, x # e
        PROVE  /\ taker'[x].left = Left(Live', Pending', admitted'[taker'[x].k])
               /\ taker'[x].left > 0 =>
                    \A i \in DOMAIN taker'[x].trades : \A o \in books'[TakerSymbol(x)'] :
                      o.eid \notin {taker'[x].trades[i].buy, taker'[x].trades[i].sell}
    <3>1. taker'[x] = taker[x] /\ taker[x] # NoTaker
      BY <1>4, <2>1
    <3>2. admitted[taker[x].k] \in DOMAIN Live
      BY <1>7, <3>1, TakerServed
    <3>3. TakerSymbol(x)' = TakerSymbol(x)
      BY <1>1, <3>1 DEF TakerSymbol, SymbolOf
    <3>. QED  BY <1>1, <1>12, <1>15, <3>1, <3>2, <3>3 DEF FInv, FlightSound, TakerLeft
  <2>2. /\ taker'[e].left = Left(Live', Pending', admitted'[taker'[e].k])
        /\ DOMAIN taker'[e].trades = {}
    <3>1. Live[a].open = Unfilled(mem.orders[a])
      BY <1>2, <1>5, <1>7 DEF Staged
    <3>2. Unfilled(mem.orders[a]) = SubmittedQty(mem.orders[a])
      BY <1>5 DEF Unfilled, SubmittedQty
    <3>3. taker'[e].k = k /\ admitted'[k] = a
      BY <1>d, <1>1, <1>4
    <3>. QED  BY <1>4, <1>12, <1>15, <3>1, <3>2, <3>3
  <2>. QED  BY <2>1, <2>2 DEF TakerLeft
<1>18. TradesKnown'
  <2>1. ASSUME NEW x \in Pending, NEW id \in DOMAIN Live,
               Live'[id].market = x[1], Live'[id].eid \in {x[3].buy, x[3].sell}
        PROVE  mem.orders[id].eid # 0 \/ \E j \in 1..x[2] : admitted[j] = id
    <3>1. CASE id # a
      <4>1. Live[id].market = x[1] /\ Live[id].eid \in {x[3].buy, x[3].sell}
        BY <1>10, <2>1, <3>1
      <4>. QED  BY <4>1 DEF FInv, FlightSound, FlightStaged, TradesKnown
    <3>2. CASE id = a
      <4>1. TradeSound(Live, x)
        BY <1>2 DEF Flight
      <4>2. PICK i \in DOMAIN Live : Live[i].market = x[1] /\ Live[i].eid = Live'[id].eid
        BY <2>1, <4>1 DEF TradeSound, Names
      <4>. QED  BY <1>10, <1>11, <2>1, <3>2, <4>2
    <3>. QED  BY <3>1, <3>2
  <2>. QED  BY <1>1, <1>8, <1>12, <2>1 DEF TradesKnown
<1>19. Drained' /\ Unstaged' /\ OneMarket'
  BY <1>1 DEF Drained, Unstaged, OneMarket
<1>. QED  BY <1>12, <1>16, <1>17, <1>18, <1>19 DEF FlightSound, FlightStaged

-----------------------------------------------------------------------------
(* EngineMatch. *)

(* Nothing else on the book has an id of the trade. *)
LEMMA BookIds ==
  ASSUME NEW L, NEW P, NEW K, NEW S, NEW B, Flight(L, P, K, S, B), OwnIds(L), NEW m \in S,
         NEW tk \in DOMAIN L, tk \in K, L[tk].market = m, NEW o \in B[m]
  PROVE  /\ o.eid # L[tk].eid
         /\ \A w \in B[m] : w.eid = o.eid => w = o
         /\ \E id \in DOMAIN L : L[id].market = m /\ L[id].eid = o.eid /\ o.eid # 0
<1>1. \A w \in B[m] : \E id \in OrderIds : Rests(L, P, K, id) /\ L[id].market = m /\ w = Rest(L, P, id)
  BY DEF Flight, BookBacked
<1>2. ASSUME NEW w \in B[m]
      PROVE  \E id \in DOMAIN L : id \notin K /\ L[id].eid = w.eid /\ w.eid # 0
                /\ L[id].market = m /\ w = Rest(L, P, id)
  <2>1. PICK id \in OrderIds : Rests(L, P, K, id) /\ L[id].market = m /\ w = Rest(L, P, id)
    BY <1>1
  <2>2. w.eid = L[id].eid
    BY <2>1 DEF Rest
  <2>. QED  BY <2>1, <2>2 DEF Rests
<1>3. PICK i \in DOMAIN L : i \notin K /\ L[i].eid = o.eid /\ o.eid # 0 /\ L[i].market = m
        /\ o = Rest(L, P, i)
  BY <1>2
<1>4. o.eid # L[tk].eid
  BY <1>3 DEF OwnIds
<1>5. ASSUME NEW w \in B[m], w.eid = o.eid PROVE w = o
  <2>1. PICK j \in DOMAIN L : L[j].eid = w.eid /\ L[j].market = m /\ w = Rest(L, P, j)
    BY <1>2
  <2>2. i = j
    BY <1>3, <1>5, <2>1 DEF OwnIds
  <2>. QED  BY <1>3, <2>1, <2>2
<1>. QED  BY <1>3, <1>4, <1>5
(* What EngineMatch does, field by field. *)
MatchStep(e, maker, q, trade) ==
  /\ IsBest(books[TakerSymbol(e)], TakerSide(e), maker)
  /\ q = Least(taker[e].left, maker.qty)
  /\ trade \in Trade /\ trade.price = maker.price /\ trade.qty = q
  /\ IF TakerSide(e) = "buy" THEN trade.buy = taker[e].eid /\ trade.sell = maker.eid
                             ELSE trade.buy = maker.eid /\ trade.sell = taker[e].eid
  /\ \A s \in Symbols : books'[s] = IF s = TakerSymbol(e) THEN Take(books[s], maker, q) ELSE books[s]
  /\ taker'[e] # NoTaker /\ taker'[e].k = taker[e].k /\ taker'[e].eid = taker[e].eid
  /\ taker'[e].left = taker[e].left - q
  /\ taker'[e].trades = Append(taker[e].trades, trade)
  /\ \A x \in Engines : x # e => taker'[x] = taker[x]

LEMMA MatchSteps ==
  ASSUME PInv, NEW e \in Engines, EngineMatch(e)
  PROVE  \E maker \in books[TakerSymbol(e)] : \E q, trade : MatchStep(e, maker, q, trade)
<1>d. PICK t, s : t = taker[e] /\ s = TakerSymbol(e)
  OBVIOUS
<1>1. pc = "engine" /\ taker[e] # NoTaker /\ taker[e].left > 0
  BY DEF EngineMatch, MoreToTrade
<1>2. /\ t \in Taker /\ s \in Symbols /\ books[s] \subseteq Resting
      /\ taker \in [Engines -> Taker \cup {NoTaker}] /\ books \in [Symbols -> SUBSET Resting]
  BY <1>d, <1>1, TakerKnown DEF PInv, SInv, IInv, TypeOK
<1>a. PICK maker \in books[s] :
        /\ IsBest(books[s], TakerSide(e), maker)
        /\ LET q == Least(t.left, maker.qty)
               trade == IF TakerSide(e) = "buy"
                        THEN [buy |-> t.eid, sell |-> maker.eid, price |-> maker.price, qty |-> q]
                        ELSE [buy |-> maker.eid, sell |-> t.eid, price |-> maker.price, qty |-> q]
           IN  /\ books' = [books EXCEPT ![s] = Take(@, maker, q)]
               /\ taker' = [taker EXCEPT ![e].left = @ - q, ![e].trades = Append(@, trade)]
  BY <1>d DEF EngineMatch
<1>b. PICK q : q = Least(t.left, maker.qty)
  OBVIOUS
<1>c. PICK trade :
        trade = (IF TakerSide(e) = "buy"
                 THEN [buy |-> t.eid, sell |-> maker.eid, price |-> maker.price, qty |-> q]
                 ELSE [buy |-> maker.eid, sell |-> t.eid, price |-> maker.price, qty |-> q])
  OBVIOUS
<1>3. /\ IsBest(books[s], TakerSide(e), maker)
      /\ q = Least(t.left, maker.qty)
      /\ trade = (IF TakerSide(e) = "buy"
                  THEN [buy |-> t.eid, sell |-> maker.eid, price |-> maker.price, qty |-> q]
                  ELSE [buy |-> maker.eid, sell |-> t.eid, price |-> maker.price, qty |-> q])
      /\ books' = [books EXCEPT ![s] = Take(@, maker, q)]
      /\ taker' = [taker EXCEPT ![e].left = @ - q, ![e].trades = Append(@, trade)]
  BY <1>a, <1>b, <1>c
<1>4. maker \in Resting /\ maker.eid \in Nat /\ maker.price \in Nat /\ maker.qty \in Nat
  BY <1>2, <1>3 DEF Resting
<1>5. t.left \in Int /\ t.eid \in Nat /\ t.left > 0 /\ t.trades \in Seq(Trade) /\ t.k \in Nat
  BY <1>d, <1>1, <1>2 DEF Taker
<1>6. q \in Nat
  BY <1>3, <1>4, <1>5 DEF Least
<1>7. /\ trade \in Trade /\ trade.price = maker.price /\ trade.qty = q
      /\ IF TakerSide(e) = "buy" THEN trade.buy = t.eid /\ trade.sell = maker.eid
                                 ELSE trade.buy = maker.eid /\ trade.sell = t.eid
  BY <1>3, <1>4, <1>5, <1>6 DEF Trade
<1>8. \A z \in Symbols : books'[z] = IF z = s THEN Take(books[z], maker, q) ELSE books[z]
  BY <1>2, <1>3
<1>9. PICK t2 : t2 = [t EXCEPT !.left = @ - q, !.trades = Append(@, trade)]
  OBVIOUS
<1>10. /\ t2.k = t.k /\ t2.eid = t.eid /\ t2.left = t.left - q /\ t2.trades = Append(t.trades, trade)
  BY <1>2, <1>9 DEF Taker
<1>11. t2 \in Taker
  <2>1. t.left - q \in Int
    BY <1>5, <1>6
  <2>2. Append(t.trades, trade) \in Seq(Trade)
    BY <1>5, <1>7
  <2>. QED  BY <1>2, <1>9, <2>1, <2>2 DEF Taker
<1>12. taker'[e] = t2 /\ \A x \in Engines : x # e => taker'[x] = taker[x]
  BY <1>d, <1>2, <1>3, <1>9
<1>13. t2 # NoTaker
  BY <1>11, ConstantsAssumption
<1>14. MatchStep(e, maker, q, trade)
  BY <1>d, <1>3, <1>7, <1>8, <1>10, <1>12, <1>13 DEF MatchStep
<1>. QED  BY <1>d, <1>3, <1>14

(* The trade is added to the answer, and only that changes in the answers. *)
LEMMA MatchAnswers ==
  ASSUME PInv, NEW e \in Engines, EngineMatch(e), NEW maker, NEW q, NEW trade,
         MatchStep(e, maker, q, trade), NEW k, k = taker[e].k
  PROVE  /\ Answer(k).eid = taker[e].eid /\ Answer(k).trades = taker[e].trades
         /\ (Answer(k)').eid = taker[e].eid
         /\ (Answer(k)').trades = Append(taker[e].trades, trade)
         /\ \A j \in 1..Len(admitted) : j # k => Answer(j)' = Answer(j)
<1>1. taker[e] # NoTaker /\ mem' = mem /\ admitted' = admitted /\ results' = results
  BY DEF EngineMatch, service, scratch
<1>2. k \in 1..Len(admitted) /\ k \notin DOMAIN results /\ EngineOf(k) = e /\ Submitted
  BY <1>1, TakerKnown
<1>3. \A j : EngineOf(j)' = EngineOf(j)
  BY <1>1 DEF EngineOf, SymbolOf
<1>4. \A j \in 1..Len(admitted) : EngineOf(j) \in Engines
  BY <1>2, GivenKnown
<1>5. Answer(k).eid = taker[e].eid /\ Answer(k).trades = taker[e].trades
  BY <1>1, <1>2 DEF Answer
<1>6. (Answer(k)').eid = taker[e].eid /\ (Answer(k)').trades = Append(taker[e].trades, trade)
  BY <1>1, <1>2, <1>3 DEF Answer, MatchStep
<1>7. ASSUME NEW j \in 1..Len(admitted), j # k PROVE Answer(j)' = Answer(j)
  <2>1. CASE EngineOf(j) = e
    BY <1>1, <1>3, <1>7, <2>1 DEF Answer, MatchStep
  <2>2. CASE EngineOf(j) # e
    <3>1. taker'[EngineOf(j)] = taker[EngineOf(j)]
      BY <1>4, <2>2 DEF MatchStep
    <3>. QED  BY <1>1, <1>3, <3>1 DEF Answer
  <2>. QED  BY <2>1, <2>2
<1>. QED  BY <1>5, <1>6, <1>7

(* An answer grows by one trade. *)
LEMMA AnswerGrows ==
  ASSUME Submitted, Submitted', mem' = mem, admitted' = admitted, NEW k \in 1..Len(admitted),
         NEW ts \in Seq(Trade), NEW trade \in Trade, Answer(k).trades = ts,
         (Answer(k)').trades = Append(ts, trade),
         \A j \in 1..Len(admitted) : j # k => Answer(j)' = Answer(j),
         NEW x, x = <<mem.orders[admitted[k]].market, k, trade>>
  PROVE  /\ Pending' = Pending \cup {x}
         /\ DistinctTrades /\ x \notin Pending => DistinctTrades'
<1>1. PICK ts2 : ts2 = Append(ts, trade)
  OBVIOUS
<1>2. /\ \A i \in DOMAIN ts : i \in DOMAIN ts2 /\ ts2[i] = ts[i]
      /\ Len(ts) + 1 \in DOMAIN ts2 /\ ts2[Len(ts) + 1] = trade
      /\ \A i \in DOMAIN ts2 : i \in DOMAIN ts \/ i = Len(ts) + 1
      /\ \A i, j \in DOMAIN ts2 : i < j => i \in DOMAIN ts
  BY <1>1
<1>3. (Answer(k)').trades = ts2
  BY <1>1
<1>4. ASSUME NEW y \in Pending' PROVE y \in Pending \cup {x}
  <2>0. PICK j \in 1..Len(admitted) : \E i \in DOMAIN (Answer(j)').trades :
          y = <<mem.orders[admitted[j]].market, j, (Answer(j)').trades[i]>>
    BY PendingIsNext
  <2>1. PICK i \in DOMAIN (Answer(j)').trades :
          y = <<mem.orders[admitted[j]].market, j, (Answer(j)').trades[i]>>
    BY <2>0
  <2>2. CASE j # k
    BY <2>1, <2>2, PendingIs
  <2>3. CASE j = k /\ i \in DOMAIN ts
    BY <1>2, <1>3, <2>1, <2>3, PendingIs
  <2>4. CASE j = k /\ i = Len(ts) + 1
    BY <1>2, <1>3, <2>1, <2>4
  <2>. QED  BY <1>2, <1>3, <2>1, <2>2, <2>3, <2>4
<1>5. ASSUME NEW y \in Pending PROVE y \in Pending'
  <2>0. PICK j \in 1..Len(admitted) : \E i \in DOMAIN Answer(j).trades :
          y = <<mem.orders[admitted[j]].market, j, Answer(j).trades[i]>>
    BY PendingIs
  <2>1. PICK i \in DOMAIN Answer(j).trades :
          y = <<mem.orders[admitted[j]].market, j, Answer(j).trades[i]>>
    BY <2>0
  <2>2. CASE j # k
    BY <2>1, <2>2, PendingIsNext
  <2>3. CASE j = k
    <3>1. i \in DOMAIN (Answer(j)').trades /\ y = <<mem'.orders[admitted'[j]].market, j, (Answer(j)').trades[i]>>
      BY <1>2, <1>3, <2>1, <2>3
    <3>. QED  BY <3>1, <2>1, PendingIsNext
  <2>. QED  BY <2>2, <2>3
<1>6. x \in Pending'
  <2>1. PICK i : i = Len(ts) + 1
    OBVIOUS
  <2>2. i \in DOMAIN (Answer(k)').trades /\ x = <<mem'.orders[admitted'[k]].market, k, (Answer(k)').trades[i]>>
    BY <1>2, <1>3, <2>1
  <2>. QED  BY <2>2, PendingIsNext
<1>7. ASSUME DistinctTrades, x \notin Pending PROVE DistinctTrades'
  <2>1. ASSUME NEW j \in 1..Len(admitted), j # k,
               NEW i1 \in DOMAIN (Answer(j)').trades, NEW i2 \in DOMAIN (Answer(j)').trades, i1 < i2
        PROVE  (Answer(j)').trades[i1] # (Answer(j)').trades[i2]
    BY <1>7, <2>1 DEF DistinctTrades
  <2>2. ASSUME NEW i1 \in DOMAIN ts2, NEW i2 \in DOMAIN ts2, i1 < i2
        PROVE  ts2[i1] # ts2[i2]
    <3>1. i1 \in DOMAIN ts
      BY <1>2, <2>2
    <3>2. CASE i2 \in DOMAIN ts
      BY <1>2, <1>7, <2>2, <3>1, <3>2 DEF DistinctTrades
    <3>3. CASE i2 = Len(ts) + 1
      <4>1. <<mem.orders[admitted[k]].market, k, ts[i1]>> \in Pending
        BY <3>1, PendingIs
      <4>. QED  BY <1>2, <1>7, <3>1, <3>3, <4>1
    <3>. QED  BY <1>2, <3>2, <3>3
  <2>. QED  BY <1>3, <2>1, <2>2 DEF DistinctTrades
<1>. QED  BY <1>4, <1>5, <1>6, <1>7

(* The makers of a trade came before its taker. *)
LEMMA EarlierPlace ==
  ASSUME PInv, FInv, NEW e \in Engines, taker[e] # NoTaker, NEW id \in DOMAIN Live,
         Live[id].market = TakerOrder(e).market, Live[id].eid # 0
  PROVE  mem.orders[id].eid # 0 \/ \E j \in 1..taker[e].k : admitted[j] = id
<1>d. PICK k : k = taker[e].k
  OBVIOUS
<1>1. /\ pc = "engine" /\ AwaitingIds /\ Submitted /\ k \in 1..Len(admitted) /\ k \notin DOMAIN results
      /\ EngineOf(k) = e /\ TakerOrder(e) = mem.orders[admitted[k]]
  BY <1>d, TakerKnown DEF TakerOrder
<1>2. id \in ActiveOrders(mem) /\ Live[id].market = mem.orders[id].market /\ Live[id].eid = Eid(id)
  BY LiveIs
<1>3. SUFFICES ASSUME mem.orders[id].eid = 0 PROVE \E j \in 1..k : admitted[j] = id
  BY <1>d
<1>4. Among(id) /\ Answer(PlaceOf(id)).eid # 0
  BY <1>1, <1>2, <1>3 DEF Eid
<1>5. PICK j \in 1..Len(admitted) : admitted[j] = id
  BY <1>4 DEF Among
<1>6. PlaceOf(id) = j
  BY <1>1, <1>5, PlaceIs
<1>7. EngineOf(j) = e
  BY <1>1, <1>2, <1>5, OneEngine
<1>8. j \in DOMAIN results \/ j = k
  BY <1>d, <1>4, <1>6, <1>7 DEF Answer
<1>9. j \in DOMAIN results => ~(k < j)
  BY <1>1, <1>7 DEF PInv, AnswersInOrder
<1>10. j <= k
  BY <1>1, <1>8, <1>9 DEF PInv, SInv, IInv, TypeOK
<1>. QED  BY <1>1, <1>5, <1>10 DEF PInv, SInv, IInv, TypeOK

LEMMA FEngineMatch ==
  ASSUME PInv, PInv', FInv, LedgersSound', NEW e \in Engines, EngineMatch(e)
  PROVE  FlightSound'
<1>a. PICK maker \in books[TakerSymbol(e)] : \E q, trade : MatchStep(e, maker, q, trade)
  BY MatchSteps
<1>b. PICK q, trade : MatchStep(e, maker, q, trade)
  BY <1>a
<1>d. PICK t, k, a, m, s : t = taker[e] /\ k = t.k /\ a = admitted[k] /\ m = mem.orders[a].market
         /\ s = TakerSymbol(e)
  OBVIOUS
<1>x. PICK x : x = <<m, k, trade>>
  OBVIOUS
<1>1. /\ pc = "engine" /\ taker[e] # NoTaker /\ mem' = mem /\ admitted' = admitted
      /\ change' = change /\ listed' = listed /\ pc' = pc /\ failed' = failed
      /\ op' = op /\ after' = after /\ results' = results /\ t.left > 0
      /\ CanTrade(books[s], TakerSide(e), TakerLimit(e))
  BY <1>d DEF EngineMatch, MoreToTrade, service, scratch, control
<1>2. Running /\ Submitted /\ AwaitingIds /\ Flight(Live, Pending, Matching, Served, BookOf)
      /\ \A id \in OrderIds : change.orders[id] = NoOrder
  BY <1>1, EngineRuns
<1>3. Submitted' /\ AwaitingIds' /\ Running'
  BY <1>1, <1>2 DEF Submitted, AwaitingIds, Running
<1>4. /\ t \in Taker /\ k \in 1..Len(admitted) /\ k \notin DOMAIN results /\ EngineOf(k) = e
      /\ a \in OrderIds /\ m \in Markets /\ s = mem.markets[m].symbol /\ s \in Symbols
      /\ books[s] \subseteq Resting /\ t.eid # 0 /\ TakerOrder(e) = mem.orders[a]
      /\ Partition[s] = e
  BY <1>1, <1>d, TakerKnown DEF TakerOrder, EngineOf, TakerSymbol
<1>5. /\ m \in Served /\ BookOf[m] = books[s] /\ a \in ActiveOrders(mem) /\ a \in Matching
  BY <1>1, <1>d, <1>4, TakerServed
<1>6. /\ Answer(k).eid = t.eid /\ Answer(k).trades = t.trades
      /\ (Answer(k)').eid = t.eid /\ (Answer(k)').trades = Append(t.trades, trade)
      /\ \A j \in 1..Len(admitted) : j # k => Answer(j)' = Answer(j)
  BY <1>b, <1>d, MatchAnswers
<1>7. /\ DOMAIN Live = ActiveOrders(mem) /\ a \in DOMAIN Live /\ Live[a].market = m
      /\ Live[a].side = TakerSide(e) /\ Live[a].price = TakerLimit(e) /\ Live[a].eid = t.eid
      /\ OwnIds(Live)
  <2>1. Eid(a) = t.eid
    BY <1>2, <1>4, <1>6, <1>d, PlaceIs
  <2>2. DOMAIN Live = ActiveOrders(mem) /\ OwnIds(Live)
    BY LiveIs
  <2>3. /\ Live[a].market = mem.orders[a].market /\ Live[a].side = EngineSide(mem.orders[a].side)
        /\ Live[a].price = EnginePrice(mem.orders[a].side, mem.orders[a].price)
        /\ Live[a].eid = Eid(a)
    BY <1>5, LiveIs
  <2>4. TakerSide(e) = EngineSide(mem.orders[a].side)
        /\ TakerLimit(e) = EnginePrice(mem.orders[a].side, mem.orders[a].price)
    BY <1>4 DEF TakerSide, TakerLimit
  <2>. QED  BY <1>4, <1>5, <1>d, <2>1, <2>2, <2>3, <2>4
<1>8. Live' = Live /\ ActiveOrders(mem)' = ActiveOrders(mem)
  <2>1. \A i : Among(i)' = Among(i) /\ PlaceOf(i)' = PlaceOf(i)
    BY <1>1 DEF Among, PlaceOf
  <2>2. ASSUME NEW i \in ActiveOrders(mem) PROVE Eid(i)' = Eid(i)
    <3>1. CASE Among(i)
      <4>1. PICK j \in 1..Len(admitted) : admitted[j] = i
        BY <3>1 DEF Among
      <4>2. PlaceOf(i) = j
        BY <1>2, <4>1, PlaceIs
      <4>3. (Answer(j)').eid = Answer(j).eid
        BY <1>6
      <4>. QED  BY <1>1, <1>2, <1>3, <2>1, <4>2, <4>3 DEF Eid
    <3>2. CASE ~Among(i)
      BY <1>1, <2>1, <3>2 DEF Eid
    <3>. QED  BY <3>1, <3>2
  <2>3. \A i \in ActiveOrders(mem) : Unfilled(Staged(i))' = Unfilled(Staged(i))
    BY <1>1 DEF Staged, Unfilled
  <2>. QED  BY <1>1, <2>2, <2>3, LiveKept
<1>9. x \notin Pending
  <2>1. ASSUME x \in Pending PROVE FALSE
    <3>1. PICK j \in 1..Len(admitted) : \E i \in DOMAIN Answer(j).trades :
            x = <<mem.orders[admitted[j]].market, j, Answer(j).trades[i]>>
      BY <1>2, <2>1, PendingIs
    <3>2. PICK i \in DOMAIN Answer(j).trades :
            x = <<mem.orders[admitted[j]].market, j, Answer(j).trades[i]>>
      BY <3>1
    <3>3. j = k /\ trade = t.trades[i] /\ i \in DOMAIN t.trades
      BY <1>x, <1>6, <3>2
    <3>4. maker.eid \notin {t.trades[i].buy, t.trades[i].sell}
      BY <1>1, <1>d, <3>3 DEF FInv, FlightSound, TakerLeft
    <3>5. maker.eid \in {trade.buy, trade.sell}
      BY <1>b DEF MatchStep
    <3>. QED  BY <3>3, <3>4, <3>5
  <2>. QED  BY <2>1
<1>10. trade \in Trade /\ t.trades \in Seq(Trade)
  BY <1>b, <1>4 DEF MatchStep, Taker
<1>11. Pending' = Pending \cup {x} /\ DistinctTrades'
  <2>1. DistinctTrades
    BY DEF FInv, FlightSound, FlightStaged
  <2>. QED  BY <1>d, <1>x, <1>1, <1>2, <1>3, <1>4, <1>6, <1>9, <1>10, <2>1, AnswerGrows
<1>12. Matching' = Matching
  <2>1. \A z \in Engines : /\ taker'[z] # NoTaker <=> taker[z] # NoTaker
                           /\ taker[z] # NoTaker => admitted'[taker'[z].k] = admitted[taker[z].k]
    BY <1>b, <1>1 DEF MatchStep
  <2>. QED  BY <2>1 DEF Matching
<1>13. Served' = Served /\ BooksTaken(Served, BookOf, BookOf', m, maker, q)
  <2>1. Served' = Served
    BY <1>1 DEF Served, MarketOpen
  <2>2. ASSUME NEW n \in Served PROVE BookOf'[n] = IF n = m THEN Take(BookOf[m], maker, q) ELSE BookOf[n]
    <3>1. n \in Markets /\ mem.markets[n] # NoMarket /\ mem.markets[n] \in Market
          /\ BookOf[n] = books[mem.markets[n].symbol]
          /\ BookOf'[n] = books'[mem.markets[n].symbol]
      BY <1>1, <2>1 DEF Served, BookOf, MarketOpen, PInv, SInv, IInv, TypeOK, LedgerType
    <3>2. mem.markets[n].symbol \in Symbols
      BY <3>1 DEF Market
    <3>3. mem.markets[n].symbol = s <=> n = m
      <4>1. mem.markets[m] # NoMarket
        BY <1>5 DEF Served, MarketOpen
      <4>. QED  BY <1>4, <3>1, <4>1 DEF FInv, LedgersSound, SymbolsOwn
    <3>. QED  BY <1>b, <1>d, <1>5, <3>1, <3>2, <3>3 DEF MatchStep
  <2>. QED  BY <2>1, <2>2 DEF BooksTaken
<1>14. /\ t.left = Left(Live, Pending, a)
       /\ maker \in BookOf[m]
  BY <1>1, <1>d, <1>5 DEF FInv, FlightSound, TakerLeft
<1>15. CanMatch(Live, Pending, m, a, maker, q)
  <2>1. maker \in Opposite(books[s], TakerSide(e)) /\ q = Least(t.left, maker.qty)
        /\ \A o \in Opposite(books[s], TakerSide(e)) \ {maker} : Before(TakerSide(e), maker, o)
    BY <1>b, <1>d DEF MatchStep, IsBest
  <2>2. PICK o \in Opposite(books[s], TakerSide(e)) : Crosses(TakerSide(e), TakerLimit(e), o)
    BY <1>1 DEF CanTrade
  <2>3. TakerSide(e) \in EngineSides /\ TakerLimit(e) \in Nat /\ o.price \in Nat /\ maker.price \in Nat
        /\ maker.side # TakerSide(e)
    BY <1>1, <1>4, <2>1, <2>2, TakerKnown DEF Opposite, Resting
  <2>4. Crosses(TakerSide(e), TakerLimit(e), maker)
    <3>1. CASE o = maker
      BY <2>2, <3>1
    <3>2. CASE o # maker
      BY <2>1, <2>2, <2>3, <3>2 DEF Crosses, Before, EngineSides
    <3>. QED  BY <3>1, <3>2
  <2>. QED  BY <1>1, <1>4, <1>7, <1>14, <2>1, <2>3, <2>4 DEF CanMatch
<1>16. x \in InFlight /\ TradeOf(Live, m, a, maker, q, x) /\ x[1] = m /\ x[2] = k /\ x[3] = trade
  <2>1. k \in Nat
    BY <1>4 DEF PInv, SInv, IInv, TypeOK
  <2>2. x \in InFlight /\ x[1] = m /\ x[2] = k /\ x[3] = trade
    BY <1>x, <1>4, <1>10, <2>1 DEF InFlight
  <2>. QED  BY <1>b, <1>d, <1>7, <2>2 DEF TradeOf, MatchStep
<1>17. PICK L, P, K, S, B, B2, Q :
         /\ L = Live /\ P = Pending /\ K = Matching /\ S = Served /\ B = BookOf /\ B2 = BookOf'
         /\ Q = P \cup {x}
  OBVIOUS
<1>18. /\ Flight(L, P, K, S, B) /\ OwnIds(L) /\ m \in S /\ a \in DOMAIN L /\ a \in K /\ maker \in B[m]
       /\ CanMatch(L, P, m, a, maker, q) /\ x \in InFlight /\ x \notin P
       /\ TradeOf(L, m, a, maker, q, x) /\ BooksTaken(S, B, B2, m, maker, q)
  BY <1>2, <1>5, <1>7, <1>9, <1>13, <1>14, <1>15, <1>16, <1>17
<1>19. /\ Flight(L, Q, K, S, B2) /\ LeftDrops(L, P, Q, a, q)
       /\ OthersLeft(L, P, Q, K, a) /\ q \in Nat /\ q > 0
  BY <1>17, <1>18, FlightMatch
<1>20. FlightInv'
  BY <1>8, <1>11, <1>12, <1>13, <1>17, <1>19 DEF FlightInv
<1>21. TakerLeft'
  <2>0. \A z : TakerSymbol(z)' = mem.markets[mem.orders[admitted[taker'[z].k]].market].symbol
    BY <1>1 DEF TakerSymbol, SymbolOf
  <2>1. ASSUME NEW z \in Engines, taker'[z] # NoTaker, z # e
        PROVE  /\ taker'[z].left = Left(Live', Pending', admitted'[taker'[z].k])
               /\ taker'[z].left > 0 =>
                    \A i \in DOMAIN taker'[z].trades : \A o \in books'[TakerSymbol(z)'] :
                      o.eid \notin {taker'[z].trades[i].buy, taker'[z].trades[i].sell}
    <3>1. taker'[z] = taker[z] /\ taker[z] # NoTaker
      BY <1>b, <2>1 DEF MatchStep
    <3>2. /\ admitted[taker[z].k] \in DOMAIN L /\ admitted[taker[z].k] \in K
          /\ taker[z].k \in 1..Len(admitted) /\ EngineOf(taker[z].k) = z /\ TakerSymbol(z) \in Symbols
      BY <1>7, <1>17, <3>1, TakerServed, TakerKnown
    <3>3. TakerSymbol(z)' = TakerSymbol(z) /\ Partition[TakerSymbol(z)] = z
      BY <2>0, <3>1, <3>2 DEF TakerSymbol, SymbolOf, EngineOf
    <3>4. admitted[taker[z].k] # a /\ books'[TakerSymbol(z)] = books[TakerSymbol(z)]
      <4>1. admitted[taker[z].k] = admitted[k] => taker[z].k = k
        BY <1>2, <1>4, <3>2, OneEngine
      <4>2. taker[z].k # k
        BY <1>4, <2>1, <3>2
      <4>3. TakerSymbol(z) # TakerSymbol(e)
        BY <1>d, <1>4, <2>1, <3>3
      <4>4. books'[TakerSymbol(z)] = books[TakerSymbol(z)]
        BY <1>b, <3>2, <4>3 DEF MatchStep
      <4>. QED  BY <1>d, <4>1, <4>2, <4>4
    <3>5. Left(L, Q, admitted[taker[z].k]) = Left(L, P, admitted[taker[z].k])
      BY <1>19, <3>2, <3>4 DEF OthersLeft
    <3>. QED  BY <1>1, <1>8, <1>11, <1>17, <3>1, <3>3, <3>4, <3>5 DEF FInv, FlightSound, TakerLeft
  <2>2. taker'[e].k = k /\ admitted'[k] = a /\ TakerSymbol(e)' = s
    BY <1>b, <1>d, <1>1, <2>0 DEF MatchStep, TakerSymbol, SymbolOf
  <2>3. taker'[e].left = Left(Live', Pending', a)
    <3>1. taker'[e].left = t.left - q
      BY <1>b, <1>d DEF MatchStep
    <3>. QED  BY <1>8, <1>11, <1>14, <1>17, <1>19, <3>1 DEF LeftDrops
  <2>4. ASSUME taker'[e].left > 0, NEW i \in DOMAIN taker'[e].trades, NEW o \in books'[s]
        PROVE  o.eid \notin {taker'[e].trades[i].buy, taker'[e].trades[i].sell}
    <3>1. /\ taker'[e].trades = Append(t.trades, trade) /\ books'[s] = Take(books[s], maker, q)
          /\ taker'[e].left = t.left - q /\ q = Least(t.left, maker.qty)
      BY <1>b, <1>d, <1>4 DEF MatchStep
    <3>2. maker \in Resting
      BY <1>d, <1>4
    <3>3. q = maker.qty
      BY <1>4, <2>4, <3>1, <3>2 DEF Least, Taker, Resting
    <3>4. o \in books[s] /\ o # maker
      BY <2>4, <3>1, <3>3 DEF Take
    <3>5. CASE i \in DOMAIN t.trades
      <4>1. taker'[e].trades[i] = t.trades[i]
        BY <1>10, <3>1, <3>5
      <4>. QED  BY <1>1, <1>d, <3>4, <3>5, <4>1 DEF FInv, FlightSound, TakerLeft
    <3>6. CASE i \notin DOMAIN t.trades
      <4>1. taker'[e].trades[i] = trade
        BY <1>10, <2>4, <3>1, <3>6
      <4>2. o \in B[m] /\ L[a].market = m /\ L[a].eid = t.eid
        BY <1>5, <1>7, <1>17, <3>4
      <4>3. o.eid # t.eid /\ o.eid # maker.eid
        BY <1>18, <3>4, <4>2, BookIds
      <4>4. {trade.buy, trade.sell} \subseteq {t.eid, maker.eid}
        BY <1>b, <1>d DEF MatchStep
      <4>. QED  BY <4>1, <4>3, <4>4
    <3>. QED  BY <3>5, <3>6
  <2>. QED  BY <2>1, <2>2, <2>3, <2>4 DEF TakerLeft
<1>22. TradesKnown'
  <2>1. ASSUME NEW y \in Pending \cup {x}, NEW id \in DOMAIN Live,
               Live[id].market = y[1], Live[id].eid \in {y[3].buy, y[3].sell}
        PROVE  mem.orders[id].eid # 0 \/ \E j \in 1..y[2] : admitted[j] = id
    <3>1. CASE y \in Pending
      BY <2>1, <3>1 DEF FInv, FlightSound, FlightStaged, TradesKnown
    <3>2. CASE y = x
      <4>1. {trade.buy, trade.sell} \subseteq {t.eid, maker.eid}
        BY <1>b, <1>d DEF MatchStep
      <4>2. maker.eid # 0
        BY <1>7, <1>17, <1>18, BookIds
      <4>3. Live[id].eid # 0 /\ Live[id].market = TakerOrder(e).market
        BY <1>d, <1>4, <1>16, <2>1, <3>2, <4>1, <4>2
      <4>. QED  BY <1>1, <1>d, <1>16, <3>2, <4>3, EarlierPlace
    <3>. QED  BY <2>1, <3>1, <3>2
  <2>. QED  BY <1>1, <1>8, <1>11, <2>1 DEF TradesKnown
<1>23. Drained' /\ Unstaged' /\ OneMarket'
  BY <1>1 DEF Drained, Unstaged, OneMarket
<1>. QED  BY <1>11, <1>20, <1>21, <1>22, <1>23 DEF FlightSound, FlightStaged

-----------------------------------------------------------------------------
(* EngineFinish and EngineRestart. *)

(* EngineFinish: the answers stay, the rest goes on the book. *)
FinishStep(e) ==
  /\ \A s \in Symbols : books'[s] =
       IF s = TakerSymbol(e) /\ taker[e].left > 0
       THEN books[s] \cup {[eid |-> taker[e].eid, side |-> TakerSide(e), price |-> TakerLimit(e),
                            qty |-> taker[e].left]}
       ELSE books[s]
  /\ taker'[e] = NoTaker /\ \A x \in Engines : x # e => taker'[x] = taker[x]

LEMMA FinishSteps ==
  ASSUME PInv, NEW e \in Engines, EngineFinish(e)
  PROVE  /\ FinishStep(e)
         /\ \A j \in 1..Len(admitted) : (Answer(j)').eid = Answer(j).eid
                                        /\ (Answer(j)').trades = Answer(j).trades
<1>d. PICK t, s, k : t = taker[e] /\ s = TakerSymbol(e) /\ k = t.k
  OBVIOUS
<1>1. /\ pc = "engine" /\ taker[e] # NoTaker /\ mem' = mem /\ admitted' = admitted
      /\ books' = [books EXCEPT ![s] = IF t.left > 0
           THEN @ \cup {[eid |-> t.eid, side |-> TakerSide(e), price |-> TakerLimit(e), qty |-> t.left]}
           ELSE @]
      /\ results' = [j \in DOMAIN results \cup {k} |->
                          IF j = k THEN [eid |-> t.eid, trades |-> t.trades] ELSE results[j]]
      /\ taker' = [taker EXCEPT ![e] = NoTaker]
  BY <1>d DEF EngineFinish, service, scratch
<1>2. /\ s \in Symbols /\ taker \in [Engines -> Taker \cup {NoTaker}]
      /\ books \in [Symbols -> SUBSET Resting]
  BY <1>d, <1>1, TakerKnown DEF PInv, SInv, IInv, TypeOK
<1>3. FinishStep(e)
  <2>1. taker'[e] = NoTaker /\ \A x \in Engines : x # e => taker'[x] = taker[x]
    BY <1>1, <1>2
  <2>2. \A z \in Symbols : books'[z] = IF z = s /\ t.left > 0
          THEN books[z] \cup {[eid |-> t.eid, side |-> TakerSide(e), price |-> TakerLimit(e), qty |-> t.left]}
          ELSE books[z]
    BY <1>1, <1>2
  <2>. QED  BY <1>d, <2>1, <2>2 DEF FinishStep
<1>4. k \in 1..Len(admitted) /\ k \notin DOMAIN results /\ EngineOf(k) = e /\ Submitted
  BY <1>d, <1>1, TakerKnown
<1>5. \A j : EngineOf(j)' = EngineOf(j)
  BY <1>1 DEF EngineOf, SymbolOf
<1>6. \A j \in 1..Len(admitted) : EngineOf(j) \in Engines
  BY <1>4, GivenKnown
<1>7. /\ DOMAIN results' = DOMAIN results \cup {k}
      /\ results'[k].eid = t.eid /\ results'[k].trades = t.trades
      /\ \A j \in DOMAIN results : results'[j] = results[j]
  BY <1>1, <1>4
<1>8. ASSUME NEW j \in 1..Len(admitted)
      PROVE  (Answer(j)').eid = Answer(j).eid /\ (Answer(j)').trades = Answer(j).trades
  <2>1. CASE j = k
    <3>1. Answer(j).eid = t.eid /\ Answer(j).trades = t.trades
      BY <1>d, <1>1, <1>4, <2>1 DEF Answer
    <3>2. Answer(j)' = results'[k]
      BY <1>7, <2>1 DEF Answer
    <3>. QED  BY <1>7, <3>1, <3>2
  <2>2. CASE j \in DOMAIN results
    BY <1>7, <2>2 DEF Answer
  <2>3. CASE j \notin DOMAIN results /\ j # k /\ EngineOf(j) = e
    <3>1. Answer(j)' = [eid |-> 0, trades |-> <<>>]
      BY <1>3, <1>5, <1>7, <2>3 DEF Answer, FinishStep
    <3>2. Answer(j) = [eid |-> 0, trades |-> <<>>]
      BY <1>d, <2>3 DEF Answer
    <3>. QED  BY <3>1, <3>2
  <2>4. CASE j \notin DOMAIN results /\ j # k /\ EngineOf(j) # e
    <3>1. taker'[EngineOf(j)] = taker[EngineOf(j)]
      BY <1>3, <1>6, <2>4 DEF FinishStep
    <3>2. Answer(j)' = Answer(j)
      BY <1>5, <1>7, <2>4, <3>1 DEF Answer
    <3>. QED  BY <3>2
  <2>. QED  BY <2>1, <2>2, <2>3, <2>4
<1>. QED  BY <1>3, <1>8

LEMMA FEngineFinish ==
  ASSUME PInv, PInv', FInv, LedgersSound', NEW e \in Engines, EngineFinish(e)
  PROVE  FlightSound'
<1>d. PICK t, k, a, m, s : t = taker[e] /\ k = t.k /\ a = admitted[k] /\ m = mem.orders[a].market
         /\ s = TakerSymbol(e)
  OBVIOUS
<1>1. /\ pc = "engine" /\ taker[e] # NoTaker /\ mem' = mem /\ admitted' = admitted
      /\ change' = change /\ listed' = listed /\ pc' = pc /\ failed' = failed
      /\ op' = op /\ after' = after
  BY <1>d DEF EngineFinish, service, scratch, control
<1>2. Running /\ Submitted /\ AwaitingIds /\ Flight(Live, Pending, Matching, Served, BookOf)
      /\ \A id \in OrderIds : change.orders[id] = NoOrder
  BY <1>1, EngineRuns
<1>3. Submitted' /\ AwaitingIds' /\ Running'
  BY <1>1, <1>2 DEF Submitted, AwaitingIds, Running
<1>4. /\ t \in Taker /\ k \in 1..Len(admitted) /\ k \notin DOMAIN results /\ EngineOf(k) = e
      /\ a \in OrderIds /\ m \in Markets /\ s = mem.markets[m].symbol /\ s \in Symbols
      /\ t.eid # 0 /\ TakerOrder(e) = mem.orders[a] /\ Partition[s] = e
  BY <1>1, <1>d, TakerKnown DEF TakerOrder, EngineOf, TakerSymbol
<1>5. /\ m \in Served /\ BookOf[m] = books[s] /\ a \in ActiveOrders(mem) /\ a \in Matching
  BY <1>1, <1>d, <1>4, TakerServed
<1>6. /\ FinishStep(e)
      /\ \A j \in 1..Len(admitted) : (Answer(j)').eid = Answer(j).eid
                                     /\ (Answer(j)').trades = Answer(j).trades
  BY FinishSteps
<1>7. /\ DOMAIN Live = ActiveOrders(mem) /\ a \in DOMAIN Live /\ Live[a].market = m
      /\ Live[a].side = TakerSide(e) /\ Live[a].price = TakerLimit(e) /\ Live[a].eid = t.eid
  <2>1. Answer(k).eid = t.eid
    BY <1>d, <1>1, <1>4 DEF Answer
  <2>2. Eid(a) = t.eid
    BY <1>2, <1>4, <1>d, <2>1, PlaceIs
  <2>3. DOMAIN Live = ActiveOrders(mem) /\ a \in DOMAIN Live
    BY <1>5, LiveIs
  <2>4. /\ Live[a].market = mem.orders[a].market
        /\ Live[a].side = EngineSide(mem.orders[a].side)
        /\ Live[a].price = EnginePrice(mem.orders[a].side, mem.orders[a].price)
        /\ Live[a].eid = Eid(a)
    BY <2>3, LiveIs
  <2>5. TakerSide(e) = EngineSide(mem.orders[a].side)
        /\ TakerLimit(e) = EnginePrice(mem.orders[a].side, mem.orders[a].price)
    BY <1>4 DEF TakerSide, TakerLimit
  <2>. QED  BY <1>d, <2>2, <2>3, <2>4, <2>5
<1>8. Live' = Live /\ ActiveOrders(mem)' = ActiveOrders(mem)
  <2>1. \A i : Among(i)' = Among(i) /\ PlaceOf(i)' = PlaceOf(i)
    BY <1>1 DEF Among, PlaceOf
  <2>2. ASSUME NEW i \in ActiveOrders(mem) PROVE Eid(i)' = Eid(i)
    <3>1. CASE Among(i)
      <4>1. PICK j \in 1..Len(admitted) : admitted[j] = i
        BY <3>1 DEF Among
      <4>2. PlaceOf(i) = j
        BY <1>2, <4>1, PlaceIs
      <4>3. (Answer(j)').eid = Answer(j).eid
        BY <1>6
      <4>. QED  BY <1>1, <1>2, <1>3, <2>1, <4>2, <4>3 DEF Eid
    <3>2. CASE ~Among(i)
      BY <1>1, <2>1, <3>2 DEF Eid
    <3>. QED  BY <3>1, <3>2
  <2>3. \A i \in ActiveOrders(mem) : Unfilled(Staged(i))' = Unfilled(Staged(i))
    BY <1>1 DEF Staged, Unfilled
  <2>. QED  BY <1>1, <2>2, <2>3, LiveKept
<1>11. Pending' = Pending /\ DistinctTrades'
  <2>1. DistinctTrades
    BY DEF FInv, FlightSound, FlightStaged
  <2>. QED  BY <1>1, <1>2, <1>3, <1>6, <2>1, AnswersSame
<1>12. Matching' = Matching \ {a}
  <2>1. ASSUME NEW z \in Matching' PROVE z \in Matching \ {a}
    <3>1. PICK x \in Engines : taker'[x] # NoTaker /\ z = admitted'[taker'[x].k]
      BY DEF Matching
    <3>2. x # e /\ taker'[x] = taker[x]
      BY <1>6, <3>1 DEF FinishStep
    <3>3. taker[x].k \in 1..Len(admitted) /\ EngineOf(taker[x].k) = x
      BY <3>1, <3>2, TakerKnown
    <3>4. z # a
      <4>1. PICK j : j = taker[x].k
        OBVIOUS
      <4>2. j \in 1..Len(admitted) /\ j # k /\ z = admitted[j] /\ a = admitted[k]
        BY <1>d, <1>1, <1>4, <3>1, <3>2, <3>3, <4>1
      <4>. QED  BY <1>2, <1>4, <4>2, OneEngine
    <3>. QED  BY <1>1, <3>1, <3>2, <3>4 DEF Matching
  <2>2. ASSUME NEW z \in Matching \ {a} PROVE z \in Matching'
    <3>1. PICK x \in Engines : taker[x] # NoTaker /\ z = admitted[taker[x].k]
      BY DEF Matching
    <3>2. x # e
      <4>1. a = admitted[taker[e].k]
        BY <1>d
      <4>2. z # a
        BY <2>2
      <4>. QED  BY <3>1, <4>1, <4>2
    <3>3. taker'[x] # NoTaker /\ z = admitted'[taker'[x].k]
      BY <1>1, <1>6, <3>1, <3>2 DEF FinishStep
    <3>. QED  BY <3>3 DEF Matching
  <2>. QED  BY <2>1, <2>2
<1>14. t.left = Left(Live, Pending, a)
  BY <1>1, <1>d, <1>5 DEF FInv, FlightSound, TakerLeft
<1>13. Served' = Served /\ BooksRest(Live, Pending, Served, BookOf, BookOf', a)
  <2>1. Served' = Served
    BY <1>1 DEF Served, MarketOpen
  <2>a. PICK rest : rest = [eid |-> t.eid, side |-> TakerSide(e), price |-> TakerLimit(e), qty |-> t.left]
    OBVIOUS
  <2>b. rest = Rest(Live, Pending, a)
    BY <1>7, <1>14, <2>a DEF Rest
  <2>2. ASSUME NEW n \in Served
        PROVE  BookOf'[n] = IF n = Live[a].market /\ Left(Live, Pending, a) > 0
                            THEN BookOf[n] \cup {Rest(Live, Pending, a)} ELSE BookOf[n]
    <3>1. n \in Markets /\ mem.markets[n] # NoMarket /\ mem.markets[n] \in Market
          /\ BookOf[n] = books[mem.markets[n].symbol]
          /\ BookOf'[n] = books'[mem.markets[n].symbol]
      BY <1>1, <2>1 DEF Served, BookOf, MarketOpen, PInv, SInv, IInv, TypeOK, LedgerType
    <3>2. mem.markets[n].symbol \in Symbols
      BY <3>1 DEF Market
    <3>3. mem.markets[n].symbol = s <=> n = m
      <4>1. mem.markets[m] # NoMarket
        BY <1>5 DEF Served, MarketOpen
      <4>. QED  BY <1>4, <3>1, <4>1 DEF FInv, LedgersSound, SymbolsOwn
    <3>4. books'[mem.markets[n].symbol] =
            IF mem.markets[n].symbol = s /\ t.left > 0 THEN books[mem.markets[n].symbol] \cup {rest}
            ELSE books[mem.markets[n].symbol]
      BY <1>6, <1>d, <2>a, <3>2 DEF FinishStep
    <3>. QED  BY <1>7, <1>14, <2>b, <3>1, <3>3, <3>4
  <2>. QED  BY <2>1, <2>2 DEF BooksRest
<1>17. PICK L, P, K, S, B, B2, J :
         /\ L = Live /\ P = Pending /\ K = Matching /\ S = Served /\ B = BookOf /\ B2 = BookOf'
         /\ J = K \ {a}
  OBVIOUS
<1>18. /\ Flight(L, P, K, S, B) /\ a \in DOMAIN L /\ a \in K /\ L[a].eid # 0
       /\ BooksRest(L, P, S, B, B2, a)
  BY <1>2, <1>4, <1>5, <1>7, <1>13, <1>17
<1>19. Flight(L, P, J, S, B2)
  BY <1>17, <1>18, FlightFinish
<1>20. FlightInv'
  BY <1>8, <1>11, <1>12, <1>13, <1>17, <1>19 DEF FlightInv
<1>21. TakerLeft'
  <2>0. \A z : TakerSymbol(z)' = mem.markets[mem.orders[admitted[taker'[z].k]].market].symbol
    BY <1>1 DEF TakerSymbol, SymbolOf
  <2>1. ASSUME NEW z \in Engines, taker'[z] # NoTaker
        PROVE  /\ taker'[z].left = Left(Live', Pending', admitted'[taker'[z].k])
               /\ taker'[z].left > 0 =>
                    \A i \in DOMAIN taker'[z].trades : \A o \in books'[TakerSymbol(z)'] :
                      o.eid \notin {taker'[z].trades[i].buy, taker'[z].trades[i].sell}
    <3>1. taker'[z] = taker[z] /\ taker[z] # NoTaker /\ z # e
      BY <1>6, <2>1 DEF FinishStep
    <3>2. taker[z].k \in 1..Len(admitted) /\ EngineOf(taker[z].k) = z /\ TakerSymbol(z) \in Symbols
      BY <3>1, TakerKnown
    <3>3. TakerSymbol(z)' = TakerSymbol(z) /\ Partition[TakerSymbol(z)] = z
      BY <2>0, <3>1, <3>2 DEF TakerSymbol, SymbolOf, EngineOf
    <3>4. books'[TakerSymbol(z)] = books[TakerSymbol(z)]
      BY <1>6, <1>d, <1>4, <3>1, <3>2, <3>3 DEF FinishStep
    <3>. QED  BY <1>1, <1>8, <1>11, <3>1, <3>3, <3>4 DEF FInv, FlightSound, TakerLeft
  <2>. QED  BY <2>1 DEF TakerLeft
<1>22. TradesKnown'
  BY <1>1, <1>8, <1>11 DEF FInv, FlightSound, FlightStaged, TradesKnown
<1>23. Drained' /\ Unstaged' /\ OneMarket'
  BY <1>1 DEF Drained, Unstaged, OneMarket
<1>. QED  BY <1>11, <1>20, <1>21, <1>22, <1>23 DEF FlightSound, FlightStaged

(* EngineRestart: the order the engine was matching loses its id and its
   trades, and the engine's markets are no longer served. *)
LEMMA RestartAnswers ==
  ASSUME PInv, NEW e \in Engines, EngineRestart(e), Submitted, NEW j \in 1..Len(admitted)
  PROVE  \/ Answer(j)' = Answer(j)
         \/ /\ taker[e] # NoTaker /\ j = taker[e].k
            /\ (Answer(j)').eid = 0 /\ (Answer(j)').trades = <<>>
<1>1. /\ mem' = mem /\ admitted' = admitted /\ results' = results
      /\ taker' = [taker EXCEPT ![e] = NoTaker]
  BY DEF EngineRestart, service, scratch
<1>2. taker'[e] = NoTaker /\ \A x \in Engines : x # e => taker'[x] = taker[x]
  BY <1>1 DEF PInv, SInv, IInv, TypeOK
<1>3. EngineOf(j)' = EngineOf(j) /\ EngineOf(j) \in Engines
  BY <1>1, GivenKnown DEF EngineOf, SymbolOf
<1>4. CASE j \in DOMAIN results
  BY <1>1, <1>4 DEF Answer
<1>5. CASE j \notin DOMAIN results /\ EngineOf(j) # e
  <2>1. taker'[EngineOf(j)] = taker[EngineOf(j)]
    BY <1>2, <1>3, <1>5
  <2>. QED  BY <1>1, <1>3, <1>5, <2>1 DEF Answer
<1>6. CASE j \notin DOMAIN results /\ EngineOf(j) = e
  <2>1. Answer(j)' = [eid |-> 0, trades |-> <<>>]
    BY <1>1, <1>2, <1>3, <1>6 DEF Answer
  <2>2. CASE taker[e] # NoTaker /\ j = taker[e].k
    BY <2>1, <2>2
  <2>3. CASE ~(taker[e] # NoTaker /\ j = taker[e].k)
    BY <1>6, <2>1, <2>3 DEF Answer
  <2>. QED  BY <2>2, <2>3
<1>. QED  BY <1>4, <1>5, <1>6

(* What the restart leaves of the ids. *)
LEMMA RestartIds ==
  ASSUME PInv, PInv', NEW e \in Engines, EngineRestart(e), NEW id \in ActiveOrders(mem)
  PROVE  \/ Eid(id)' = Eid(id)
         \/ /\ taker[e] # NoTaker /\ id = admitted[taker[e].k] /\ Eid(id)' = 0
<1>1. /\ mem' = mem /\ admitted' = admitted /\ results' = results /\ pc' = pc /\ op' = op
      /\ after' = after /\ taker' = [taker EXCEPT ![e] = NoTaker]
  BY DEF EngineRestart, service, scratch, control
<1>2. Among(id)' = Among(id) /\ PlaceOf(id)' = PlaceOf(id) /\ AwaitingIds' = AwaitingIds
  BY <1>1 DEF Among, PlaceOf, AwaitingIds
<1>3. CASE mem.orders[id].eid # 0 \/ ~AwaitingIds \/ ~Among(id)
  BY <1>1, <1>2, <1>3 DEF Eid
<1>4. CASE mem.orders[id].eid = 0 /\ AwaitingIds /\ Among(id)
  <2>1. PICK j \in 1..Len(admitted) : admitted[j] = id
    BY <1>4 DEF Among
  <2>2. PlaceOf(id) = j
    BY <1>4, <2>1, PlaceIs
  <2>3. Eid(id) = Answer(j).eid /\ Eid(id)' = (Answer(j)').eid
    BY <1>1, <1>2, <1>4, <2>2 DEF Eid
  <2>4. CASE Submitted
    BY <2>1, <2>3, <2>4, RestartAnswers
  <2>5. CASE ~Submitted
    <3>1. j \in DOMAIN results
      BY <1>4, <2>5 DEF Submitted, AwaitingIds, PInv, SubmittedInOrder, SInv, IInv, Control
    <3>2. Answer(j)' = Answer(j)
      BY <1>1, <3>1 DEF Answer
    <3>. QED  BY <2>3, <3>2
  <2>. QED  BY <2>4, <2>5
<1>. QED  BY <1>3, <1>4

LEMMA RestartPending ==
  ASSUME PInv, NEW e \in Engines, EngineRestart(e)
  PROVE  /\ Pending' \subseteq Pending
         /\ \A x \in Pending : x \in Pending' \/
              (taker[e] # NoTaker /\ x[2] = taker[e].k /\ x[1] = TakerOrder(e).market)
         /\ \A x \in Pending' : ~(taker[e] # NoTaker /\ x[2] = taker[e].k)
         /\ DistinctTrades => DistinctTrades'
<1>1. /\ mem' = mem /\ admitted' = admitted /\ results' = results /\ pc' = pc /\ op' = op
      /\ after' = after /\ taker' = [taker EXCEPT ![e] = NoTaker]
  BY DEF EngineRestart, service, scratch, control
<1>2. Submitted' = Submitted
  BY <1>1 DEF Submitted
<1>3. CASE ~Submitted
  BY <1>2, <1>3 DEF Pending, DistinctTrades
<1>4. CASE Submitted
  <2>0. Submitted /\ Submitted'
    BY <1>2, <1>4
  <2>1. ASSUME NEW x \in Pending'
        PROVE  x \in Pending /\ ~(taker[e] # NoTaker /\ x[2] = taker[e].k)
    <3>1. PICK j \in 1..Len(admitted) : \E i \in DOMAIN (Answer(j)').trades :
            x = <<mem.orders[admitted[j]].market, j, (Answer(j)').trades[i]>>
      BY <1>1, <2>0, PendingIsNext
    <3>2. PICK i \in DOMAIN (Answer(j)').trades :
            x = <<mem.orders[admitted[j]].market, j, (Answer(j)').trades[i]>>
      BY <3>1
    <3>3. (Answer(j)').trades # <<>> /\ x[2] = j
      BY <3>2
    <3>4. Answer(j)' = Answer(j)
      BY <1>4, <3>3, RestartAnswers
    <3>5. x \in Pending
      BY <2>0, <3>2, <3>4, PendingIs
    <3>6. ASSUME taker[e] # NoTaker, j = taker[e].k PROVE FALSE
      <4>1. j \notin DOMAIN results /\ EngineOf(j) = e
        BY <3>6, TakerKnown
      <4>2. taker'[e] = NoTaker /\ EngineOf(j)' = e
        BY <1>1, <4>1 DEF PInv, SInv, IInv, TypeOK, EngineOf, SymbolOf
      <4>3. Answer(j)' = [eid |-> 0, trades |-> <<>>]
        BY <1>1, <4>1, <4>2 DEF Answer
      <4>. QED  BY <3>3, <4>3
    <3>. QED  BY <3>3, <3>5, <3>6
  <2>2. ASSUME NEW x \in Pending
        PROVE  x \in Pending' \/
                (taker[e] # NoTaker /\ x[2] = taker[e].k /\ x[1] = TakerOrder(e).market)
    <3>1. PICK j \in 1..Len(admitted) : \E i \in DOMAIN Answer(j).trades :
            x = <<mem.orders[admitted[j]].market, j, Answer(j).trades[i]>>
      BY <2>0, PendingIs
    <3>2. PICK i \in DOMAIN Answer(j).trades :
            x = <<mem.orders[admitted[j]].market, j, Answer(j).trades[i]>>
      BY <3>1
    <3>3. CASE Answer(j)' = Answer(j)
      BY <1>1, <2>0, <3>2, <3>3, PendingIsNext
    <3>4. CASE taker[e] # NoTaker /\ j = taker[e].k
      BY <3>2, <3>4 DEF TakerOrder
    <3>. QED  BY <1>4, <3>3, <3>4, RestartAnswers
  <2>3. ASSUME DistinctTrades PROVE DistinctTrades'
    <3>1. ASSUME NEW j \in 1..Len(admitted), NEW i1 \in DOMAIN (Answer(j)').trades,
                 NEW i2 \in DOMAIN (Answer(j)').trades, i1 < i2
          PROVE  (Answer(j)').trades[i1] # (Answer(j)').trades[i2]
      <4>1. CASE Answer(j)' = Answer(j)
        BY <1>4, <2>3, <3>1, <4>1 DEF DistinctTrades
      <4>2. CASE (Answer(j)').trades = <<>>
        BY <3>1, <4>2
      <4>. QED  BY <1>4, <4>1, <4>2, RestartAnswers
    <3>. QED  BY <1>1, <3>1 DEF DistinctTrades
  <2>. QED  BY <2>1, <2>2, <2>3
<1>. QED  BY <1>3, <1>4

(* No answer still standing names the order whose matching was lost. *)
LEMMA LostUnnamed ==
  ASSUME PInv, FInv, NEW e \in Engines, taker[e] # NoTaker, NEW x \in Pending, x[2] # taker[e].k,
         NEW id, id = admitted[taker[e].k], Live[id].market = x[1], Live[id].eid \in {x[3].buy, x[3].sell}
  PROVE  FALSE
<1>d. PICK k : k = taker[e].k
  OBVIOUS
<1>1. /\ pc = "engine" /\ AwaitingIds /\ Submitted /\ k \in 1..Len(admitted) /\ k \notin DOMAIN results
      /\ EngineOf(k) = e /\ id \in OrderIds
  BY <1>d, TakerKnown DEF TakerOrder
<1>2. id \in DOMAIN Live /\ Live[id].market = mem.orders[id].market
  BY TakerServed, LiveIs
<1>3. PICK j \in 1..Len(admitted) : \E i \in DOMAIN Answer(j).trades :
            x = <<mem.orders[admitted[j]].market, j, Answer(j).trades[i]>>
  BY <1>1, PendingIs
<1>4. /\ x[1] = mem.orders[admitted[j]].market /\ x[2] = j /\ Answer(j).trades # <<>> /\ j # k
  BY <1>d, <1>3
<1>5. mem.orders[id].eid # 0 \/ \E i \in 1..j : admitted[i] = id
  BY <1>2, <1>4 DEF FInv, FlightSound, FlightStaged, TradesKnown
<1>6. mem.orders[id].eid = 0
  BY <1>d, <1>1, PlaceIs
<1>7. PICK i \in 1..j : admitted[i] = id
  BY <1>5, <1>6
<1>8. i \in 1..Len(admitted) /\ i <= j
  BY <1>3, <1>7 DEF PInv, SInv, IInv, TypeOK
<1>9. i = k
  BY <1>d, <1>1, <1>7, <1>8, OneEngine
<1>10. k < j
  BY <1>1, <1>4, <1>8, <1>9 DEF PInv, SInv, IInv, TypeOK
<1>11. EngineOf(j) = e
  <2>1. mem.orders[admitted[j]].market = mem.orders[admitted[k]].market
    BY <1>d, <1>2, <1>4
  <2>. QED  BY <1>1, <1>3, <2>1, OneEngine
<1>12. j \in DOMAIN results
  BY <1>d, <1>4, <1>11 DEF Answer
<1>13. k \in DOMAIN results
  BY <1>1, <1>10, <1>11, <1>12 DEF PInv, AnswersInOrder
<1>. QED  BY <1>1, <1>13

LEMMA FEngineRestart ==
  ASSUME PInv, PInv', FInv, LedgersSound', NEW e \in Engines, EngineRestart(e)
  PROVE  FlightSound'
<1>1. /\ mem' = mem /\ admitted' = admitted /\ results' = results /\ pc' = pc /\ op' = op
      /\ after' = after /\ taker' = [taker EXCEPT ![e] = NoTaker] /\ change' = change
      /\ failed' = failed /\ cur' = cur /\ todo' = todo
      /\ listed' = {s \in listed : Partition[s] # e}
      /\ books' = [s \in Symbols |-> IF Partition[s] = e THEN {} ELSE books[s]]
  BY DEF EngineRestart, service, scratch, control
<1>2. taker'[e] = NoTaker /\ \A x \in Engines : x # e => taker'[x] = taker[x]
  BY <1>1 DEF PInv, SInv, IInv, TypeOK
<1>3. /\ DOMAIN Live = ActiveOrders(mem) /\ DOMAIN Live \subseteq OrderIds
      /\ \A id \in DOMAIN Live :
              /\ Live[id].market = mem.orders[id].market
              /\ Live[id].eid = Eid(id)
  BY LiveIs
<1>4. DOMAIN Live' = DOMAIN Live /\ Live' \in [DOMAIN Live' -> EngineOrder]
  <2>1. ActiveOrders(mem)' = ActiveOrders(mem)
    BY <1>1 DEF ActiveOrders
  <2>. QED  BY <1>3, <2>1, LiveNext DEF LedgersSound
<1>5. \A id \in DOMAIN Live : /\ Live'[id].market = Live[id].market /\ Live'[id].side = Live[id].side
                              /\ Live'[id].price = Live[id].price /\ Live'[id].open = Live[id].open
                              /\ Live'[id].eid = Eid(id)'
  <2>1. ASSUME NEW id \in DOMAIN Live
        PROVE  /\ Live'[id].market = Live[id].market /\ Live'[id].side = Live[id].side
               /\ Live'[id].price = Live[id].price /\ Live'[id].open = Live[id].open
               /\ Live'[id].eid = Eid(id)'
    <3>1. id \in ActiveOrders(mem) /\ id \in ActiveOrders(mem)'
      BY <1>1, <1>3 DEF ActiveOrders
    <3>2. Unfilled(Staged(id))' = Unfilled(Staged(id))
      BY <1>1 DEF Staged, Unfilled
    <3>. QED  BY <1>1, <3>1, <3>2 DEF Live
  <2>. QED  BY <2>1
<1>6. \A id \in DOMAIN Live : SameIdentity(Live, Live', id) \/
        (Live'[id].eid = 0 /\ taker[e] # NoTaker /\ id = admitted[taker[e].k])
  <2>1. ASSUME NEW id \in DOMAIN Live
        PROVE  SameIdentity(Live, Live', id) \/
                (Live'[id].eid = 0 /\ taker[e] # NoTaker /\ id = admitted[taker[e].k])
    <3>1. id \in ActiveOrders(mem)
      BY <1>3
    <3>2. CASE Eid(id)' = Eid(id)
      BY <1>3, <1>5, <3>2 DEF SameIdentity
    <3>3. CASE taker[e] # NoTaker /\ id = admitted[taker[e].k] /\ Eid(id)' = 0
      BY <1>5, <3>3
    <3>. QED  BY <3>1, <3>2, <3>3, RestartIds
  <2>. QED  BY <2>1
<1>7. /\ Pending' \subseteq Pending
      /\ \A x \in Pending : x \in Pending' \/
           (taker[e] # NoTaker /\ x[2] = taker[e].k /\ x[1] = TakerOrder(e).market)
      /\ \A x \in Pending' : ~(taker[e] # NoTaker /\ x[2] = taker[e].k)
      /\ DistinctTrades'
  BY RestartPending DEF FInv, FlightSound, FlightStaged
<1>8. Served' = {m \in Served : Partition[mem.markets[m].symbol] # e}
  BY <1>1 DEF Served, MarketOpen
<1>9. SameBooksIn(Served', BookOf, BookOf')
  <2>1. ASSUME NEW m \in Served' PROVE BookOf'[m] = BookOf[m]
    <3>1. /\ m \in Served /\ Partition[mem.markets[m].symbol] # e /\ m \in Markets
          /\ mem.markets[m] # NoMarket /\ mem.markets[m] \in Market
          /\ BookOf[m] = books[mem.markets[m].symbol] /\ BookOf'[m] = books'[mem.markets[m].symbol]
      BY <1>1, <1>8 DEF Served, BookOf, MarketOpen, PInv, SInv, IInv, TypeOK, LedgerType
    <3>2. mem.markets[m].symbol \in Symbols
      BY <3>1 DEF Market
    <3>. QED  BY <1>1, <3>1, <3>2
  <2>. QED  BY <2>1 DEF SameBooksIn
<1>10. ASSUME taker[e] # NoTaker
       PROVE  TakerOrder(e).market \notin Served' /\ admitted[taker[e].k] \in DOMAIN Live
              /\ Live[admitted[taker[e].k]].market = TakerOrder(e).market
  <2>1. /\ TakerSymbol(e) = mem.markets[TakerOrder(e).market].symbol /\ EngineOf(taker[e].k) = e
        /\ admitted[taker[e].k] \in ActiveOrders(mem)
    BY <1>10, TakerKnown, TakerServed
  <2>2. Partition[mem.markets[TakerOrder(e).market].symbol] = e
    BY <2>1 DEF EngineOf, TakerSymbol
  <2>. QED  BY <1>3, <1>8, <2>1, <2>2 DEF TakerOrder
<1>11. DropsTo(Live, Pending, Matching, Live', Pending', Matching', Served')
  <2>1. ASSUME NEW x \in Pending', NEW id \in DOMAIN Live, Live[id].market = x[1],
               Live[id].eid \in {x[3].buy, x[3].sell}
        PROVE  SameIdentity(Live, Live', id)
    BY <1>6, <1>7, <2>1, LostUnnamed
  <2>2. ASSUME NEW id \in DOMAIN Live, Live[id].market \in Served'
        PROVE  SameIdentity(Live, Live', id) /\ (id \in Matching <=> id \in Matching')
    <3>1. SameIdentity(Live, Live', id) /\ (taker[e] # NoTaker => id # admitted[taker[e].k])
      BY <1>6, <1>10, <2>2
    <3>2. ASSUME id \in Matching PROVE id \in Matching'
      <4>1. PICK x \in Engines : taker[x] # NoTaker /\ id = admitted[taker[x].k]
        BY <3>2 DEF Matching
      <4>2. taker'[x] # NoTaker /\ id = admitted'[taker'[x].k]
        BY <1>1, <1>2, <3>1, <4>1
      <4>. QED  BY <4>2 DEF Matching
    <3>3. ASSUME id \in Matching' PROVE id \in Matching
      <4>1. PICK x \in Engines : taker'[x] # NoTaker /\ id = admitted'[taker'[x].k]
        BY <3>3 DEF Matching
      <4>2. taker[x] # NoTaker /\ id = admitted[taker[x].k]
        BY <1>1, <1>2, <4>1
      <4>. QED  BY <4>2 DEF Matching
    <3>. QED  BY <3>1, <3>2, <3>3
  <2>3. \A x \in Pending : x[1] \in Served' => x \in Pending'
    BY <1>7, <1>10
  <2>. QED  BY <1>5, <1>6, <2>1, <2>2, <2>3 DEF DropsTo
<1>12. Running => Flight(Live', Pending', Matching', Served', BookOf')
                  /\ SameLeftIn(Live, Pending, Live', Pending', Served')
  <2>. SUFFICES ASSUME Running
                PROVE  Flight(Live', Pending', Matching', Served', BookOf')
                       /\ SameLeftIn(Live, Pending, Live', Pending', Served')
    OBVIOUS
  <2>1. PICK L, P, K, S, B, L2, P2, K2, S2, B2 :
         /\ L = Live /\ P = Pending /\ K = Matching /\ S = Served /\ B = BookOf
         /\ L2 = Live' /\ P2 = Pending' /\ K2 = Matching' /\ S2 = Served' /\ B2 = BookOf'
    OBVIOUS
  <2>2. Flight(L, P, K, S, B) /\ P2 \subseteq P /\ S2 \subseteq S
    BY <1>7, <1>8, <2>1 DEF FInv, FlightSound, FlightInv
  <2>3. /\ DOMAIN L2 = DOMAIN L /\ L2 \in [DOMAIN L2 -> EngineOrder]
        /\ SameBooksIn(S2, B, B2) /\ DropsTo(L, P, K, L2, P2, K2, S2)
    BY <1>4, <1>9, <1>11, <2>1
  <2>4. Flight(L2, P2, K2, S2, B2) /\ SameLeftIn(L, P, L2, P2, S2)
    BY <2>2, <2>3, FlightDrop
  <2>. QED  BY <2>1, <2>4
<1>13. FlightInv'
  BY <1>1, <1>12 DEF FlightInv, Running
<1>14. TakerLeft'
  <2>1. ASSUME NEW z \in Engines, taker'[z] # NoTaker
        PROVE  /\ taker'[z].left = Left(Live', Pending', admitted'[taker'[z].k])
               /\ taker'[z].left > 0 =>
                    \A i \in DOMAIN taker'[z].trades : \A o \in books'[TakerSymbol(z)'] :
                      o.eid \notin {taker'[z].trades[i].buy, taker'[z].trades[i].sell}
    <3>1. taker'[z] = taker[z] /\ taker[z] # NoTaker /\ z # e
      BY <1>2, <2>1
    <3>2. /\ pc = "engine" /\ EngineOf(taker[z].k) = z /\ TakerSymbol(z) \in Symbols
          /\ TakerSymbol(z) = mem.markets[TakerOrder(z).market].symbol
          /\ TakerOrder(z).market \in Served /\ admitted[taker[z].k] \in ActiveOrders(mem)
      BY <3>1, TakerKnown, TakerServed
    <3>3. TakerSymbol(z)' = TakerSymbol(z) /\ Partition[TakerSymbol(z)] = z
      BY <1>1, <3>1, <3>2 DEF TakerSymbol, SymbolOf, EngineOf
    <3>4. books'[TakerSymbol(z)] = books[TakerSymbol(z)]
      BY <1>1, <3>1, <3>2, <3>3
    <3>5. Running
      BY <3>2, EngineRuns
    <3>6. Live[admitted[taker[z].k]].market \in Served' /\ admitted[taker[z].k] \in DOMAIN Live
      BY <1>3, <1>8, <3>1, <3>2, <3>3 DEF TakerOrder
    <3>7. Left(Live', Pending', admitted[taker[z].k]) = Left(Live, Pending, admitted[taker[z].k])
      BY <1>12, <3>5, <3>6 DEF SameLeftIn
    <3>. QED  BY <1>1, <3>1, <3>3, <3>4, <3>7 DEF FInv, FlightSound, TakerLeft
  <2>. QED  BY <2>1 DEF TakerLeft
<1>15. TradesKnown'
  <2>1. ASSUME NEW y \in Pending', NEW id \in DOMAIN Live,
               Live'[id].market = y[1], Live'[id].eid \in {y[3].buy, y[3].sell}
        PROVE  mem.orders[id].eid # 0 \/ \E j \in 1..y[2] : admitted[j] = id
    <3>1. y \in Pending
      BY <1>7
    <3>2. Running
      BY <3>1 DEF Pending, Submitted, Running, PInv, SInv, IInv, Control
    <3>3. TradeSound(Live', y)
      BY <1>12, <3>2 DEF Flight
    <3>4. y[3].buy # 0 /\ y[3].sell # 0
      BY <3>3 DEF TradeSound
    <3>5. SameIdentity(Live, Live', id)
      BY <1>6, <2>1, <3>4
    <3>. QED  BY <2>1, <3>1, <3>5 DEF SameIdentity, FInv, FlightSound, FlightStaged, TradesKnown
  <2>. QED  BY <1>1, <1>4, <2>1 DEF TradesKnown
<1>16. Drained' /\ Unstaged' /\ OneMarket'
  BY <1>1 DEF Drained, Unstaged, OneMarket, FInv, FlightSound, FlightStaged
<1>. QED  BY <1>7, <1>13, <1>14, <1>15, <1>16 DEF FlightSound, FlightStaged

-----------------------------------------------------------------------------
(* StageFill. *)

(* A fill finds the order its engine id names, and no other. *)
LEMMA LookupIs ==
  ASSUME PInv, FInv, pc = "fill", NEW b \in DOMAIN Live, NEW n, n # 0, Live[b].eid = n,
         NEW m, Live[b].market = m,
         mem.orders[b].eid # 0 \/ \E j \in 1..cur : admitted[j] = b
  PROVE  Lookup(m, n) = {b}
<1>1. /\ op \in {"place", "recover"} /\ cur \in 1..Len(admitted) /\ DOMAIN results = 1..Len(admitted)
      /\ Submitted
  BY DEF PInv, SInv, IInv, Control, Answered, Submitted
<1>2. /\ DOMAIN Live = ActiveOrders(mem) /\ OwnIds(Live)
      /\ \A id \in DOMAIN Live : Live[id].market = mem.orders[id].market /\ Live[id].eid = Eid(id)
  BY LiveIs
<1>3. b \in OrderIds /\ Active(mem.orders[b]) /\ mem.orders[b].market = m /\ Eid(b) = n
  BY <1>2 DEF ActiveOrders
<1>. DEFINE own == {e \in OwnIndex : e[1] = m /\ e[2] = n}
            index == {x \in engineOrders : x[1] = m /\ x[2] = n}
<1>4. ASSUME NEW e \in index PROVE e[3] = b
  <2>1. e \in Markets \X Nat \X OrderIds
    BY DEF PInv, SInv, IInv, TypeOK
  <2>2. Active(mem.orders[e[3]]) /\ mem.orders[e[3]].market = m /\ mem.orders[e[3]].eid = n
        /\ e[3] \in ActiveOrders(mem)
    BY <2>1 DEF PInv, SInv, IndexKeys, ActiveOrders
  <2>3. Eid(e[3]) = n
    BY <2>2 DEF Eid
  <2>. QED  BY <1>2, <2>2, <2>3 DEF OwnIds
<1>5. mem.orders[b].eid # 0 => \E e \in index : e[3] = b
  <2>1. SUFFICES ASSUME mem.orders[b].eid # 0 PROVE \E e \in index : e[3] = b
    OBVIOUS
  <2>2. mem.orders[b].eid = n
    BY <1>3, <2>1 DEF Eid
  <2>3. <<m, n, b>> \in engineOrders
    BY <1>3, <2>1, <2>2 DEF PInv, IndexComplete
  <2>. QED  BY <2>3
<1>6. CASE op = "place"
  <2>0. AwaitingIds
    BY <1>6 DEF AwaitingIds
  <2>a. \A j \in 1..cur : j \in 1..Len(admitted)
    BY <1>1 DEF PInv, SInv, IInv, TypeOK
  <2>b. \A j \in 1..cur : Answer(j) = results[j]
    BY <1>1, <2>a DEF Answer
  <2>1. ASSUME NEW e \in own PROVE e[3] = b
    <3>1. PICK j \in 1..cur : e = <<mem.orders[admitted[j]].market, results[j].eid, admitted[j]>>
      BY DEF OwnIndex
    <3>2. /\ mem.orders[admitted[j]].market = m /\ results[j].eid = n /\ e[3] = admitted[j]
      BY <3>1
    <3>3. j \in 1..Len(admitted) /\ admitted[j] \in ActiveOrders(mem) /\ Eid(admitted[j]) = n
      BY <1>1, <2>0, <2>a, <2>b, <3>2, PlaceIs, GivenKnown DEF ActiveOrders
    <3>. QED  BY <1>2, <3>2, <3>3 DEF OwnIds
  <2>2. ASSUME own = {} PROVE mem.orders[b].eid # 0
    <3>1. ASSUME NEW j \in 1..cur, admitted[j] = b PROVE FALSE
      <4>1. results[j].eid = n /\ mem.orders[admitted[j]].market = m
        BY <1>3, <2>0, <2>a, <2>b, <3>1, PlaceIs
      <4>2. PICK e : e = <<mem.orders[admitted[j]].market, results[j].eid, admitted[j]>>
        OBVIOUS
      <4>3. e \in OwnIndex /\ e[1] = m /\ e[2] = n
        BY <4>1, <4>2 DEF OwnIndex
      <4>. QED  BY <2>2, <4>3
    <3>. QED  BY <3>1
  <2>3. CASE own # {}
    <3>1. Lookup(m, n) = {e[3] : e \in own}
      BY <1>6, <2>3 DEF Lookup
    <3>. HIDE DEF own
    <3>. QED  BY <2>1, <2>3, <3>1
  <2>4. CASE own = {}
    <3>1. Lookup(m, n) = {e[3] : e \in index}
      BY <2>4 DEF Lookup
    <3>. HIDE DEF index
    <3>. QED  BY <1>4, <1>5, <2>2, <2>4, <3>1
  <2>. QED  BY <2>3, <2>4
<1>7. CASE op = "recover"
  <2>1. Lookup(m, n) = {e[3] : e \in index}
    BY <1>7 DEF Lookup
  <2>2. mem.orders[b].eid # 0
    BY <1>3, <1>7 DEF Eid, AwaitingIds
  <2>. HIDE DEF index
  <2>. QED  BY <1>4, <1>5, <2>1, <2>2
<1>. QED  BY <1>1, <1>6, <1>7

(* An order a trade in flight names has room for it. *)
LEMMA RoomForFill ==
  ASSUME PInv, FInv, Running, NEW x \in Pending, NEW b \in DOMAIN Live, Live[b].market = x[1],
         Live[b].eid \in {x[3].buy, x[3].sell}
  PROVE  /\ Active(Staged(b)) /\ Staged(b) \in Order /\ Staged(b) # NoOrder
         /\ x[3].qty \in Nat /\ x[3].qty > 0 /\ x[3].price \in Nat
         /\ Staged(b).filled + x[3].qty <= Staged(b).qty
         /\ Live[b].open = Staged(b).qty - Staged(b).filled
<1>1. Flight(Live, Pending, Matching, Served, BookOf)
  BY DEF FInv, FlightSound, FlightInv
<1>2. /\ FlightType(Live, Pending) /\ Pending \subseteq InFlight /\ IsFiniteSet(Pending)
      /\ TradeSound(Live, x) /\ Left(Live, Pending, b) >= 0
  BY <1>1 DEF Flight, FlightType, NoOverfill
<1>3. x \in InFlight /\ x[3].qty \in Nat /\ x[3].qty > 0 /\ x[3].price \in Nat
  BY <1>2 DEF InFlight, Trade, TradeSound
<1>d. PICK m, n, o, a, l : /\ m = Live[b].market /\ n = Live[b].eid /\ o = Live[b].open
                           /\ a = Owed(Pending, m, n) /\ l = Left(Live, Pending, b)
  OBVIOUS
<1>4. /\ a \in Nat /\ o \in Nat /\ l = o - a /\ l >= 0
  BY <1>d, <1>2, LeftType DEF EngineOrder
<1>5. x[3].qty <= a
  <2>1. Owed(Pending \ {x}, m, n) = IF x \in Naming(Pending, m, n) THEN a - x[3].qty ELSE a
    BY <1>d, <1>2, OwedRemove
  <2>2. x \in Naming(Pending, m, n)
    BY <1>d DEF Naming
  <2>3. Owed(Pending \ {x}, m, n) \in Nat
    BY <1>2, FS_RemoveElement, OwedType
  <2>. QED  BY <1>3, <1>4, <2>1, <2>2, <2>3
<1>6. o = Unfilled(Staged(b)) /\ b \in OrderIds /\ Active(mem.orders[b])
  BY <1>d, LiveIs DEF ActiveOrders
<1>7. Active(Staged(b))
  BY <1>3, <1>4, <1>5, <1>6 DEF Unfilled
<1>8. Staged(b) \in Order /\ Staged(b) # NoOrder
  BY <1>6, <1>7 DEF Staged, Active, PInv, SInv, IInv, TypeOK, LedgerType
<1>9. o = Staged(b).qty - Staged(b).filled
  BY <1>6, <1>7 DEF Unfilled, Remaining
<1>10. Staged(b).filled + x[3].qty <= Staged(b).qty
  <2>1. Staged(b).qty \in Nat /\ Staged(b).filled \in Nat
    BY <1>8 DEF Order
  <2>2. PICK y, f, q : y = Staged(b).qty /\ f = Staged(b).filled /\ q = x[3].qty
    OBVIOUS
  <2>3. f + q <= y
    <3>1. y \in Nat /\ f \in Nat /\ q \in Nat /\ o = y - f /\ q <= a
      BY <1>3, <1>5, <1>9, <2>1, <2>2
    <3>. QED  BY <1>4, <3>1
  <2>. QED  BY <2>2, <2>3
<1>. QED  BY <1>d, <1>3, <1>7, <1>8, <1>9, <1>10

(* What StageFill does: the first trade of the answer is staged for the buyer
   and the seller it names. *)
FillStep(x, b, s) ==
  /\ x \in Pending /\ x[1] = mem.orders[admitted[cur]].market /\ x[2] = cur
  /\ x[3] = Head(results[cur].trades)
  /\ b \in OrderIds /\ s \in OrderIds /\ b # s
  /\ Names(Live, b, x[1], x[3].buy, "buy") /\ Names(Live, s, x[1], x[3].sell, "sell")
  /\ Live[s].price <= x[3].price /\ x[3].price <= Live[b].price
  /\ change' = FillEvents(FillEvents(change, b, Staged(b), x[3].qty, x[3].price),
                          s, Staged(s), x[3].qty, x[3].price)

LEMMA FillRuns ==
  ASSUME PInv, FInv, pc = "fill"
  PROVE  Running /\ Submitted /\ Flight(Live, Pending, Matching, Served, BookOf)
         /\ cur \in 1..Len(admitted) /\ DOMAIN results = 1..Len(admitted)
         /\ \A k \in 1..Len(admitted) : Answer(k) = results[k] /\ results[k] \in Result
<1>1. Running
  BY DEF Running, PInv, SInv, IInv, Control
<1>2. cur \in 1..Len(admitted) /\ DOMAIN results = 1..Len(admitted) /\ Submitted
  BY DEF PInv, SInv, IInv, Control, Answered, Submitted
<1>3. \A k \in 1..Len(admitted) : Answer(k) = results[k] /\ results[k] \in Result
  BY <1>2 DEF Answer, PInv, SInv, IInv, TypeOK
<1>. QED  BY <1>1, <1>2, <1>3 DEF FInv, FlightSound, FlightInv

LEMMA FillSteps ==
  ASSUME PInv, FInv, StageFill
  PROVE  \E x \in Pending, b, s \in OrderIds : FillStep(x, b, s)
<1>1. pc = "fill" /\ results[cur].trades # <<>>
  BY DEF StageFill
<1>2. Running /\ Submitted /\ Flight(Live, Pending, Matching, Served, BookOf)
         /\ cur \in 1..Len(admitted) /\ DOMAIN results = 1..Len(admitted)
         /\ \A k \in 1..Len(admitted) : Answer(k) = results[k] /\ results[k] \in Result
  BY <1>1, FillRuns
<1>d. PICK t, m, x, ts : t = Head(results[cur].trades) /\ m = mem.orders[admitted[cur]].market
                     /\ x = <<m, cur, t>> /\ ts = results[cur].trades
  OBVIOUS
<1>3. ts \in Seq(Trade) /\ ts # <<>> /\ 1 \in DOMAIN ts /\ t = ts[1]
  <2>1. ts \in Seq(Trade) /\ ts # <<>>
    BY <1>d, <1>1, <1>2 DEF Result
  <2>. QED  BY <1>d, <2>1
<1>4. x \in Pending /\ x[1] = m /\ x[2] = cur /\ x[3] = t
  <2>1. Answer(cur).trades = ts
    BY <1>d, <1>2
  <2>2. \E k \in 1..Len(admitted) : \E i \in DOMAIN Answer(k).trades :
          x = <<mem.orders[admitted[k]].market, k, Answer(k).trades[i]>>
    BY <1>d, <1>2, <1>3, <2>1
  <2>. QED  BY <1>d, <1>2, <2>2, PendingIs
<1>5. TradeSound(Live, x)
  BY <1>2, <1>4 DEF Flight
<1>6. PICK b \in OrderIds, s \in OrderIds :
        /\ Names(Live, b, m, t.buy, "buy") /\ Names(Live, s, m, t.sell, "sell")
        /\ Live[s].price <= t.price /\ t.price <= Live[b].price
  BY <1>4, <1>5 DEF TradeSound
<1>7. t.buy # 0 /\ t.sell # 0 /\ b # s
  BY <1>4, <1>5, <1>6 DEF TradeSound, Names
<1>8. Lookup(m, t.buy) = {b} /\ Lookup(m, t.sell) = {s}
  <2>1. b \in DOMAIN Live /\ Live[b].market = m /\ Live[b].eid = t.buy
        /\ s \in DOMAIN Live /\ Live[s].market = m /\ Live[s].eid = t.sell
    BY <1>6 DEF Names
  <2>2. \A id \in {b, s} : mem.orders[id].eid # 0 \/ \E j \in 1..cur : admitted[j] = id
    BY <1>4, <2>1 DEF FInv, FlightSound, FlightStaged, TradesKnown
  <2>3. Lookup(m, t.buy) = {b}
    BY <1>1, <1>7, <2>1, <2>2, LookupIs
  <2>4. Lookup(m, t.sell) = {s}
    BY <1>1, <1>7, <2>1, <2>2, LookupIs
  <2>. QED  BY <2>3, <2>4
<1>9. PICK half : half = FillEvents(change, b, Staged(b), t.qty, t.price)
  OBVIOUS
<1>10. change' = FillEvents(half, s, IF half.orders[s] # NoOrder THEN half.orders[s] ELSE mem.orders[s],
                            t.qty, t.price)
  <2>1. \E b2 \in Lookup(m, t.buy), s2 \in Lookup(m, t.sell) :
          LET h == FillEvents(change, b2, Staged(b2), t.qty, t.price)
              seller == IF h.orders[s2] # NoOrder THEN h.orders[s2] ELSE mem.orders[s2]
          IN  change' = FillEvents(h, s2, seller, t.qty, t.price)
    BY <1>d, <1>8 DEF StageFill
  <2>. QED  BY <1>8, <1>9, <2>1
<1>11. half.orders[s] = change.orders[s]
  <2>1. b \in DOMAIN Live /\ Live[b].market = x[1] /\ Live[b].eid \in {x[3].buy, x[3].sell}
    BY <1>4, <1>6 DEF Names
  <2>2. Staged(b) \in Order /\ t.qty \in Nat /\ t.price \in Nat
    BY <1>2, <1>4, <2>1, RoomForFill
  <2>3. change \in LedgerType /\ change.orders \in [OrderIds -> Order \cup {NoOrder}]
    BY DEF PInv, SInv, IInv, TypeOK, LedgerType
  <2>4. half.orders = [change.orders EXCEPT ![b] = FilledOrder(Staged(b), t.qty)]
    BY <1>9, <2>2, <2>3, FillLedger
  <2>. QED  BY <1>7, <2>3, <2>4
<1>12. change' = FillEvents(half, s, Staged(s), t.qty, t.price)
  BY <1>10, <1>11 DEF Staged
<1>13. FillStep(x, b, s)
  BY <1>d, <1>4, <1>6, <1>7, <1>9, <1>12 DEF FillStep
<1>. QED  BY <1>4, <1>13

(* The orders staged by a fill. *)
LEMMA FillOrders ==
  ASSUME PInv, FInv, pc = "fill", NEW x, NEW b, NEW s, FillStep(x, b, s)
  PROVE  /\ b \in DOMAIN Live /\ s \in DOMAIN Live
         /\ change'.markets = change.markets
         /\ change'.orders \in [OrderIds -> Order \cup {NoOrder}]
         /\ \A id \in OrderIds : id \notin {b, s} => change'.orders[id] = change.orders[id]
         /\ \A id \in {b, s} :
              /\ change'.orders[id] = FilledOrder(Staged(id), x[3].qty) /\ change'.orders[id] # NoOrder
              /\ change'.orders[id].qty = Staged(id).qty
              /\ change'.orders[id].filled = Staged(id).filled + x[3].qty
              /\ Active(change'.orders[id]) <=> Staged(id).filled + x[3].qty < Staged(id).qty
              /\ Active(Staged(id)) /\ Staged(id) \in Order
              /\ x[3].qty \in Nat /\ x[3].qty > 0 /\ x[3].price \in Nat
              /\ Staged(id).filled + x[3].qty <= Staged(id).qty
              /\ Live[id].open = Staged(id).qty - Staged(id).filled
<1>1. Running
  BY FillRuns
<1>2. /\ x \in Pending /\ b \in DOMAIN Live /\ s \in DOMAIN Live /\ b # s
      /\ \A id \in {b, s} : Live[id].market = x[1] /\ Live[id].eid \in {x[3].buy, x[3].sell}
      /\ b \in OrderIds /\ s \in OrderIds
  BY DEF FillStep, Names
<1>3. ASSUME NEW id \in {b, s}
      PROVE  /\ Active(Staged(id)) /\ Staged(id) \in Order /\ Staged(id) # NoOrder
             /\ x[3].qty \in Nat /\ x[3].qty > 0 /\ x[3].price \in Nat
             /\ Staged(id).filled + x[3].qty <= Staged(id).qty
             /\ Live[id].open = Staged(id).qty - Staged(id).filled
  <2>1. id \in DOMAIN Live /\ Live[id].market = x[1] /\ Live[id].eid \in {x[3].buy, x[3].sell}
    BY <1>2
  <2>. QED  BY <1>1, <1>2, <2>1, RoomForFill
<1>4. change \in LedgerType /\ change.orders \in [OrderIds -> Order \cup {NoOrder}]
  BY DEF PInv, SInv, IInv, TypeOK, LedgerType
<1>5. PICK q, p, ob, os, half : q = x[3].qty /\ p = x[3].price /\ ob = Staged(b) /\ os = Staged(s)
           /\ half = FillEvents(change, b, ob, q, p)
  OBVIOUS
<1>6. ob \in Order /\ os \in Order /\ q \in Nat /\ p \in Nat
  BY <1>3, <1>5
<1>7. half \in LedgerType /\ half.markets = change.markets
      /\ half.orders = [change.orders EXCEPT ![b] = FilledOrder(ob, q)]
  BY <1>2, <1>4, <1>5, <1>6, FillLedger
<1>8. change' = FillEvents(half, s, os, q, p)
  BY <1>5 DEF FillStep
<1>9. change' \in LedgerType /\ change'.markets = half.markets
      /\ change'.orders = [half.orders EXCEPT ![s] = FilledOrder(os, q)]
  <2>1. PICK full : full = FillEvents(half, s, os, q, p)
    OBVIOUS
  <2>2. s \in OrderIds /\ half \in LedgerType
    BY <1>2, <1>7
  <2>3. full \in LedgerType /\ full.markets = half.markets
        /\ full.orders = [half.orders EXCEPT ![s] = FilledOrder(os, q)]
    BY <1>6, <2>1, <2>2, FillLedger
  <2>. QED  BY <1>8, <2>1, <2>3
<1>10. /\ change'.orders \in [OrderIds -> Order \cup {NoOrder}]
       /\ \A id \in OrderIds : id \notin {b, s} => change'.orders[id] = change.orders[id]
       /\ change'.orders[b] = FilledOrder(ob, q) /\ change'.orders[s] = FilledOrder(os, q)
  BY <1>2, <1>4, <1>7, <1>9 DEF LedgerType
<1>11. ASSUME NEW id \in {b, s}
       PROVE  /\ change'.orders[id] = FilledOrder(Staged(id), q) /\ change'.orders[id] # NoOrder
              /\ change'.orders[id].qty = Staged(id).qty
              /\ change'.orders[id].filled = Staged(id).filled + q
              /\ Active(change'.orders[id]) <=> Staged(id).filled + q < Staged(id).qty
  <2>1. PICK o : o = Staged(id)
    OBVIOUS
  <2>2. o \in Order /\ change'.orders[id] = FilledOrder(o, q)
    BY <1>3, <1>5, <1>10, <2>1
  <2>3. FilledOrder(o, q) \in Order /\ FilledOrder(o, q) # NoOrder
    BY <1>6, <2>2, FilledOrderKept, ConstantsAssumption
  <2>4. /\ FilledOrder(o, q).qty = o.qty /\ FilledOrder(o, q).filled = o.filled + q
        /\ FilledOrder(o, q).status = IF o.filled + q >= o.qty THEN "filled" ELSE "partial"
    BY <2>2 DEF FilledOrder, Order
  <2>5. o.filled \in Nat /\ o.qty \in Nat
    BY <2>2 DEF Order
  <2>6. Active(FilledOrder(o, q)) <=> o.filled + q < o.qty
    BY <1>6, <2>3, <2>4, <2>5 DEF Active, ActiveStatuses
  <2>. QED  BY <2>1, <2>2, <2>3, <2>4, <2>6
<1>. QED  BY <1>2, <1>3, <1>5, <1>7, <1>9, <1>10, <1>11

LEMMA LStageFill ==
  ASSUME PInv, PInv', FInv, StageFill
  PROVE  LedgersSound'
<1>1. pc = "fill" /\ mem' = mem /\ disk' = disk /\ change' \in LedgerType
  BY DEF StageFill, service, PInv, SInv, IInv, TypeOK
<1>2. PICK x \in Pending, b \in OrderIds, s \in OrderIds : FillStep(x, b, s)
  BY FillSteps
<1>3. /\ change'.markets = change.markets
      /\ \A id \in OrderIds : id \notin {b, s} => change'.orders[id] = change.orders[id]
      /\ \A id \in {b, s} :
           /\ change'.orders[id].qty = Staged(id).qty
           /\ change'.orders[id].filled = Staged(id).filled + x[3].qty
           /\ Active(change'.orders[id]) <=> Staged(id).filled + x[3].qty < Staged(id).qty
           /\ Staged(id).filled + x[3].qty <= Staged(id).qty
  BY <1>1, <1>2, FillOrders
<1>4. OrdersGood(change')
  <2>1. ASSUME NEW id \in OrderIds, change'.orders[id] # NoOrder
        PROVE  /\ change'.orders[id].filled <= change'.orders[id].qty
               /\ Active(change'.orders[id]) => change'.orders[id].filled < change'.orders[id].qty
    <3>1. CASE id \in {b, s}
      BY <1>3, <3>1
    <3>2. CASE id \notin {b, s}
      BY <1>3, <2>1, <3>2 DEF FInv, LedgersSound, OrdersGood
    <3>. QED  BY <3>1, <3>2
  <2>. QED  BY <2>1 DEF OrdersGood
<1>5. SymbolsOwn(Apply(mem, change').markets)
  BY <1>3, SymbolsStaged DEF FInv, LedgersSound
<1>. QED  BY <1>1, <1>4, <1>5, LedgersStage DEF FInv

(* The trade that was staged is no longer in flight. *)
LEMMA AnswerShrinks ==
  ASSUME Submitted, Submitted', mem' = mem, admitted' = admitted, NEW k \in 1..Len(admitted),
         NEW ts \in Seq(Trade), ts # <<>>, Answer(k).trades = ts, (Answer(k)').trades = Tail(ts),
         \A j \in 1..Len(admitted) : j # k => (Answer(j)').trades = Answer(j).trades,
         DistinctTrades, NEW x, x = <<mem.orders[admitted[k]].market, k, Head(ts)>>
  PROVE  Pending' = Pending \ {x} /\ DistinctTrades'
<1>1. PICK ts2 : ts2 = Tail(ts)
  OBVIOUS
<1>2. /\ \A i \in DOMAIN ts2 : i + 1 \in DOMAIN ts /\ ts2[i] = ts[i + 1] /\ 1 < i + 1
      /\ \A i \in DOMAIN ts : i = 1 \/ (i - 1 \in DOMAIN ts2 /\ ts2[i - 1] = ts[i])
      /\ \A i, j \in DOMAIN ts2 : i < j => i + 1 < j + 1
      /\ 1 \in DOMAIN ts /\ Head(ts) = ts[1]
  BY <1>1
<1>3. (Answer(k)').trades = ts2
  BY <1>1
<1>4. \A i, j \in DOMAIN ts : i < j => ts[i] # ts[j]
  BY DEF DistinctTrades
<1>5. \A i \in DOMAIN ts2 : ts2[i] # Head(ts)
  BY <1>2, <1>4
<1>6. ASSUME NEW y \in Pending' PROVE y \in Pending \ {x}
  <2>0. PICK j \in 1..Len(admitted) : \E i \in DOMAIN (Answer(j)').trades :
          y = <<mem.orders[admitted[j]].market, j, (Answer(j)').trades[i]>>
    BY PendingIsNext
  <2>1. PICK i \in DOMAIN (Answer(j)').trades :
          y = <<mem.orders[admitted[j]].market, j, (Answer(j)').trades[i]>>
    BY <2>0
  <2>2. CASE j # k
    BY <2>1, <2>2, PendingIs
  <2>3. CASE j = k
    <3>1. i \in DOMAIN ts2 /\ y = <<mem.orders[admitted[k]].market, k, ts2[i]>>
      BY <1>3, <2>1, <2>3
    <3>2. y # x
      BY <1>5, <3>1
    <3>3. y \in Pending
      BY <1>2, <3>1, PendingIs
    <3>. QED  BY <3>2, <3>3
  <2>. QED  BY <2>2, <2>3
<1>7. ASSUME NEW y \in Pending, y # x PROVE y \in Pending'
  <2>0. PICK j \in 1..Len(admitted) : \E i \in DOMAIN Answer(j).trades :
          y = <<mem.orders[admitted[j]].market, j, Answer(j).trades[i]>>
    BY PendingIs
  <2>1. PICK i \in DOMAIN Answer(j).trades :
          y = <<mem.orders[admitted[j]].market, j, Answer(j).trades[i]>>
    BY <2>0
  <2>2. CASE j # k
    BY <2>1, <2>2, PendingIsNext
  <2>3. CASE j = k
    <3>1. i \in DOMAIN ts /\ y = <<mem.orders[admitted[k]].market, k, ts[i]>>
      BY <2>1, <2>3
    <3>2. i # 1
      BY <1>2, <1>7, <3>1
    <3>3. PICK i2 : i2 = i - 1
      OBVIOUS
    <3>4. i2 \in DOMAIN ts2 /\ ts2[i2] = ts[i]
      BY <1>2, <3>1, <3>2, <3>3
    <3>5. i2 \in DOMAIN (Answer(k)').trades /\ y = <<mem'.orders[admitted'[k]].market, k, (Answer(k)').trades[i2]>>
      BY <1>3, <3>1, <3>4
    <3>. QED  BY <3>5, PendingIsNext
  <2>. QED  BY <2>2, <2>3
<1>8. Pending' = Pending \ {x}
  BY <1>6, <1>7
<1>9. DistinctTrades'
  <2>1. \A j \in 1..Len(admitted) : j # k =>
          \A i1, i2 \in DOMAIN (Answer(j)').trades : i1 < i2 => (Answer(j)').trades[i1] # (Answer(j)').trades[i2]
    BY DEF DistinctTrades
  <2>2. \A i1, i2 \in DOMAIN ts2 : i1 < i2 => ts2[i1] # ts2[i2]
    BY <1>2, <1>4
  <2>. QED  BY <1>3, <2>1, <2>2 DEF DistinctTrades
<1>. QED  BY <1>8, <1>9

LEMMA FStageFill ==
  ASSUME PInv, PInv', FInv, LedgersSound', StageFill
  PROVE  FlightSound'
<1>1. /\ pc = "fill" /\ mem' = mem /\ admitted' = admitted /\ pc' = pc /\ op' = op /\ after' = after
      /\ failed' = failed /\ cur' = cur /\ listed' = listed /\ books' = books /\ taker' = taker
      /\ results' = [results EXCEPT ![cur].trades = Tail(@)] /\ results[cur].trades # <<>>
  BY DEF StageFill, service, control
<1>2. PICK x \in Pending, b \in OrderIds, s \in OrderIds : FillStep(x, b, s)
  BY FillSteps
<1>3. Running /\ Submitted /\ Flight(Live, Pending, Matching, Served, BookOf)
      /\ cur \in 1..Len(admitted) /\ DOMAIN results = 1..Len(admitted)
      /\ \A k \in 1..Len(admitted) : Answer(k) = results[k] /\ results[k] \in Result
  BY <1>1, FillRuns
<1>4. Submitted' /\ Running' /\ AwaitingIds' = AwaitingIds
  BY <1>1, <1>3 DEF Submitted, Running, AwaitingIds
<1>5. PICK ts : ts = results[cur].trades
  OBVIOUS
<1>6. /\ DOMAIN results' = DOMAIN results /\ results'[cur].trades = Tail(ts)
      /\ results'[cur].eid = results[cur].eid
      /\ \A j \in DOMAIN results : j # cur => results'[j] = results[j]
  <2>1. results[cur] \in Result /\ cur \in DOMAIN results
    BY <1>3
  <2>. QED  BY <1>1, <1>5, <2>1 DEF Result
<1>7. \A j \in 1..Len(admitted) : /\ Answer(j)' = results'[j]
                                  /\ (Answer(j)').eid = Answer(j).eid
                                  /\ j # cur => (Answer(j)').trades = Answer(j).trades
  <2>1. \A j \in 1..Len(admitted) : Answer(j)' = results'[j]
    BY <1>3, <1>6 DEF Answer
  <2>. QED  BY <1>3, <1>6, <2>1
<1>8. ts \in Seq(Trade) /\ ts # <<>> /\ Answer(cur).trades = ts /\ (Answer(cur)').trades = Tail(ts)
  BY <1>1, <1>3, <1>5, <1>6, <1>7 DEF Result
<1>9. Pending' = Pending \ {x} /\ DistinctTrades'
  <2>1. x = <<mem.orders[admitted[cur]].market, cur, Head(ts)>>
    <3>1. x \in InFlight
      BY <1>3 DEF Flight, FlightType
    <3>. QED  BY <1>2, <1>5, <3>1 DEF FillStep, InFlight
  <2>2. DistinctTrades
    BY DEF FInv, FlightSound, FlightStaged
  <2>. QED  BY <1>1, <1>3, <1>4, <1>7, <1>8, <2>1, <2>2, AnswerShrinks
<1>10. /\ DOMAIN Live = ActiveOrders(mem) /\ DOMAIN Live \subseteq OrderIds /\ OwnIds(Live)
       /\ \A id \in DOMAIN Live : Live[id].open = Unfilled(Staged(id)) /\ Live[id].eid = Eid(id)
                                  /\ Live[id].market = mem.orders[id].market
  BY LiveIs
<1>11. DOMAIN Live' = DOMAIN Live /\ Live' \in [DOMAIN Live' -> EngineOrder]
  <2>1. ActiveOrders(mem)' = ActiveOrders(mem)
    BY <1>1 DEF ActiveOrders
  <2>. QED  BY <1>10, <2>1, LiveNext DEF LedgersSound
<1>12. /\ b \in DOMAIN Live /\ s \in DOMAIN Live
       /\ \A id \in OrderIds : id \notin {b, s} => change'.orders[id] = change.orders[id]
       /\ \A id \in {b, s} :
              /\ change'.orders[id] # NoOrder
              /\ change'.orders[id].qty = Staged(id).qty
              /\ change'.orders[id].filled = Staged(id).filled + x[3].qty
              /\ Active(change'.orders[id]) <=> Staged(id).filled + x[3].qty < Staged(id).qty
              /\ Staged(id) \in Order /\ x[3].qty \in Nat
              /\ Staged(id).filled + x[3].qty <= Staged(id).qty
              /\ Live[id].open = Staged(id).qty - Staged(id).filled
  BY <1>1, <1>2, FillOrders
<1>13. \A id \in ActiveOrders(mem) : Eid(id)' = Eid(id)
  <2>1. \A i : Among(i)' = Among(i) /\ PlaceOf(i)' = PlaceOf(i)
    BY <1>1 DEF Among, PlaceOf
  <2>2. ASSUME NEW i \in ActiveOrders(mem) PROVE Eid(i)' = Eid(i)
    <3>1. CASE Among(i) /\ AwaitingIds
      <4>1. PICK j \in 1..Len(admitted) : admitted[j] = i
        BY <3>1 DEF Among
      <4>2. PlaceOf(i) = j
        BY <3>1, <4>1, PlaceIs
      <4>3. (Answer(j)').eid = Answer(j).eid
        BY <1>7
      <4>. QED  BY <1>1, <1>4, <2>1, <4>2, <4>3 DEF Eid
    <3>2. CASE ~Among(i) \/ ~AwaitingIds
      BY <1>1, <1>4, <2>1, <3>2 DEF Eid
    <3>. QED  BY <3>1, <3>2
  <2>. QED  BY <2>2
<1>14. \A id \in DOMAIN Live : Unfilled(Staged(id))' =
         IF id \in {b, s} THEN Live[id].open - x[3].qty ELSE Live[id].open
  <2>1. ASSUME NEW id \in DOMAIN Live, id \in {b, s}
        PROVE  Unfilled(Staged(id))' = Live[id].open - x[3].qty
    <3>1. Staged(id)' = change'.orders[id]
      BY <1>12, <2>1 DEF Staged
    <3>2. PICK y, f, q : y = Staged(id).qty /\ f = Staged(id).filled /\ q = x[3].qty
      OBVIOUS
    <3>3. y \in Nat /\ f \in Nat /\ q \in Nat /\ f + q <= y
      BY <1>12, <2>1, <3>2 DEF Order
    <3>4. Unfilled(change'.orders[id]) = IF f + q < y THEN y - (f + q) ELSE 0
      BY <1>12, <2>1, <3>2 DEF Unfilled, Remaining
    <3>5. Unfilled(change'.orders[id]) = (y - f) - q
      BY <3>3, <3>4
    <3>6. Live[id].open = y - f
      BY <1>12, <2>1, <3>2
    <3>. QED  BY <3>1, <3>2, <3>5, <3>6
  <2>2. ASSUME NEW id \in DOMAIN Live, id \notin {b, s}
        PROVE  Unfilled(Staged(id))' = Live[id].open
    <3>1. Staged(id)' = Staged(id)
      BY <1>1, <1>10, <1>12, <2>2 DEF Staged
    <3>. QED  BY <1>10, <3>1
  <2>. QED  BY <2>1, <2>2
<1>15. FilledBy(Live, Live', x, b, s)
  <2>1. ASSUME NEW id \in DOMAIN Live
        PROVE  SameIdentity(Live, Live', id) /\ Live'[id].open = Unfilled(Staged(id))'
    <3>1. id \in ActiveOrders(mem) /\ id \in ActiveOrders(mem)' /\ Eid(id)' = Eid(id)
      BY <1>1, <1>10, <1>13 DEF ActiveOrders
    <3>. QED  BY <1>1, <3>1 DEF Live, SameIdentity
  <2>. QED  BY <1>14, <2>1 DEF FilledBy
<1>16. Matching' = {} /\ Matching = {} /\ \A e \in Engines : taker[e] = NoTaker
  BY <1>1 DEF Matching, PInv, SInv, IInv, Control
<1>17. Served' = Served /\ BookOf' = BookOf
  BY <1>1, ServedKept
<1>18. Flight(Live', Pending', Matching', Served', BookOf')
  <2>1. PICK L, P, K, S, B, L2, Q :
         /\ L = Live /\ P = Pending /\ K = Matching /\ S = Served /\ B = BookOf
         /\ L2 = Live' /\ Q = Pending'
    OBVIOUS
  <2>2. Flight(L, P, K, S, B) /\ OwnIds(L) /\ x \in P /\ Q = P \ {x}
    BY <1>3, <1>9, <1>10, <2>1
  <2>3. /\ DOMAIN L2 = DOMAIN L /\ L2 \in [DOMAIN L2 -> EngineOrder] /\ FilledBy(L, L2, x, b, s)
        /\ Names(L, b, x[1], x[3].buy, "buy") /\ Names(L, s, x[1], x[3].sell, "sell")
    BY <1>2, <1>11, <1>15, <2>1 DEF FillStep
  <2>4. Flight(L2, Q, K, S, B)
    BY <2>2, <2>3, FlightFill
  <2>. QED  BY <1>16, <1>17, <2>1, <2>4
<1>19. FlightInv' /\ TakerLeft'
  BY <1>1, <1>16, <1>18 DEF FlightInv, TakerLeft
<1>20. \A id \in DOMAIN Live : Live'[id].market = Live[id].market /\ Live'[id].eid = Live[id].eid
  BY <1>15 DEF FilledBy, SameIdentity
<1>21. TradesKnown'
  <2>1. ASSUME NEW y \in Pending', NEW id \in DOMAIN Live,
               Live'[id].market = y[1], Live'[id].eid \in {y[3].buy, y[3].sell}
        PROVE  mem.orders[id].eid # 0 \/ \E j \in 1..y[2] : admitted[j] = id
    <3>1. y \in Pending /\ Live[id].market = y[1] /\ Live[id].eid \in {y[3].buy, y[3].sell}
      BY <1>9, <1>20, <2>1
    <3>. QED  BY <3>1 DEF FInv, FlightSound, FlightStaged, TradesKnown
  <2>. QED  BY <1>1, <1>11, <2>1 DEF TradesKnown
<1>22. Drained'
  <2>1. \A j \in 1..(cur - 1) : j \in DOMAIN results /\ j # cur /\ results[j].trades = <<>>
    BY <1>1, <1>3 DEF FInv, FlightSound, FlightStaged, Drained, PInv, SInv, IInv, TypeOK
  <2>. QED  BY <1>1, <1>6, <2>1 DEF Drained
<1>23. Unstaged'
  <2>1. ASSUME NEW j \in 1..Len(admitted), j > cur PROVE change'.orders[admitted[j]] = NoOrder
    <3>1. change.orders[admitted[j]] = NoOrder
      BY <1>1, <2>1 DEF FInv, FlightSound, FlightStaged, Unstaged
    <3>2. op = "place" /\ AwaitingIds
      <4>1. op \in {"place", "recover"} /\ (op = "recover" => Len(admitted) = 1)
        BY <1>1, <1>3 DEF PInv, SInv, IInv, Control
      <4>2. Len(admitted) # 1
        <5>1. PICK n, c : n = Len(admitted) /\ c = cur
          OBVIOUS
        <5>2. n \in Nat /\ j \in 1..n /\ c \in 1..n /\ j > c
          BY <1>3, <2>1, <5>1 DEF PInv, SInv, IInv, TypeOK
        <5>3. n # 1
          BY <5>2
        <5>. QED  BY <5>1, <5>3
      <4>. QED  BY <1>1, <4>1, <4>2 DEF AwaitingIds
    <3>3. admitted[j] \in OrderIds /\ mem.orders[admitted[j]].eid = 0
      BY <3>2, PlaceIs
    <3>4. ASSUME admitted[j] \in {b, s} PROVE FALSE
      <4>1. Live[admitted[j]].market = x[1] /\ Live[admitted[j]].eid \in {x[3].buy, x[3].sell} /\ x[2] = cur
        BY <1>2, <3>4 DEF FillStep, Names
      <4>2. PICK i \in 1..cur : admitted[i] = admitted[j]
        BY <1>12, <3>3, <3>4, <4>1 DEF FInv, FlightSound, FlightStaged, TradesKnown
      <4>3. i \in 1..Len(admitted) /\ i # j
        BY <1>3, <2>1, <4>2 DEF PInv, SInv, IInv, TypeOK
      <4>. QED  BY <3>2, <4>2, <4>3, OneEngine
    <3>. QED  BY <1>12, <3>1, <3>3, <3>4
  <2>. QED  BY <1>1, <2>1 DEF Unstaged
<1>24. OneMarket'
  BY <1>1 DEF OneMarket
<1>. QED  BY <1>9, <1>19, <1>21, <1>22, <1>23, <1>24 DEF FlightSound, FlightStaged

-----------------------------------------------------------------------------
(* Commit. *)

(* What a commit leaves in memory is what was staged. *)
LEMMA CommitSteps ==
  ASSUME PInv, Commit
  PROVE  /\ pc = "commit" /\ mem' = Apply(mem, change) /\ change' = Empty
         /\ books' = books /\ listed' = listed /\ failed' = failed /\ Running /\ Running'
         /\ \A id \in OrderIds : mem'.orders[id] = Staged(id)
         /\ \A m \in Markets : mem'.markets[m] =
              IF change.markets[m] = NoMarket THEN mem.markets[m] ELSE change.markets[m]
         /\ \A e \in Engines : taker[e] = NoTaker /\ taker'[e] = NoTaker
<1>1. /\ pc = "commit" /\ mem' = Apply(mem, change) /\ change' = Empty
      /\ books' = books /\ listed' = listed /\ failed' = failed
      /\ pc' = IF after = "return" THEN "idle" ELSE after
      /\ taker' = taker \/ taker' = [e \in Engines |-> NoTaker]
  BY DEF Commit, Return, ScratchCleared
<1>2. ~failed /\ after \in {"return", "engine", "fill", "recover"}
      /\ \A e \in Engines : taker[e] = NoTaker
  BY <1>1 DEF PInv, SInv, IInv, Control
<1>3. Running /\ Running'
  BY <1>1, <1>2 DEF Running
<1>4. mem \in LedgerType /\ change \in LedgerType
  BY DEF PInv, SInv, IInv, TypeOK
<1>5. /\ \A id \in OrderIds : mem'.orders[id] = Staged(id)
      /\ \A m \in Markets : mem'.markets[m] =
              IF change.markets[m] = NoMarket THEN mem.markets[m] ELSE change.markets[m]
  BY <1>1, <1>4, ApplyLedger DEF Staged
<1>6. \A e \in Engines : taker'[e] = NoTaker
  BY <1>1, <1>2
<1>. QED  BY <1>1, <1>2, <1>3, <1>5, <1>6

(* A commit gives an order the engine id its engine knows it by. *)
LEMMA CommitEid ==
  ASSUME PInv, Commit, NEW id \in OrderIds, mem.orders[id] # NoOrder
  PROVE  Eid(id) = mem'.orders[id].eid
<1>1. pc = "commit" /\ mem'.orders[id] = Staged(id)
  BY CommitSteps
<1>2. CASE AwaitingIds /\ Among(id)
  <2>1. PICK k \in 1..Len(admitted) : admitted[k] = id
    BY <1>2 DEF Among
  <2>2. change.orders[id] # NoOrder
    <3>1. CASE after = "fill"
      <4>1. op = "recover" /\ Submitted
        BY <1>1, <3>1 DEF PInv, SInv, IInv, Control, Submitted
      <4>2. Len(admitted) = 1
        BY <4>1 DEF PInv, SInv, IInv, Control
      <4>3. k = 1
        BY <4>2
      <4>. QED  BY <1>1, <2>1, <3>1, <4>3 DEF PInv, SInv, IInv, CompletionStaged
    <3>2. CASE after # "fill"
      <4>1. op = "place" /\ after = "return"
        BY <1>1, <1>2, <3>2 DEF AwaitingIds
      <4>. QED  BY <1>1, <2>1, <4>1 DEF PInv, SInv, IInv, CompletionStaged
    <3>. QED  BY <3>1, <3>2
  <2>3. Eid(id) = Answer(k).eid /\ mem.orders[id].eid = 0
    BY <1>2, <2>1, PlaceIs
  <2>4. PICK j \in DOMAIN results : admitted[j] = id /\ change.orders[id].eid = results[j].eid
    BY <2>2, <2>3 DEF PInv, StagedIds
  <2>5. j \in 1..Len(admitted)
    BY DEF PInv, SInv, IInv, TypeOK
  <2>6. Eid(id) = Answer(j).eid
    BY <1>2, <2>4, <2>5, PlaceIs
  <2>. QED  BY <1>1, <2>2, <2>4, <2>6 DEF Staged, Answer
<1>3. CASE ~(AwaitingIds /\ Among(id))
  <2>1. Eid(id) = mem.orders[id].eid
    BY <1>3 DEF Eid
  <2>2. change.orders[id] # NoOrder => change.orders[id].eid = mem.orders[id].eid
    <3>1. SUFFICES ASSUME change.orders[id] # NoOrder, mem.orders[id].eid = 0 PROVE FALSE
      BY DEF PInv, StagedIds
    <3>2. AwaitingIds /\ \E k \in DOMAIN results : admitted[k] = id
      BY <3>1 DEF PInv, StagedIds
    <3>3. Among(id)
      BY <3>2 DEF PInv, SInv, IInv, TypeOK, Among
    <3>. QED  BY <1>3, <3>2, <3>3
  <2>. QED  BY <1>1, <2>1, <2>2 DEF Staged
<1>. QED  BY <1>2, <1>3

LEMMA EnginesKnown ==
  PInv /\ AwaitingIds => \A k \in 1..Len(admitted) : EngineOf(k) \in Engines
BY GivenKnown

LEMMA EnginesKnownNext ==
  PInv' /\ AwaitingIds' => \A k \in 1..Len(admitted') : EngineOf(k)' \in Engines
<1>1. PInv' /\ AwaitingIds' => (\A k \in 1..Len(admitted) : EngineOf(k) \in Engines)'
  BY EnginesKnown, PTL
<1>. QED  BY <1>1

(* No order is with an engine under an id memory does not have. *)
LEMMA CommitEidNext ==
  ASSUME PInv, PInv', Commit, NEW id \in OrderIds
  PROVE  Eid(id)' = mem'.orders[id].eid
<1>1. /\ pc = "commit" /\ \A e \in Engines : taker'[e] = NoTaker
      /\ pc' = IF after = "return" THEN "idle" ELSE after
      /\ after = "return" => op' = "none"
      /\ after # "return" => op' = op /\ admitted' = admitted /\ results' = results /\ after' = "idle"
  BY CommitSteps DEF Commit, Return
<1>2. CASE ~AwaitingIds'
  BY <1>2 DEF Eid
<1>3. CASE AwaitingIds'
  <2>1. after = "engine"
    BY <1>1, <1>3 DEF AwaitingIds, PInv, SInv, IInv, Control
  <2>2. DOMAIN results' = {}
    BY <1>1, <2>1 DEF PInv, PlacesReserved, Reserving
  <2>3. mem'.orders[id].eid = 0 /\ Among(id)' => (Answer(PlaceOf(id))').eid = 0
    <3>1. SUFFICES ASSUME Among(id)' PROVE (Answer(PlaceOf(id))').eid = 0
      OBVIOUS
    <3>2. PICK k : k = PlaceOf(id)'
      OBVIOUS
    <3>3. (Answer(PlaceOf(id))') = (Answer(k)')
      BY <3>2 DEF Answer, EngineOf, SymbolOf
    <3>4. k \in 1..Len(admitted')
      BY <3>1, <3>2 DEF Among, PlaceOf
    <3>5. EngineOf(k)' \in Engines
      BY <1>3, <3>4, EnginesKnownNext
    <3>6. (Answer(k)').eid = 0
      BY <1>1, <2>2, <3>5 DEF Answer
    <3>. QED  BY <3>3, <3>6
  <2>. QED  BY <2>3 DEF Eid
<1>. QED  BY <1>2, <1>3

LEMMA CommitRestates ==
  ASSUME PInv, PInv', FInv, LedgersSound', Commit
  PROVE  RestatesTo(Live, Live')
<1>1. /\ DOMAIN Live = ActiveOrders(mem) /\ DOMAIN Live \subseteq OrderIds
      /\ Live \in [DOMAIN Live -> EngineOrder]
      /\ DOMAIN Live' = ActiveOrders(mem)' /\ DOMAIN Live' \subseteq OrderIds
      /\ Live' \in [DOMAIN Live' -> EngineOrder]
  BY LiveIs, LiveNext DEF LedgersSound
<1>2. /\ change' = Empty /\ mem' = Apply(mem, change) /\ pc = "commit"
      /\ \A id \in OrderIds : mem'.orders[id] = Staged(id)
  BY CommitSteps
<1>3. ASSUME NEW id \in OrderIds
      PROVE  Unfilled(Staged(id))' = Unfilled(Staged(id))
  <2>1. Staged(id)' = mem'.orders[id]
    BY <1>2, EmptyLedger DEF Staged
  <2>. QED  BY <1>2, <2>1 DEF Unfilled, Active, Remaining
<1>4. ASSUME NEW id \in DOMAIN Live, id \in DOMAIN Live'
      PROVE  Live'[id] = Live[id]
  <2>1. /\ id \in OrderIds /\ Active(mem.orders[id]) /\ mem.orders[id] # NoOrder
        /\ Active(mem'.orders[id]) /\ mem'.orders[id] # NoOrder
    BY <1>1, <1>4 DEF ActiveOrders, Active
  <2>2. Eid(id)' = Eid(id)
    BY <2>1, CommitEid, CommitEidNext
  <2>3. /\ mem'.orders[id].market = mem.orders[id].market
        /\ mem'.orders[id].side = mem.orders[id].side
        /\ mem'.orders[id].price = mem.orders[id].price
    BY <1>2, <2>1 DEF Staged, PInv, SInv, IInv, StagedFaithful, SameOrder
  <2>. QED  BY <1>1, <1>3, <1>4, <2>1, <2>2, <2>3 DEF Live
<1>5. ASSUME NEW id \in DOMAIN Live, id \notin DOMAIN Live'
      PROVE  Live[id].open = 0
  <2>1. id \in OrderIds /\ ~Active(mem'.orders[id])
    BY <1>1, <1>5 DEF ActiveOrders
  <2>2. Unfilled(Staged(id)) = 0
    BY <1>2, <2>1 DEF Unfilled
  <2>. QED  BY <2>2, LiveIs
<1>6. ASSUME NEW id \in DOMAIN Live', id \notin DOMAIN Live
      PROVE  Live'[id].eid = 0
  <2>1. id \in OrderIds /\ ~Active(mem.orders[id]) /\ Active(mem'.orders[id]) /\ mem'.orders[id] # NoOrder
    BY <1>1, <1>6 DEF ActiveOrders, Active
  <2>2. mem'.orders[id].eid = 0
    BY <1>2, <2>1, PCommitOrder
  <2>3. Eid(id)' = 0
    BY <2>1, <2>2, CommitEidNext
  <2>. QED  BY <1>1, <1>6, <2>3 DEF Live
<1>. QED  BY <1>4, <1>5, <1>6 DEF RestatesTo

LEMMA CommitBooks ==
  ASSUME PInv, PInv', FInv, LedgersSound', Commit
  PROVE  BooksRestate(Live', Served, BookOf, Served', BookOf')
<1>1. /\ DOMAIN Live' = ActiveOrders(mem)' /\ DOMAIN Live' \subseteq OrderIds
  BY LiveNext DEF LedgersSound
<1>2. /\ mem' = Apply(mem, change) /\ pc = "commit" /\ books' = books /\ listed' = listed /\ Running
      /\ \A id \in OrderIds : mem'.orders[id] = Staged(id)
      /\ \A m \in Markets : mem'.markets[m] =
              IF change.markets[m] = NoMarket THEN mem.markets[m] ELSE change.markets[m]
  BY CommitSteps
<1>3. ASSUME NEW m \in Served', mem.markets[m] # NoMarket
      PROVE  m \in Served /\ BookOf'[m] = BookOf[m]
  <2>1. /\ m \in Markets /\ mem'.markets[m] # NoMarket /\ mem'.markets[m].status = "open"
        /\ mem'.markets[m].symbol \in listed
    BY <1>2, <1>3 DEF Served, MarketOpen
  <2>2. mem'.markets[m].symbol = mem.markets[m].symbol
    BY <1>2, <1>3, <2>1 DEF PInv, StagedSymbols
  <2>3. mem.markets[m].status = "open"
    BY <1>2, <1>3, <2>1 DEF PInv, SInv, StagedOpen, IsOpen
  <2>4. m \in Served
    BY <1>3, <2>1, <2>2, <2>3 DEF Served, MarketOpen
  <2>. QED  BY <1>2, <1>3, <2>2, <2>4 DEF BookOf
<1>4. ASSUME NEW m \in Served', mem.markets[m] = NoMarket
      PROVE  BookOf'[m] = {} /\ \A id \in DOMAIN Live' : Live'[id].market = m => Live'[id].eid = 0
  <2>1. /\ m \in Markets /\ mem'.markets[m] # NoMarket /\ mem'.markets[m].symbol \in Symbols
    BY <1>2, <1>4 DEF Served, MarketOpen, PInv, SInv, IInv, TypeOK
  <2>2. ASSUME NEW n \in Markets, mem.markets[n] # NoMarket,
               mem.markets[n].symbol = mem'.markets[m].symbol
        PROVE  FALSE
    <3>1. mem'.markets[n] # NoMarket /\ mem'.markets[n].symbol = mem.markets[n].symbol
      BY <1>2, <2>2 DEF PInv, StagedSymbols
    <3>2. n = m
      BY <2>1, <2>2, <3>1 DEF LedgersSound, SymbolsOwn
    <3>. QED  BY <1>4, <2>2, <3>2
  <2>3. books[mem'.markets[m].symbol] = {}
    BY <1>2, <2>1, <2>2 DEF FInv, BooksSound, EmptyBooks
  <2>4. BookOf'[m] = {}
    BY <1>2, <1>4, <2>3 DEF BookOf
  <2>5. ASSUME NEW id \in DOMAIN Live', Live'[id].market = m
        PROVE  FALSE
    <3>1. id \in OrderIds /\ Active(mem'.orders[id]) /\ mem'.orders[id] # NoOrder
      BY <1>1, <2>5 DEF ActiveOrders, Active
    <3>2. mem'.orders[id].market = m
      BY <1>1, <2>5 DEF Live
    <3>3. mem.markets[mem'.orders[id].market] # NoMarket
      BY <1>2, <3>1 DEF Staged, PInv, SInv, IInv, MarketsKnown, MarketsIn
    <3>. QED  BY <1>4, <3>2, <3>3
  <2>. QED  BY <2>4, <2>5
<1>. QED  BY <1>3, <1>4 DEF BooksRestate

LEMMA CommitPending ==
  ASSUME PInv, PInv', FInv, Commit
  PROVE  /\ Pending' = Pending /\ Matching' = Matching
         /\ Submitted' => (Submitted /\ after = "fill") \/ (Pending' = {} /\ after = "engine")
         /\ Submitted' /\ after = "engine" =>
              \A k \in 1..Len(admitted') : (Answer(k)').trades = <<>>
         /\ Submitted' /\ after = "fill" =>
              /\ admitted' = admitted /\ op' = "recover"
              /\ \A k \in 1..Len(admitted) : Answer(k)' = Answer(k)
<1>1. /\ pc = "commit" /\ \A e \in Engines : taker[e] = NoTaker /\ taker'[e] = NoTaker
      /\ pc' = IF after = "return" THEN "idle" ELSE after
      /\ after # "return" => op' = op /\ admitted' = admitted /\ results' = results /\ after' = "idle"
      /\ \A id \in OrderIds : mem'.orders[id] = Staged(id)
  BY CommitSteps DEF Commit, Return
<1>2. Matching' = {} /\ Matching = {}
  BY <1>1 DEF Matching
<1>3. CASE after = "fill"
  <2>1. Submitted /\ Answered
    BY <1>1, <1>3 DEF Submitted, Answered
  <2>2. op = "recover" /\ Submitted' /\ DOMAIN results = 1..Len(admitted)
    BY <1>1, <1>3, <2>1 DEF PInv, SInv, IInv, Control, Submitted
  <2>3. \A k \in 1..Len(admitted) : Answer(k)' = Answer(k)
    BY <1>1, <1>3, <2>2 DEF Answer
  <2>4. \A k \in 1..Len(admitted) : mem'.orders[admitted[k]].market = mem.orders[admitted[k]].market
    <3>1. ASSUME NEW k \in 1..Len(admitted)
          PROVE  mem'.orders[admitted[k]].market = mem.orders[admitted[k]].market
      <4>1. admitted[k] \in OrderIds /\ mem.orders[admitted[k]] # NoOrder
        BY <2>1, GivenKnown
      <4>. QED  BY <1>1, <4>1 DEF Staged, PInv, SInv, IInv, StagedFaithful, SameOrder
    <3>. QED  BY <3>1
  <2>5. ASSUME NEW x PROVE x \in Pending' <=> x \in Pending
    <3>1. x \in Pending' <=>
            \E k \in 1..Len(admitted') : \E i \in DOMAIN (Answer(k)').trades :
              x = <<mem'.orders[admitted'[k]].market, k, (Answer(k)').trades[i]>>
      BY <2>2, PendingIsNext
    <3>2. x \in Pending <=>
            \E k \in 1..Len(admitted) : \E i \in DOMAIN Answer(k).trades :
              x = <<mem.orders[admitted[k]].market, k, Answer(k).trades[i]>>
      BY <2>1, PendingIs
    <3>. QED  BY <1>1, <1>3, <2>3, <2>4, <3>1, <3>2
  <2>6. Pending' = Pending
    BY <2>5
  <2>7. admitted' = admitted /\ op' = "recover"
    BY <1>1, <1>3, <2>2
  <2>8. after # "engine"
    BY <1>3
  <2>. QED  BY <1>2, <1>3, <2>1, <2>3, <2>6, <2>7, <2>8
<1>4. CASE after = "engine"
  <2>1. ~Submitted /\ Pending = {}
    BY <1>1, <1>4 DEF Submitted, Pending
  <2>2. Submitted' /\ AwaitingIds' /\ DOMAIN results' = {}
    BY <1>1, <1>4 DEF Submitted, AwaitingIds, PInv, PlacesReserved, Reserving
  <2>3. \A k \in 1..Len(admitted') : (Answer(k)').trades = <<>>
    BY <1>1, <2>2, EnginesKnownNext DEF Answer
  <2>4. ASSUME NEW x \in Pending' PROVE FALSE
    <3>1. PICK k \in 1..Len(admitted') : \E i \in DOMAIN (Answer(k)').trades : TRUE
      BY <2>2, PendingIsNext
    <3>. QED  BY <2>3, <3>1
  <2>. QED  BY <1>2, <1>4, <2>1, <2>3, <2>4
<1>5. CASE after \notin {"fill", "engine"}
  <2>1. ~Submitted /\ ~Submitted'
    BY <1>1, <1>5 DEF Submitted, PInv, SInv, IInv, Control
  <2>. QED  BY <1>2, <2>1 DEF Pending
<1>. QED  BY <1>3, <1>4, <1>5

LEMMA FCommit ==
  ASSUME PInv, PInv', FInv, LedgersSound', Commit
  PROVE  FlightSound'
<1>1. /\ pc = "commit" /\ change' = Empty /\ Running /\ cur' = 1
      /\ pc' = IF after = "return" THEN "idle" ELSE after
      /\ \A e \in Engines : taker'[e] = NoTaker
      /\ \A id \in OrderIds : mem'.orders[id] = Staged(id)
  BY CommitSteps DEF Commit, Return, ScratchCleared
<1>2. after \in {"return", "engine", "fill", "recover"}
  BY <1>1 DEF PInv, SInv, IInv, Control
<1>3. FlightInv'
  <2>1. PICK L, P, K, S, B, L2, S2, B2 :
          /\ L = Live /\ P = Pending /\ K = Matching /\ S = Served /\ B = BookOf
          /\ L2 = Live' /\ S2 = Served' /\ B2 = BookOf'
    OBVIOUS
  <2>2. Flight(L, P, K, S, B)
    BY <1>1, <2>1 DEF FInv, FlightSound, FlightInv
  <2>3. DOMAIN L2 \subseteq OrderIds /\ L2 \in [DOMAIN L2 -> EngineOrder]
    BY <2>1, LiveNext DEF LedgersSound
  <2>4. RestatesTo(L, L2) /\ BooksRestate(L2, S, B, S2, B2)
    BY <2>1, CommitRestates, CommitBooks
  <2>5. Flight(L2, P, K, S2, B2)
    BY <2>2, <2>3, <2>4, FlightRestate
  <2>6. P = Pending' /\ K = Matching'
    BY <2>1, CommitPending
  <2>. QED  BY <2>1, <2>5, <2>6 DEF FlightInv
<1>4. OneMarket' /\ TakerLeft'
  BY <1>1, <1>2 DEF OneMarket, TakerLeft
<1>5. CASE ~Submitted'
  BY <1>3, <1>4, <1>5, QuietNext DEF FlightSound, FlightStaged
<1>6. CASE Submitted' /\ after = "engine"
  <2>1. Pending' = {} /\ \A k \in 1..Len(admitted') : (Answer(k)').trades = <<>>
    BY <1>6, CommitPending
  <2>2. DistinctTrades'
    BY <2>1 DEF DistinctTrades
  <2>3. TradesKnown'
    BY <2>1 DEF TradesKnown
  <2>4. Drained' /\ Unstaged'
    BY <1>1, <1>6 DEF Drained, Unstaged
  <2>. QED  BY <1>3, <1>4, <2>2, <2>3, <2>4 DEF FlightSound, FlightStaged
<1>7. CASE Submitted' /\ after = "fill"
  <2>1. /\ Submitted /\ Pending' = Pending /\ admitted' = admitted
        /\ \A k \in 1..Len(admitted) : Answer(k)' = Answer(k)
    BY <1>7, CommitPending
  <2>2. DistinctTrades'
    BY <2>1 DEF DistinctTrades, FInv, FlightSound, FlightStaged
  <2>3. TradesKnown'
    <3>1. ASSUME NEW x \in Pending', NEW id \in DOMAIN Live',
                 Live'[id].market = x[1], Live'[id].eid \in {x[3].buy, x[3].sell}
          PROVE  mem'.orders[id].eid # 0 \/ \E j \in 1..x[2] : admitted'[j] = id
      <4>1. RestatesTo(Live, Live')
        BY CommitRestates
      <4>2. x \in Pending /\ x[3].buy # 0 /\ x[3].sell # 0
        BY <1>1, <2>1 DEF FInv, FlightSound, FlightInv, Flight, TradeSound
      <4>3. id \in DOMAIN Live /\ Live[id] = Live'[id]
        BY <3>1, <4>1, <4>2 DEF RestatesTo
      <4>4. id \in OrderIds /\ Active(mem.orders[id]) /\ mem.orders[id] # NoOrder
        BY <4>3 DEF Live, ActiveOrders, Active
      <4>5. mem.orders[id].eid # 0 \/ \E j \in 1..x[2] : admitted[j] = id
        BY <3>1, <4>2, <4>3 DEF FInv, FlightSound, FlightStaged, TradesKnown
      <4>6. mem.orders[id].eid # 0 => mem'.orders[id].eid # 0
        BY <1>1, <4>4 DEF Staged, PInv, StagedIds
      <4>. QED  BY <2>1, <4>5, <4>6
    <3>. QED  BY <3>1 DEF TradesKnown
  <2>4. Drained'
    BY <1>1 DEF Drained
  <2>5. Unstaged'
    <3>1. \A j \in 1..Len(admitted') : change'.orders[admitted'[j]] = NoOrder
      BY <1>1, EmptyLedger DEF PInv, SInv, IInv, TypeOK
    <3>. QED  BY <3>1 DEF Unstaged
  <2>. QED  BY <1>3, <1>4, <2>2, <2>3, <2>4, <2>5 DEF FlightSound, FlightStaged
<1>. QED  BY <1>5, <1>6, <1>7, CommitPending

-----------------------------------------------------------------------------
(* The invariant, and the books. *)

LEMMA FStutter ==
  ASSUME FlightSound, UNCHANGED vars
  PROVE  FlightSound'
<1>1. /\ mem' = mem /\ admitted' = admitted /\ results' = results /\ taker' = taker
      /\ books' = books /\ listed' = listed /\ change' = change /\ pc' = pc /\ after' = after
      /\ op' = op /\ failed' = failed /\ cur' = cur /\ todo' = todo
  BY DEF vars, service, control, scratch, engine
<1>2. (Submitted' <=> Submitted) /\ (AwaitingIds' <=> AwaitingIds) /\ (Running' <=> Running)
  BY <1>1 DEF Submitted, AwaitingIds, Running
<1>3. /\ \A k : Answer(k)' = Answer(k)
      /\ Matching' = Matching /\ Pending' = Pending
      /\ \A id : Eid(id)' = Eid(id)
  BY <1>1, <1>2, AnswersStay
<1>4. \A id \in ActiveOrders(mem) : Unfilled(Staged(id))' = Unfilled(Staged(id))
  BY <1>1 DEF Staged, Unfilled
<1>5. Live' = Live
  BY <1>1, <1>3, <1>4, LiveKept
<1>6. Served' = Served /\ BookOf' = BookOf
  BY <1>1, ServedKept
<1>7. FlightInv'
  BY <1>2, <1>3, <1>5, <1>6, FlightKept DEF FlightSound
<1>8. TakerLeft'
  BY <1>1, <1>3, <1>5 DEF FlightSound, TakerLeft, TakerSymbol, SymbolOf
<1>9. DistinctTrades' /\ TradesKnown'
  BY <1>1, <1>2, <1>3, <1>5 DEF FlightSound, FlightStaged, DistinctTrades, TradesKnown
<1>10. Drained' /\ Unstaged' /\ OneMarket'
  BY <1>1 DEF FlightSound, FlightStaged, Drained, Unstaged, OneMarket
<1>. QED  BY <1>7, <1>8, <1>9, <1>10 DEF FlightSound, FlightStaged

LEMMA InitFInv == Init => FInv
<1>1. SUFFICES ASSUME Init PROVE FInv
  OBVIOUS
<1>2. PInv
  BY <1>1, InitPInv
<1>3. /\ mem = Empty /\ disk = Empty /\ change = Empty /\ pc = "idle"
      /\ books = [s \in Symbols |-> {}]
      /\ \A id \in OrderIds : Empty.orders[id] = NoOrder
      /\ \A m \in Markets : Empty.markets[m] = NoMarket
  BY <1>1, EmptyLedger DEF Init
<1>4. LedgersSound
  <2>1. \A m \in Markets : Apply(mem, change).markets[m] = NoMarket
    BY <1>3, EmptyLedger DEF Apply
  <2>. QED  BY <1>3, <2>1 DEF LedgersSound, SymbolsOwn, OrdersGood
<1>5. BooksSound
  BY <1>3 DEF BooksSound, EmptyBooks, BooksUncrossed, Uncrossed
<1>6. ~Submitted
  BY <1>3 DEF Submitted
<1>7. Pending = {} /\ TakerLeft /\ DistinctTrades /\ TradesKnown /\ Drained /\ Unstaged
  BY <1>2, <1>6, QuietState
<1>8. OneMarket
  BY <1>3 DEF OneMarket
<1>9. FlightInv
  <2>1. /\ DOMAIN Live = ActiveOrders(mem) /\ DOMAIN Live \subseteq OrderIds
        /\ Live \in [DOMAIN Live -> EngineOrder]
    BY <1>2, <1>4, LiveNow DEF LedgersSound
  <2>2. DOMAIN Live = {}
    BY <1>3, <2>1 DEF ActiveOrders, Active
  <2>3. Served = {}
    BY <1>3 DEF Served, MarketOpen
  <2>. QED  BY <1>7, <2>1, <2>2, <2>3, FlightFresh DEF FlightInv
<1>. QED  BY <1>4, <1>5, <1>7, <1>8, <1>9 DEF FInv, FlightSound, FlightStaged

LEMMA NextFInv == PInv /\ FInv /\ [Next]_vars => FInv'
<1>1. SUFFICES ASSUME PInv, FInv, [Next]_vars PROVE FInv'
  OBVIOUS
<1>2. PInv' /\ FlightSound /\ BooksSound /\ LedgersSound
  BY <1>1, NextPInv DEF FInv
<1>. USE <1>1, <1>2
<1>3. CASE Client
  <2>1. FlightSound' /\ BooksSound'
    BY <1>3, FBegins, BKeeps DEF Client
  <2>2. LedgersSound'
    <3>1. CASE \E c \in Creations : CreateMarketFor(c)
      BY <3>1, LCreateMarketFor
    <3>2. CASE ~\E c \in Creations : CreateMarketFor(c)
      BY <1>3, <3>2, LKeeps DEF Client
    <3>. QED  BY <3>1, <3>2
  <2>. QED  BY <2>1, <2>2 DEF FInv
<1>4. CASE Progress
  <2>1. CASE AdmitNext
    BY <2>1, FAdmitNext, BKeeps, LAdmitNext DEF FInv
  <2>2. CASE AdmissionDone
    BY <2>2, FAdmissionDone, BKeeps, LKeeps DEF FInv
  <2>3. CASE Commit
    <3>1. LedgersSound'
      BY <2>3, LCommit
    <3>. QED  BY <2>3, <3>1, FCommit, BCommit DEF FInv
  <2>4. CASE \E k \in 1..Len(admitted) : EngineAccept(k)
    <3>1. LedgersSound' /\ BooksSound'
      BY <2>4, LKeeps, BKeeps
    <3>. QED  BY <2>4, <3>1, FEngineAccept DEF FInv
  <2>5. CASE \E e \in Engines : EngineMatch(e)
    <3>1. LedgersSound'
      BY <2>5, LKeeps
    <3>. QED  BY <2>5, <3>1, FEngineMatch, BEngineMatch DEF FInv
  <2>6. CASE \E e \in Engines : EngineFinish(e)
    <3>1. LedgersSound'
      BY <2>6, LKeeps
    <3>. QED  BY <2>6, <3>1, FEngineFinish, BEngineFinish DEF FInv
  <2>7. CASE EngineDone
    BY <2>7, FEngineDone, BKeeps, LKeeps DEF FInv
  <2>8. CASE BookMissing
    BY <2>8, FQuits, BKeeps, LKeeps DEF FInv
  <2>9. CASE StageOrder
    BY <2>9, FStageOrder, BKeeps, LStageOrder DEF FInv
  <2>10. CASE StageFill
    <3>1. LedgersSound'
      BY <2>10, LStageFill
    <3>. QED  BY <2>10, <3>1, FStageFill, BKeeps DEF FInv
  <2>11. CASE FillsDone
    BY <2>11, FFillsDone, BKeeps, LKeeps DEF FInv
  <2>12. CASE \E id \in todo : RemoveOrder(id)
    <3>1. LedgersSound'
      BY <2>12, LRemoveOrder
    <3>. QED  BY <2>12, <3>1, FRemoveOrder, BRemoveOrder DEF FInv
  <2>13. CASE \E id \in todo : RemoveRejected(id)
    <3>1. LedgersSound' /\ BooksSound'
      BY <2>13, LKeeps, BKeeps
    <3>. QED  BY <2>13, <3>1, FRemoveRejected DEF FInv
  <2>14. CASE RemoveDone
    BY <2>14, FRemoveDone, BKeeps, LRemoveDone DEF FInv
  <2>15. CASE \E id \in todo : RecoverNext(id)
    <3>1. LedgersSound' /\ BooksSound'
      BY <2>15, LKeeps, BKeeps
    <3>. QED  BY <2>15, <3>1, FRecoverNext DEF FInv
  <2>16. CASE RecoverDone
    BY <2>16, FRecoverDone, BKeeps, LKeeps DEF FInv
  <2>. QED  BY <1>4, <2>1, <2>2, <2>3, <2>4, <2>5, <2>6, <2>7, <2>8, <2>9, <2>10, <2>11, <2>12,
               <2>13, <2>14, <2>15, <2>16 DEF Progress
<1>5. CASE Faults
  <2>1. CASE \E c \in Creations : AddBookUncertain(c)
    BY <2>1, FBegins, BKeeps, LKeeps DEF FInv
  <2>2. CASE CommitFails
    BY <2>2, FQuits, BKeeps, LCommit DEF FInv
  <2>3. CASE EngineError \/ Crash
    BY <2>3, FQuits, BKeeps, LKeeps DEF FInv
  <2>4. CASE \E e \in Engines : EngineRestart(e)
    <3>1. LedgersSound'
      BY <2>4, LKeeps
    <3>. QED  BY <2>4, <3>1, FEngineRestart, BEngineRestart DEF FInv
  <2>. QED  BY <1>5, <2>1, <2>2, <2>3, <2>4 DEF Faults
<1>6. CASE Stop
  BY <1>6, FQuits, BKeeps, LKeeps DEF FInv
<1>7. CASE Start
  <2>1. LedgersSound'
    BY <1>7, LStart
  <2>. QED  BY <1>7, <2>1, FStart, BStart DEF FInv
<1>8. CASE UNCHANGED vars
  BY <1>8, FStutter, BKeeps, LKeeps DEF FInv
<1>. QED  BY <1>3, <1>4, <1>5, <1>6, <1>7, <1>8 DEF Next

LEMMA FInvariance == Spec => [](PInv /\ FInv)
<1>1. Init => PInv /\ FInv
  BY InitPInv, InitFInv
<1>2. PInv /\ FInv /\ [Next]_vars => PInv' /\ FInv'
  BY NextPInv, NextFInv
<1>. QED  BY <1>1, <1>2, PTL DEF Spec

(* BookMirrorsLedger: whenever the service serves, an engine that kept a
   market's book holds exactly the unfilled rest of the ledger's active
   orders, and none crosses another. *)
THEOREM BooksMirrorLedger == Spec => []BookMirrorsLedger
<1>1. PInv /\ FInv => BookMirrorsLedger
  <2>. SUFFICES ASSUME PInv, FInv, Serving, NEW m \in Markets, MarketOpen(m),
                       mem.markets[m].symbol \in listed
                PROVE  /\ books[mem.markets[m].symbol] = LedgerBook(m)
                       /\ Uncrossed(LedgerBook(m))
    BY DEF BookMirrorsLedger
  <2>1. Running /\ Ready /\ ~Submitted /\ change = Empty
    BY DEF Serving, Running, Ready, Submitted, PInv, SInv, IInv, Control
  <2>2. Flight(Live, {}, {}, Served, BookOf)
    BY <2>1, QuietState DEF FInv, FlightSound, FlightInv
  <2>3. m \in Served /\ BookOf[m] = books[mem.markets[m].symbol]
    BY DEF Served, BookOf
  <2>4. /\ DOMAIN Live = ActiveOrders(mem)
        /\ \A id \in DOMAIN Live :
              /\ Live[id].market = mem.orders[id].market
              /\ Live[id].side = EngineSide(mem.orders[id].side)
              /\ Live[id].price = EnginePrice(mem.orders[id].side, mem.orders[id].price)
              /\ Live[id].eid = Eid(id)
              /\ Live[id].open = Unfilled(Staged(id))
    BY LiveIs
  <2>5. ASSUME NEW id \in ActiveOrders(mem)
        PROVE  /\ id \in OrderIds /\ Rests(Live, {}, {}, id) /\ Live[id].market = mem.orders[id].market
               /\ Rest(Live, {}, id) = [eid |-> mem.orders[id].eid,
                                        side |-> EngineSide(mem.orders[id].side),
                                        price |-> EnginePrice(mem.orders[id].side, mem.orders[id].price),
                                        qty |-> Remaining(mem.orders[id])]
    <3>1. id \in OrderIds /\ Active(mem.orders[id]) /\ mem.orders[id] # NoOrder
      BY DEF ActiveOrders, Active
    <3>2. mem.orders[id].eid # 0 /\ Eid(id) = mem.orders[id].eid
      BY <2>1, <3>1, PAtRest DEF Eid
    <3>3. Unfilled(Staged(id)) = Remaining(mem.orders[id])
      BY <2>1, <3>1, EmptyLedger DEF Staged, Unfilled
    <3>4. Naming({}, Live[id].market, Live[id].eid) = {}
      BY DEF Naming
    <3>5. Owed({}, Live[id].market, Live[id].eid) = 0
      BY <3>4, SumEmpty DEF Owed
    <3>6. PICK q, f : q = mem.orders[id].qty /\ f = mem.orders[id].filled
      OBVIOUS
    <3>7. q \in Nat /\ f \in Nat /\ f < q
      BY <3>1, <3>6 DEF FInv, LedgersSound, OrdersGood, PInv, SInv, IInv, TypeOK, LedgerType, Order
    <3>8. Left(Live, {}, id) = (q - f) - 0
      BY <2>4, <3>3, <3>5, <3>6 DEF Left, Remaining
    <3>9. Left(Live, {}, id) = q - f /\ q - f > 0
      BY <3>7, <3>8
    <3>10. Rests(Live, {}, {}, id)
      BY <2>4, <3>2, <3>9 DEF Rests
    <3>. QED  BY <2>4, <3>1, <3>2, <3>6, <3>9, <3>10 DEF Rest, Remaining
  <2>6. ASSUME NEW o \in books[mem.markets[m].symbol] PROVE o \in LedgerBook(m)
    <3>1. PICK id \in OrderIds : /\ Rests(Live, {}, {}, id) /\ Live[id].market = m
                                 /\ o = Rest(Live, {}, id)
      BY <2>2, <2>3 DEF Flight, BookBacked
    <3>2. id \in ActiveOrders(mem)
      BY <2>4, <3>1 DEF Rests
    <3>3. mem.orders[id].market = m
      BY <2>5, <3>1, <3>2
    <3>. QED  BY <2>5, <3>1, <3>2, <3>3 DEF LedgerBook
  <2>7. ASSUME NEW o \in LedgerBook(m) PROVE o \in books[mem.markets[m].symbol]
    <3>1. PICK id \in ActiveOrders(mem) :
            /\ mem.orders[id].market = m
            /\ o = [eid |-> mem.orders[id].eid, side |-> EngineSide(mem.orders[id].side),
                    price |-> EnginePrice(mem.orders[id].side, mem.orders[id].price),
                    qty |-> Remaining(mem.orders[id])]
      BY DEF LedgerBook
    <3>2. Rest(Live, {}, id) \in BookOf[Live[id].market]
      BY <2>2, <2>3, <2>5, <3>1 DEF Flight, BookComplete
    <3>. QED  BY <2>3, <2>5, <3>1, <3>2
  <2>8. books[mem.markets[m].symbol] = LedgerBook(m)
    BY <2>6, <2>7
  <2>9. mem.markets[m].symbol \in Symbols
    BY DEF PInv, SInv, IInv, TypeOK
  <2>10. Uncrossed(books[mem.markets[m].symbol])
    BY <2>9 DEF FInv, BooksSound, BooksUncrossed
  <2>. QED  BY <2>8, <2>10
<1>. QED  BY <1>1, FInvariance, PTL

-----------------------------------------------------------------------------
(* The sums of the accounting properties. *)
HeldBy(l, m, x) == [u \in Users |-> l.pos[<<u, m, x>>]]
AsideBy(l, m, x) == [id \in OrderIds |-> SetAside(l.orders[id], m, x)]
ReservedBy(l) == [id \in OrderIds |-> CashAside(l.orders[id])]
BackingBy(l) == [m \in Markets |-> Collateral(l, m)]

Held(l, m, x) == SumFunctionOnSet(HeldBy(l, m, x), Users)
Aside(l, m, x) == SumFunctionOnSet(AsideBy(l, m, x), OrderIds)
Free(l) == SumFunctionOnSet(l.cash, Users)
Reserved(l) == SumFunctionOnSet(ReservedBy(l), OrderIds)
Backing(l) == SumFunctionOnSet(BackingBy(l), Markets)

LEMMA OrderAsides ==
  ASSUME NEW o \in Order \cup {NoOrder}, NEW m, NEW x
  PROVE  SetAside(o, m, x) \in Int /\ CashAside(o) \in Int
<1>1. CASE o = NoOrder
  BY <1>1 DEF SetAside, CashAside, Active
<1>2. CASE o \in Order
  BY <1>2 DEF SetAside, CashAside, Order, Remaining
<1>. QED  BY <1>1, <1>2

LEMMA AccountSums ==
  ASSUME NEW l \in LedgerType
  PROVE  /\ Summable(l.cash, Users) /\ Free(l) \in Int
         /\ Summable(ReservedBy(l), OrderIds) /\ Reserved(l) \in Int
         /\ \A m \in Markets, x \in Outcomes :
              /\ Summable(HeldBy(l, m, x), Users) /\ Held(l, m, x) \in Int
              /\ Summable(AsideBy(l, m, x), OrderIds) /\ Aside(l, m, x) \in Int
              /\ Outstanding(l, m, x) = Held(l, m, x) + Aside(l, m, x)
         /\ Summable(BackingBy(l), Markets) /\ Backing(l) \in Int
         /\ CashAccountedFor(l) <=> Free(l) + Reserved(l) + Backing(l) = l.deposited
<1>1. IsFiniteSet(Users) /\ IsFiniteSet(Markets) /\ IsFiniteSet(OrderIds)
  BY ConstantsAssumption
<1>2. Summable(l.cash, Users) /\ DOMAIN l.cash = Users
  BY <1>1 DEF Summable, LedgerType
<1>3. \A id \in OrderIds : l.orders[id] \in Order \cup {NoOrder}
  BY DEF LedgerType
<1>4. Summable(ReservedBy(l), OrderIds)
  BY <1>1, <1>3, OrderAsides DEF Summable, ReservedBy
<1>5. ASSUME NEW m \in Markets, NEW x \in Outcomes
      PROVE  /\ Summable(HeldBy(l, m, x), Users) /\ Held(l, m, x) \in Int
             /\ Summable(AsideBy(l, m, x), OrderIds) /\ Aside(l, m, x) \in Int
             /\ Outstanding(l, m, x) = Held(l, m, x) + Aside(l, m, x)
  <2>1. Summable(HeldBy(l, m, x), Users)
    BY <1>1 DEF Summable, HeldBy, LedgerType, Holdings
  <2>2. Summable(AsideBy(l, m, x), OrderIds)
    BY <1>1, <1>3, OrderAsides DEF Summable, AsideBy
  <2>3. DOMAIN HeldBy(l, m, x) = Users /\ DOMAIN AsideBy(l, m, x) = OrderIds
    BY DEF HeldBy, AsideBy
  <2>4. Outstanding(l, m, x) = SumFunction(HeldBy(l, m, x)) + SumFunction(AsideBy(l, m, x))
    BY DEF Outstanding, HeldBy, AsideBy
  <2>5. Outstanding(l, m, x) = Held(l, m, x) + Aside(l, m, x)
    BY <2>3, <2>4 DEF SumFunction, Held, Aside
  <2>. QED  BY <2>1, <2>2, <2>5, SumType DEF Held, Aside
<1>6. ASSUME NEW m \in Markets
      PROVE  Collateral(l, m) \in Int
  <2>1. Outstanding(l, m, "yes") \in Int /\ Outstanding(l, m, "no") \in Int
    BY <1>5 DEF Outcomes
  <2>. QED  BY <2>1 DEF Collateral
<1>7. Summable(BackingBy(l), Markets)
  BY <1>1, <1>6 DEF Summable, BackingBy
<1>8. Free(l) \in Int /\ Reserved(l) \in Int /\ Backing(l) \in Int
  BY <1>2, <1>4, <1>7, SumType DEF Free, Reserved, Backing
<1>9. CashAccountedFor(l) <=> Free(l) + Reserved(l) + Backing(l) = l.deposited
  <2>1. DOMAIN ReservedBy(l) = OrderIds /\ DOMAIN BackingBy(l) = Markets
    BY DEF ReservedBy, BackingBy
  <2>2. CashAccountedFor(l) <=>
          SumFunction(l.cash) + SumFunction(ReservedBy(l)) + SumFunction(BackingBy(l)) = l.deposited
    BY DEF CashAccountedFor, ReservedBy, BackingBy
  <2>. QED  BY <1>2, <2>1, <2>2 DEF SumFunction, Free, Reserved, Backing
<1>. QED  BY <1>2, <1>4, <1>5, <1>7, <1>8, <1>9

(* Ledgers with the same accounts balance alike. *)
SameAccount(o, n) ==
  \/ o = NoOrder /\ n = NoOrder
  \/ /\ o # NoOrder /\ n # NoOrder
     /\ SameOrder(n, o) /\ n.filled = o.filled /\ (Active(n) <=> Active(o))

SameAccounts(l, k) ==
  /\ k.markets = l.markets /\ k.cash = l.cash /\ k.pos = l.pos /\ k.deposited = l.deposited
  /\ \A id \in OrderIds : SameAccount(l.orders[id], k.orders[id])

LEMMA GoodSame ==
  ASSUME NEW l \in LedgerType, NEW k \in LedgerType, SameAccounts(l, k), GoodLedger(l)
  PROVE  GoodLedger(k)
<1>1. /\ k.markets = l.markets /\ k.cash = l.cash /\ k.pos = l.pos /\ k.deposited = l.deposited
      /\ \A id \in OrderIds : SameAccount(l.orders[id], k.orders[id])
  BY DEF SameAccounts
<1>2. ASSUME NEW id \in OrderIds
      PROVE  /\ CashAside(k.orders[id]) = CashAside(l.orders[id])
             /\ \A m, x : SetAside(k.orders[id], m, x) = SetAside(l.orders[id], m, x)
  <2>1. CASE l.orders[id] = NoOrder /\ k.orders[id] = NoOrder
    BY <2>1
  <2>2. CASE l.orders[id] # NoOrder /\ k.orders[id] # NoOrder
    BY <1>1, <2>2 DEF SameAccount, SameOrder, CashAside, SetAside, Remaining
  <2>. QED  BY <1>1, <2>1, <2>2 DEF SameAccount
<1>3. ReservedBy(k) = ReservedBy(l) /\ \A m, x : AsideBy(k, m, x) = AsideBy(l, m, x) /\ HeldBy(k, m, x) = HeldBy(l, m, x)
  BY <1>1, <1>2 DEF ReservedBy, AsideBy, HeldBy
<1>4. \A m \in Markets, x \in Outcomes : Outstanding(k, m, x) = Outstanding(l, m, x)
  BY <1>3, AccountSums DEF Held, Aside
<1>5. \A m \in Markets : Collateral(k, m) = Collateral(l, m)
  BY <1>1, <1>4 DEF Collateral, Outcomes
<1>6. BackingBy(k) = BackingBy(l)
  BY <1>5 DEF BackingBy
<1>7. CashAccountedFor(k)
  <2>1. Free(k) = Free(l) /\ Reserved(k) = Reserved(l) /\ Backing(k) = Backing(l)
    BY <1>1, <1>3, <1>6 DEF Free, Reserved, Backing
  <2>. QED  BY <1>1, <2>1, AccountSums DEF GoodLedger
<1>8. AllPaired(k)
  BY <1>1, <1>4 DEF GoodLedger, AllPaired, Outcomes
<1>9. Covered(k) /\ Unheld(k)
  <2>1. \A id \in OrderIds : k.orders[id] # NoOrder => k.orders[id].filled <= k.orders[id].qty
    BY <1>1 DEF GoodLedger, Covered, OrdersOf, SameAccount, SameOrder
  <2>. QED  BY <1>1, <2>1 DEF GoodLedger, Covered, Unheld, OrdersOf
<1>. QED  BY <1>7, <1>8, <1>9 DEF GoodLedger

-----------------------------------------------------------------------------
(* One leg: order id becomes n, its owner's cash moves by dc and the owner's
   shares of the order's outcome by ds. *)
Leg(l, k, id, n, dc, ds) ==
  /\ k.markets = l.markets /\ k.deposited = l.deposited
  /\ k.orders[id] = n
  /\ \A i \in OrderIds : i # id => k.orders[i] = l.orders[i]
  /\ \A u \in Users : k.cash[u] = IF u = n.user THEN l.cash[u] + dc ELSE l.cash[u]
  /\ \A h \in Holdings :
       k.pos[h] = IF h = <<n.user, n.market, OutcomeOf(n.side)>> THEN l.pos[h] + ds ELSE l.pos[h]

(* What a leg adds to the shares of its outcome, *)
Minted(o, n, ds) ==
  ds + SetAside(n, n.market, OutcomeOf(n.side)) - SetAside(o, n.market, OutcomeOf(n.side))

(* and to the cents there are. *)
Paid(o, n, dc) == dc + CashAside(n) - CashAside(o)

SameOrNew(o, n) == o = NoOrder \/ (o # NoOrder /\ SameOrder(n, o))

LEMMA LegCash ==
  ASSUME NEW l \in LedgerType, NEW k \in LedgerType, NEW id \in OrderIds, NEW n \in Order,
         NEW dc \in Int, NEW ds \in Int, Leg(l, k, id, n, dc, ds)
  PROVE  /\ Free(k) = Free(l) + dc
         /\ Reserved(k) = Reserved(l) - CashAside(l.orders[id]) + CashAside(n)
<1>1. n.user \in Users /\ l.cash[n.user] \in Int /\ k.cash[n.user] \in Int
  BY DEF Order, LedgerType
<1>2. k.cash[n.user] = l.cash[n.user] + dc /\ \A u \in Users \ {n.user} : k.cash[u] = l.cash[u]
  BY <1>1 DEF Leg
<1>3. Free(k) = Free(l) - l.cash[n.user] + k.cash[n.user]
  BY <1>1, <1>2, AccountSums, SumUpdate DEF Free
<1>4. Free(k) = Free(l) + dc
  <2>1. PICK a, b, f : a = l.cash[n.user] /\ b = k.cash[n.user] /\ f = Free(l)
    OBVIOUS
  <2>2. a \in Int /\ f \in Int /\ b = a + dc
    BY <1>1, <1>2, <2>1, AccountSums
  <2>3. f - a + b = f + dc
    BY <2>2
  <2>. QED  BY <1>3, <2>1, <2>3
<1>5. \A i \in OrderIds \ {id} : ReservedBy(k)[i] = ReservedBy(l)[i]
  BY DEF Leg, ReservedBy
<1>6. /\ ReservedBy(k)[id] = CashAside(n) /\ ReservedBy(l)[id] = CashAside(l.orders[id])
      /\ CashAside(n) \in Int
  BY OrderAsides DEF Leg, ReservedBy
<1>7. Reserved(k) = Reserved(l) - CashAside(l.orders[id]) + CashAside(n)
  BY <1>5, <1>6, AccountSums, SumUpdate DEF Reserved
<1>. QED  BY <1>4, <1>7

LEMMA LegShares ==
  ASSUME NEW l \in LedgerType, NEW k \in LedgerType, NEW id \in OrderIds, NEW n \in Order,
         NEW dc \in Int, NEW ds \in Int, Leg(l, k, id, n, dc, ds), SameOrNew(l.orders[id], n),
         NEW m \in Markets, NEW x \in Outcomes
  PROVE  Outstanding(k, m, x) =
           IF m = n.market /\ x = OutcomeOf(n.side)
           THEN Outstanding(l, m, x) + Minted(l.orders[id], n, ds)
           ELSE Outstanding(l, m, x)
<1>1. /\ Summable(HeldBy(l, m, x), Users) /\ Held(l, m, x) \in Int
      /\ Summable(AsideBy(l, m, x), OrderIds) /\ Aside(l, m, x) \in Int
      /\ Outstanding(l, m, x) = Held(l, m, x) + Aside(l, m, x)
      /\ Summable(HeldBy(k, m, x), Users) /\ Held(k, m, x) \in Int
      /\ Outstanding(k, m, x) = Held(k, m, x) + Aside(k, m, x)
  BY AccountSums
<1>2. n.user \in Users /\ n.market \in Markets /\ l.orders[id] \in Order \cup {NoOrder}
  BY DEF Order, LedgerType
<1>3. /\ SetAside(n, m, x) \in Int /\ SetAside(l.orders[id], m, x) \in Int
  BY <1>2, OrderAsides
<1>4. Aside(k, m, x) = Aside(l, m, x) - SetAside(l.orders[id], m, x) + SetAside(n, m, x)
  <2>1. \A i \in OrderIds \ {id} : AsideBy(k, m, x)[i] = AsideBy(l, m, x)[i]
    BY DEF Leg, AsideBy
  <2>2. /\ AsideBy(k, m, x)[id] = SetAside(n, m, x)
        /\ AsideBy(l, m, x)[id] = SetAside(l.orders[id], m, x)
    BY DEF Leg, AsideBy
  <2>. QED  BY <1>1, <1>3, <2>1, <2>2, SumUpdate DEF Aside
<1>5. CASE m = n.market /\ x = OutcomeOf(n.side)
  <2>1. \A u \in Users : <<u, m, x>> \in Holdings
    BY DEF Holdings
  <2>2. /\ HeldBy(k, m, x)[n.user] = HeldBy(l, m, x)[n.user] + ds
        /\ \A u \in Users \ {n.user} : HeldBy(k, m, x)[u] = HeldBy(l, m, x)[u]
    BY <1>2, <1>5, <2>1 DEF Leg, HeldBy
  <2>3. HeldBy(k, m, x)[n.user] \in Int /\ HeldBy(l, m, x)[n.user] \in Int
    BY <1>1, <1>2 DEF Summable
  <2>4. Held(k, m, x) = Held(l, m, x) - HeldBy(l, m, x)[n.user] + HeldBy(k, m, x)[n.user]
    BY <1>1, <1>2, <2>2, <2>3, SumUpdate DEF Held
  <2>5. PICK h, a, s, t, g, hk, ak :
          /\ h = Held(l, m, x) /\ a = Aside(l, m, x) /\ s = SetAside(n, m, x)
          /\ t = SetAside(l.orders[id], m, x) /\ g = HeldBy(l, m, x)[n.user]
          /\ hk = Held(k, m, x) /\ ak = Aside(k, m, x)
    OBVIOUS
  <2>6. hk = h - g + (g + ds) /\ ak = a - t + s
    BY <1>4, <2>2, <2>4, <2>5
  <2>7. h \in Int /\ a \in Int /\ s \in Int /\ t \in Int /\ g \in Int
    BY <1>1, <1>3, <2>3, <2>5
  <2>8. hk + ak = h + a + (ds + s - t)
    BY <2>6, <2>7
  <2>9. Minted(l.orders[id], n, ds) = ds + s - t
    BY <1>5, <2>5 DEF Minted
  <2>. QED  BY <1>1, <1>5, <2>5, <2>8, <2>9
<1>6. CASE ~(m = n.market /\ x = OutcomeOf(n.side))
  <2>1. \A u \in Users : HeldBy(k, m, x)[u] = HeldBy(l, m, x)[u]
    <3>1. ASSUME NEW u \in Users PROVE l.pos[<<u, m, x>>] = k.pos[<<u, m, x>>]
      <4>1. <<u, m, x>> \in Holdings /\ <<u, m, x>> # <<n.user, n.market, OutcomeOf(n.side)>>
        BY <1>6 DEF Holdings
      <4>. QED  BY <4>1 DEF Leg
    <3>. QED  BY <3>1 DEF HeldBy
  <2>2. Held(k, m, x) = Held(l, m, x)
    BY <1>1, <2>1, SumSame DEF Held
  <2>3. SetAside(n, m, x) = 0
    BY <1>6 DEF SetAside
  <2>4. SetAside(l.orders[id], m, x) = 0
    BY <1>2, <1>6 DEF SameOrNew, SameOrder, SetAside, Active
  <2>5. Aside(k, m, x) = Aside(l, m, x)
    <3>1. PICK a : a = Aside(l, m, x)
      OBVIOUS
    <3>2. a \in Int /\ Aside(k, m, x) = a - 0 + 0
      BY <1>1, <1>4, <2>3, <2>4, <3>1
    <3>. QED  BY <3>1, <3>2
  <2>. QED  BY <1>1, <1>6, <2>2, <2>5
<1>. QED  BY <1>5, <1>6

LEMMA LegBacking ==
  ASSUME NEW l \in LedgerType, NEW k \in LedgerType, NEW id \in OrderIds, NEW n \in Order,
         NEW dc \in Int, NEW ds \in Int, Leg(l, k, id, n, dc, ds), SameOrNew(l.orders[id], n),
         IsOpen(l, n.market)
  PROVE  Backing(k) = Backing(l) + (IF OutcomeOf(n.side) = "yes"
                                    THEN 100 * Minted(l.orders[id], n, ds) ELSE 0)
<1>1. n.market \in Markets /\ k.markets = l.markets /\ "yes" \in Outcomes /\ "no" \in Outcomes
  BY DEF Order, Leg, Outcomes
<1>2. ASSUME NEW m \in Markets \ {n.market} PROVE BackingBy(k)[m] = BackingBy(l)[m]
  <2>1. \A x \in Outcomes : Outstanding(k, m, x) = Outstanding(l, m, x)
    BY LegShares
  <2>. QED  BY <1>1, <2>1 DEF BackingBy, Collateral, Outcomes
<1>3. /\ BackingBy(k)[n.market] = 100 * Outstanding(k, n.market, "yes")
      /\ BackingBy(l)[n.market] = 100 * Outstanding(l, n.market, "yes")
  BY <1>1 DEF BackingBy, Collateral, IsOpen
<1>4. PICK a, b, t, bl, y : /\ a = Outstanding(l, n.market, "yes") /\ b = Outstanding(k, n.market, "yes")
                            /\ t = Minted(l.orders[id], n, ds) /\ bl = Backing(l)
                            /\ y = (OutcomeOf(n.side) = "yes")
  OBVIOUS
<1>5. a \in Int /\ b \in Int /\ bl \in Int
  BY <1>1, <1>4, AccountSums
<1>6. t \in Int
  <2>1. l.orders[id] \in Order \cup {NoOrder}
    BY DEF LedgerType
  <2>. QED  BY <1>4, <2>1, OrderAsides DEF Minted
<1>7. b = IF OutcomeOf(n.side) = "yes" THEN a + t ELSE a
  BY <1>1, <1>4, LegShares
<1>8. Backing(k) = Backing(l) - BackingBy(l)[n.market] + BackingBy(k)[n.market]
  <2>1. BackingBy(k)[n.market] \in Int
    BY <1>3, <1>4, <1>5
  <2>. QED  BY <1>1, <1>2, <2>1, AccountSums, SumUpdate DEF Backing
<1>9. Backing(k) = bl - 100 * a + 100 * b
  BY <1>3, <1>4, <1>8
<1>10. CASE OutcomeOf(n.side) = "yes"
  <2>1. bl - 100 * a + 100 * b = bl + 100 * t
    BY <1>5, <1>6, <1>7, <1>10
  <2>. QED  BY <1>4, <1>9, <1>10, <2>1
<1>11. CASE OutcomeOf(n.side) # "yes"
  <2>1. bl - 100 * a + 100 * b = bl + 0
    BY <1>5, <1>7, <1>11
  <2>. QED  BY <1>4, <1>9, <1>11, <2>1
<1>. QED  BY <1>10, <1>11

(* All the cents of a ledger, and how many more YES than NO shares a market
   has. *)
Worth(l) == Free(l) + Reserved(l) + Backing(l)
Surplus(l, m) == Outstanding(l, m, "yes") - Outstanding(l, m, "no")

(* What a leg adds to either. *)
Gain(o, n, dc, ds) == Paid(o, n, dc) + (IF OutcomeOf(n.side) = "yes" THEN 100 * Minted(o, n, ds) ELSE 0)
Tilt(o, n, ds) == IF OutcomeOf(n.side) = "yes" THEN Minted(o, n, ds) ELSE 0 - Minted(o, n, ds)

LEMMA LegMoves ==
  ASSUME NEW l \in LedgerType, NEW k \in LedgerType, NEW id \in OrderIds, NEW n \in Order,
         NEW dc \in Int, NEW ds \in Int, Leg(l, k, id, n, dc, ds), SameOrNew(l.orders[id], n),
         IsOpen(l, n.market)
  PROVE  /\ Worth(l) \in Int /\ Gain(l.orders[id], n, dc, ds) \in Int /\ Tilt(l.orders[id], n, ds) \in Int
         /\ Worth(k) = Worth(l) + Gain(l.orders[id], n, dc, ds)
         /\ \A m \in Markets : /\ Surplus(l, m) \in Int
                               /\ Surplus(k, m) = IF m = n.market THEN Surplus(l, m) + Tilt(l.orders[id], n, ds)
                                                  ELSE Surplus(l, m)
<1>1. l.orders[id] \in Order \cup {NoOrder}
  BY DEF LedgerType
<1>2. PICK f, r, b, cn, co, t, o : /\ f = Free(l) /\ r = Reserved(l) /\ b = Backing(l)
                                   /\ cn = CashAside(n) /\ co = CashAside(l.orders[id])
                                   /\ t = Minted(l.orders[id], n, ds) /\ o = l.orders[id]
  OBVIOUS
<1>3. f \in Int /\ r \in Int /\ b \in Int /\ cn \in Int /\ co \in Int /\ t \in Int
  BY <1>1, <1>2, AccountSums, OrderAsides DEF Minted
<1>4. PICK y : y = IF OutcomeOf(n.side) = "yes" THEN 100 * t ELSE 0
  OBVIOUS
<1>5. y \in Int
  BY <1>3, <1>4
<1>6. Free(k) = f + dc /\ Reserved(k) = r - co + cn /\ Backing(k) = b + y
  BY <1>2, <1>4, LegCash, LegBacking
<1>7. Gain(o, n, dc, ds) = dc + cn - co + y
  BY <1>2, <1>4 DEF Gain, Paid
<1>8. (f + dc) + (r - co + cn) + (b + y) = (f + r + b) + (dc + cn - co + y) /\ f + r + b \in Int
      /\ dc + cn - co + y \in Int
  BY <1>3, <1>5
<1>9. /\ Worth(l) \in Int /\ Gain(o, n, dc, ds) \in Int
      /\ Worth(k) = Worth(l) + Gain(o, n, dc, ds)
  BY <1>2, <1>6, <1>7, <1>8 DEF Worth
<1>10. Tilt(o, n, ds) \in Int /\ Tilt(o, n, ds) = IF OutcomeOf(n.side) = "yes" THEN t ELSE 0 - t
  BY <1>2, <1>3 DEF Tilt
<1>11. ASSUME NEW m \in Markets
       PROVE  /\ Surplus(l, m) \in Int
              /\ Surplus(k, m) = IF m = n.market THEN Surplus(l, m) + Tilt(o, n, ds) ELSE Surplus(l, m)
  <2>1. PICK p, q, pk, qk, g : /\ p = Outstanding(l, m, "yes") /\ q = Outstanding(l, m, "no")
                               /\ pk = Outstanding(k, m, "yes") /\ qk = Outstanding(k, m, "no")
                               /\ g = Tilt(o, n, ds)
    OBVIOUS
  <2>2. p \in Int /\ q \in Int
    BY <2>1, AccountSums DEF Outcomes
  <2>3. OutcomeOf(n.side) \in {"yes", "no"}
    BY DEF OutcomeOf
  <2>4. /\ pk = IF m = n.market /\ OutcomeOf(n.side) = "yes" THEN p + t ELSE p
        /\ qk = IF m = n.market /\ OutcomeOf(n.side) = "no" THEN q + t ELSE q
    BY <1>2, <2>1, LegShares DEF Outcomes
  <2>5. pk - qk = IF m = n.market THEN (p - q) + g ELSE p - q
    BY <1>3, <1>10, <2>1, <2>2, <2>3, <2>4
  <2>. QED  BY <2>1, <2>2, <2>5 DEF Surplus
<1>. QED  BY <1>2, <1>9, <1>10, <1>11

(* The ledgers whose cents and shares add up. *)
LEMMA BalanceIs ==
  ASSUME NEW l \in LedgerType
  PROVE  /\ CashAccountedFor(l) <=> Worth(l) = l.deposited
         /\ AllPaired(l) <=> \A m \in Markets : IsOpen(l, m) => Surplus(l, m) = 0
<1>1. CashAccountedFor(l) <=> Worth(l) = l.deposited
  BY AccountSums DEF Worth
<1>2. ASSUME NEW m \in Markets
      PROVE  Outstanding(l, m, "yes") = Outstanding(l, m, "no") <=> Surplus(l, m) = 0
  <2>1. PICK p, q : p = Outstanding(l, m, "yes") /\ q = Outstanding(l, m, "no")
    OBVIOUS
  <2>2. p \in Int /\ q \in Int
    BY <2>1, AccountSums DEF Outcomes
  <2>3. p = q <=> p - q = 0
    BY <2>2
  <2>. QED  BY <2>1, <2>3 DEF Surplus
<1>. QED  BY <1>1, <1>2 DEF AllPaired, IsOpen

(* After a leg nobody is overdrawn whom the leg does not overdraw. *)
LegCovers(l, n, dc, ds) ==
  /\ l.cash[n.user] + dc >= 0
  /\ l.pos[<<n.user, n.market, OutcomeOf(n.side)>>] + ds >= 0
  /\ n.filled <= n.qty

LEMMA LegCovered ==
  ASSUME NEW l \in LedgerType, NEW k \in LedgerType, NEW id \in OrderIds, NEW n \in Order,
         NEW dc \in Int, NEW ds \in Int, Leg(l, k, id, n, dc, ds), IsOpen(l, n.market),
         Covered(l), Unheld(l), LegCovers(l, n, dc, ds)
  PROVE  Covered(k) /\ Unheld(k)
<1>1. \A u \in Users : k.cash[u] >= 0
  BY DEF Leg, Covered, LegCovers
<1>2. ASSUME NEW h \in Holdings PROVE k.pos[h] >= 0
  <2>1. PICK g : g = <<n.user, n.market, OutcomeOf(n.side)>>
    OBVIOUS
  <2>2. k.pos[h] = IF h = g THEN l.pos[h] + ds ELSE l.pos[h]
    BY <2>1 DEF Leg
  <2>3. l.pos[g] + ds >= 0 /\ l.pos[h] >= 0
    BY <2>1 DEF Covered, LegCovers
  <2>. QED  BY <2>2, <2>3
<1>3. \A i \in OrderIds : k.orders[i] # NoOrder => k.orders[i].filled <= k.orders[i].qty
  BY DEF Leg, Covered, LegCovers, OrdersOf
<1>4. Unheld(k)
  <2>1. ASSUME NEW h \in Holdings, k.markets[h[2]] = NoMarket PROVE k.pos[h] = 0
    <3>1. l.markets[h[2]] = NoMarket /\ h[2] # n.market
      BY <2>1 DEF Leg, IsOpen
    <3>2. k.pos[h] = l.pos[h]
      BY <3>1 DEF Leg
    <3>. QED  BY <3>1, <3>2 DEF Unheld
  <2>. QED  BY <2>1 DEF Unheld
<1>. QED  BY <1>1, <1>2, <1>3, <1>4 DEF Covered, OrdersOf

(* A leg that neither makes nor destroys a cent or a share. *)
LegNeutral(o, n, dc, ds) == Paid(o, n, dc) = 0 /\ Minted(o, n, ds) = 0

LEMMA NeutralLeg ==
  ASSUME NEW o, NEW n, NEW dc, NEW ds, LegNeutral(o, n, dc, ds)
  PROVE  Gain(o, n, dc, ds) = 0 /\ Tilt(o, n, ds) = 0
<1>1. PICK a, b : a = Paid(o, n, dc) /\ b = Minted(o, n, ds)
  OBVIOUS
<1>2. a = 0 /\ b = 0
  BY <1>1 DEF LegNeutral
<1>3. Gain(o, n, dc, ds) = a + (IF OutcomeOf(n.side) = "yes" THEN 100 * b ELSE 0)
  BY <1>1 DEF Gain
<1>4. Tilt(o, n, ds) = IF OutcomeOf(n.side) = "yes" THEN b ELSE 0 - b
  BY <1>1 DEF Tilt
<1>5. Gain(o, n, dc, ds) = 0
  BY <1>2, <1>3
<1>6. Tilt(o, n, ds) = 0
  BY <1>2, <1>4
<1>. QED  BY <1>5, <1>6

LEMMA LegGood ==
  ASSUME NEW l \in LedgerType, NEW k \in LedgerType, NEW id \in OrderIds, NEW n \in Order,
         NEW dc \in Int, NEW ds \in Int, Leg(l, k, id, n, dc, ds), SameOrNew(l.orders[id], n),
         IsOpen(l, n.market), LegCovers(l, n, dc, ds), GoodLedger(l),
         LegNeutral(l.orders[id], n, dc, ds)
  PROVE  GoodLedger(k)
<1>1. Gain(l.orders[id], n, dc, ds) = 0 /\ Tilt(l.orders[id], n, ds) = 0
  BY NeutralLeg
<1>2. /\ Worth(l) \in Int /\ Worth(k) = Worth(l) + 0
      /\ \A m \in Markets : /\ Surplus(l, m) \in Int
                            /\ Surplus(k, m) = IF m = n.market THEN Surplus(l, m) + 0 ELSE Surplus(l, m)
  BY <1>1, LegMoves
<1>3. Worth(k) = Worth(l) /\ \A m \in Markets : Surplus(k, m) = Surplus(l, m)
  BY <1>2
<1>4. k.markets = l.markets /\ k.deposited = l.deposited
  BY DEF Leg
<1>5. CashAccountedFor(k) /\ AllPaired(k)
  BY <1>3, <1>4, BalanceIs DEF GoodLedger, IsOpen
<1>. QED  BY <1>5, LegCovered DEF GoodLedger

(* Two legs of one market that make up for each other. *)
LEMMA LegsGood ==
  ASSUME NEW l \in LedgerType, NEW h \in LedgerType, NEW k \in LedgerType,
         NEW i \in OrderIds, NEW n \in Order, NEW dn \in Int, NEW sn \in Int,
         Leg(l, h, i, n, dn, sn), SameOrNew(l.orders[i], n), LegCovers(l, n, dn, sn),
         NEW j \in OrderIds, NEW p \in Order, NEW dp \in Int, NEW sp \in Int,
         Leg(h, k, j, p, dp, sp), SameOrNew(h.orders[j], p), LegCovers(h, p, dp, sp),
         IsOpen(l, n.market), p.market = n.market, GoodLedger(l),
         NEW g \in Int, NEW t \in Int,
         Gain(l.orders[i], n, dn, sn) = g, Gain(h.orders[j], p, dp, sp) = 0 - g,
         Tilt(l.orders[i], n, sn) = t, Tilt(h.orders[j], p, sp) = 0 - t
  PROVE  GoodLedger(k)
<1>1. h.markets = l.markets /\ h.deposited = l.deposited /\ k.markets = h.markets /\ k.deposited = h.deposited
  BY DEF Leg
<1>2. IsOpen(h, p.market)
  BY <1>1 DEF IsOpen
<1>3. /\ Worth(l) \in Int /\ Worth(h) = Worth(l) + g /\ Worth(k) = Worth(h) + (0 - g)
      /\ \A m \in Markets :
           /\ Surplus(l, m) \in Int
           /\ Surplus(h, m) = IF m = n.market THEN Surplus(l, m) + t ELSE Surplus(l, m)
           /\ Surplus(k, m) = IF m = n.market THEN Surplus(h, m) + (0 - t) ELSE Surplus(h, m)
  <2>1. /\ Worth(l) \in Int /\ Worth(h) = Worth(l) + g
        /\ \A m \in Markets :
             /\ Surplus(l, m) \in Int
             /\ Surplus(h, m) = IF m = n.market THEN Surplus(l, m) + t ELSE Surplus(l, m)
    BY LegMoves
  <2>2. /\ Worth(k) = Worth(h) + (0 - g)
        /\ \A m \in Markets :
             Surplus(k, m) = IF m = n.market THEN Surplus(h, m) + (0 - t) ELSE Surplus(h, m)
    BY <1>2, LegMoves
  <2>. QED  BY <2>1, <2>2
<1>4. Worth(k) = Worth(l) /\ \A m \in Markets : Surplus(k, m) = Surplus(l, m)
  BY <1>3
<1>5. CashAccountedFor(k) /\ AllPaired(k)
  BY <1>1, <1>4, BalanceIs DEF GoodLedger, IsOpen
<1>6. Covered(h) /\ Unheld(h)
  BY LegCovered DEF GoodLedger
<1>7. Covered(k) /\ Unheld(k)
  BY <1>2, <1>6, LegCovered
<1>. QED  BY <1>5, <1>7 DEF GoodLedger

-----------------------------------------------------------------------------
(* The events as legs. *)
LEMMA OrderLeg ==
  ASSUME NEW c \in LedgerType, NEW id \in OrderIds, NEW n \in Order, NEW a \in Int
  PROVE  Leg(c, OrderEvent(c, id, n, a), id, n, a, 0)
<1>1. PICK orders, cash : orders = [c.orders EXCEPT ![id] = n] /\ cash = [c.cash EXCEPT ![n.user] = @ + a]
  OBVIOUS
<1>2. OrderEvent(c, id, n, a) = [c EXCEPT !.orders = orders, !.cash = cash]
  BY <1>1 DEF OrderEvent, LedgerType
<1>3. PICK k : k = OrderEvent(c, id, n, a)
  OBVIOUS
<1>4. /\ k.markets = c.markets /\ k.deposited = c.deposited /\ k.pos = c.pos
      /\ k.orders = orders /\ k.cash = cash
  BY <1>2, <1>3 DEF LedgerType
<1>5. /\ orders[id] = n /\ \A i \in OrderIds : i # id => orders[i] = c.orders[i]
      /\ \A u \in Users : cash[u] = IF u = n.user THEN c.cash[u] + a ELSE c.cash[u]
  BY <1>1 DEF LedgerType
<1>6. \A h \in Holdings : k.pos[h] = IF h = <<n.user, n.market, OutcomeOf(n.side)>> THEN c.pos[h] + 0 ELSE c.pos[h]
  BY <1>4 DEF LedgerType
<1>. QED  BY <1>3, <1>4, <1>5, <1>6 DEF Leg

LEMMA PositionLeg ==
  ASSUME NEW c \in LedgerType, NEW id \in OrderIds, NEW n \in Order, NEW a \in Int, NEW s \in Int
  PROVE  Leg(c, PositionEvent(OrderEvent(c, id, n, 0), n.user, n.market, OutcomeOf(n.side), s, a),
             id, n, a, s)
<1>1. PICK d : d = OrderEvent(c, id, n, 0)
  OBVIOUS
<1>z. 0 \in Int
  OBVIOUS
<1>2. d \in LedgerType
  BY <1>1, <1>z, OrderEventLedger
<1>3. Leg(c, d, id, n, 0, 0)
  BY <1>1, <1>z, OrderLeg
<1>4. /\ d.markets = c.markets /\ d.deposited = c.deposited
      /\ d.orders[id] = n /\ \A i \in OrderIds : i # id => d.orders[i] = c.orders[i]
  BY <1>3 DEF Leg
<1>5. \A u \in Users : d.cash[u] = c.cash[u]
  BY <1>3 DEF Leg, LedgerType
<1>6. \A h \in Holdings : d.pos[h] = c.pos[h]
  BY <1>3 DEF Leg, LedgerType
<1>7. PICK g : g = <<n.user, n.market, OutcomeOf(n.side)>>
  OBVIOUS
<1>8. g \in Holdings /\ n.user \in Users
  BY <1>7 DEF Order, Holdings, OutcomeOf, Outcomes
<1>9. PICK pos, cash : pos = [d.pos EXCEPT ![g] = @ + s] /\ cash = [d.cash EXCEPT ![n.user] = @ + a]
  OBVIOUS
<1>10. PICK k : k = PositionEvent(d, n.user, n.market, OutcomeOf(n.side), s, a)
  OBVIOUS
<1>11. k = [d EXCEPT !.pos = pos, !.cash = cash]
  BY <1>2, <1>7, <1>9, <1>10 DEF PositionEvent, LedgerType
<1>12. /\ k.markets = d.markets /\ k.deposited = d.deposited /\ k.orders = d.orders
       /\ k.pos = pos /\ k.cash = cash
  BY <1>2, <1>11 DEF LedgerType
<1>13. /\ \A u \in Users : cash[u] = IF u = n.user THEN d.cash[u] + a ELSE d.cash[u]
       /\ \A h \in Holdings : pos[h] = IF h = g THEN d.pos[h] + s ELSE d.pos[h]
  BY <1>2, <1>8, <1>9 DEF LedgerType
<1>14. /\ k.markets = c.markets /\ k.deposited = c.deposited
       /\ k.orders[id] = n /\ \A i \in OrderIds : i # id => k.orders[i] = c.orders[i]
  BY <1>4, <1>12
<1>15. \A u \in Users : k.cash[u] = IF u = n.user THEN c.cash[u] + a ELSE c.cash[u]
  BY <1>5, <1>12, <1>13
<1>16. \A h \in Holdings : k.pos[h] = IF h = g THEN c.pos[h] + s ELSE c.pos[h]
  BY <1>6, <1>12, <1>13
<1>17. Leg(c, k, id, n, a, s)
  BY <1>7, <1>14, <1>15, <1>16 DEF Leg
<1>. QED  BY <1>1, <1>10, <1>17

(* A leg of what is staged is a leg of what will be committed. *)
LEMMA LegApply ==
  ASSUME NEW l \in LedgerType, NEW c \in LedgerType, NEW d \in LedgerType, NEW id \in OrderIds,
         NEW n \in Order, NEW dc \in Int, NEW ds \in Int, Leg(c, d, id, n, dc, ds)
  PROVE  Leg(Apply(l, c), Apply(l, d), id, n, dc, ds)
<1>1. PICK M, N : M = Apply(l, c) /\ N = Apply(l, d)
  OBVIOUS
<1>2. /\ M.markets = [m \in Markets |-> IF c.markets[m] = NoMarket THEN l.markets[m] ELSE c.markets[m]]
      /\ N.markets = [m \in Markets |-> IF d.markets[m] = NoMarket THEN l.markets[m] ELSE d.markets[m]]
      /\ M.deposited = l.deposited + c.deposited /\ N.deposited = l.deposited + d.deposited
      /\ \A u \in Users : M.cash[u] = l.cash[u] + c.cash[u] /\ N.cash[u] = l.cash[u] + d.cash[u]
      /\ \A h \in Holdings : M.pos[h] = l.pos[h] + c.pos[h] /\ N.pos[h] = l.pos[h] + d.pos[h]
      /\ \A i \in OrderIds :
           /\ M.orders[i] = IF c.orders[i] = NoOrder THEN l.orders[i] ELSE c.orders[i]
           /\ N.orders[i] = IF d.orders[i] = NoOrder THEN l.orders[i] ELSE d.orders[i]
  BY <1>1 DEF Apply
<1>3. N.markets = M.markets /\ N.deposited = M.deposited
  BY <1>2 DEF Leg
<1>4. N.orders[id] = n /\ \A i \in OrderIds : i # id => N.orders[i] = M.orders[i]
  <2>1. n # NoOrder
    BY ConstantsAssumption
  <2>. QED  BY <1>2, <2>1 DEF Leg
<1>5. ASSUME NEW u \in Users
      PROVE  N.cash[u] = IF u = n.user THEN M.cash[u] + dc ELSE M.cash[u]
  <2>1. l.cash[u] \in Int /\ c.cash[u] \in Int
    BY DEF LedgerType
  <2>2. d.cash[u] = IF u = n.user THEN c.cash[u] + dc ELSE c.cash[u]
    BY DEF Leg
  <2>. QED  BY <1>2, <2>1, <2>2
<1>6. ASSUME NEW h \in Holdings
      PROVE  N.pos[h] = IF h = <<n.user, n.market, OutcomeOf(n.side)>> THEN M.pos[h] + ds ELSE M.pos[h]
  <2>0. PICK g : g = <<n.user, n.market, OutcomeOf(n.side)>>
    OBVIOUS
  <2>1. l.pos[h] \in Int /\ c.pos[h] \in Int
    BY DEF LedgerType
  <2>2. d.pos[h] = IF h = g THEN c.pos[h] + ds ELSE c.pos[h]
    BY <2>0 DEF Leg
  <2>3. N.pos[h] = IF h = g THEN M.pos[h] + ds ELSE M.pos[h]
    BY <1>2, <2>1, <2>2
  <2>. QED  BY <2>0, <2>3
<1>7. Leg(M, N, id, n, dc, ds)
  BY <1>3, <1>4, <1>5, <1>6 DEF Leg
<1>. QED  BY <1>1, <1>7

-----------------------------------------------------------------------------
(* What an order sets aside: cash for a buy, shares of its outcome for a
   sell. *)
LEMMA AsideOf ==
  ASSUME NEW o \in Order
  PROVE  /\ CashAside(o) = IF IsBuy(o.side) THEN o.price * Unfilled(o) ELSE 0
         /\ SetAside(o, o.market, OutcomeOf(o.side)) = IF IsBuy(o.side) THEN 0 ELSE Unfilled(o)
<1>1. o.price \in Nat /\ o.qty \in Nat /\ o.filled \in Nat
  BY DEF Order
<1>2. SetAside(o, o.market, OutcomeOf(o.side)) = IF IsBuy(o.side) THEN 0 ELSE Unfilled(o)
  BY DEF SetAside, Unfilled
<1>3. CASE Active(o)
  BY <1>2, <1>3 DEF CashAside, Unfilled
<1>4. CASE ~Active(o)
  <2>1. Unfilled(o) = 0 /\ CashAside(o) = 0
    BY <1>4 DEF Unfilled, CashAside
  <2>2. o.price * 0 = 0
    BY <1>1
  <2>. QED  BY <1>2, <2>1, <2>2
<1>. QED  BY <1>3, <1>4

(* A leg of an order that goes on: what it pays and mints follows from how
   much of the order is left. *)
LegIs(o, n, dc, ds, r, s) ==
  /\ Paid(o, n, dc) = IF IsBuy(o.side) THEN dc + o.price * s - o.price * r ELSE dc
  /\ Minted(o, n, ds) = IF IsBuy(o.side) THEN ds ELSE ds + s - r

LeftAre(o, n, r, s) == Unfilled(o) = r /\ Unfilled(n) = s

LEMMA LegOf ==
  ASSUME NEW o \in Order, NEW n \in Order, SameOrder(n, o), NEW dc \in Int, NEW ds \in Int,
         NEW r \in Int, NEW s \in Int, LeftAre(o, n, r, s)
  PROVE  LegIs(o, n, dc, ds, r, s)
<1>. USE DEF LeftAre, LegIs
<1>1. n.side = o.side /\ n.price = o.price /\ n.market = o.market
  BY DEF SameOrder
<1>2. PICK cn, co, an, ao : /\ cn = CashAside(n) /\ co = CashAside(o)
                            /\ an = SetAside(n, n.market, OutcomeOf(n.side))
                            /\ ao = SetAside(o, n.market, OutcomeOf(n.side))
  OBVIOUS
<1>3. /\ cn = IF IsBuy(o.side) THEN o.price * s ELSE 0
      /\ an = IF IsBuy(o.side) THEN 0 ELSE s
  BY <1>1, <1>2, AsideOf
<1>4. /\ co = IF IsBuy(o.side) THEN o.price * r ELSE 0
      /\ ao = IF IsBuy(o.side) THEN 0 ELSE r
  BY <1>1, <1>2, AsideOf
<1>5. Paid(o, n, dc) = dc + cn - co /\ Minted(o, n, ds) = ds + an - ao
  BY <1>2 DEF Paid, Minted
<1>. QED  BY <1>3, <1>4, <1>5

LEMMA StageNeutral ==
  ASSUME NEW o \in Order, NEW n \in Order, SameOrder(n, o), n.filled = o.filled,
         Active(o), Active(n)
  PROVE  LegNeutral(o, n, 0, 0)
<1>1. PICK r : r = Unfilled(o)
  OBVIOUS
<1>2. r \in Int /\ Unfilled(n) = r
  BY <1>1 DEF Unfilled, Remaining, SameOrder, Order
<1>3. PICK a, b, t : a = Paid(o, n, 0) /\ b = Minted(o, n, 0) /\ t = o.price * r
  OBVIOUS
<1>4. t \in Int
  BY <1>2, <1>3 DEF Order
<1>5. /\ a = IF IsBuy(o.side) THEN 0 + t - t ELSE 0
      /\ b = IF IsBuy(o.side) THEN 0 ELSE 0 + r - r
  <2>1. 0 \in Int /\ LeftAre(o, n, r, r)
    BY <1>1, <1>2 DEF LeftAre
  <2>2. LegIs(o, n, 0, 0, r, r)
    BY <1>2, <2>1, LegOf
  <2>. QED  BY <1>3, <2>2 DEF LegIs
<1>6. a = 0 /\ b = 0
  BY <1>2, <1>4, <1>5
<1>. QED  BY <1>3, <1>6 DEF LegNeutral

LEMMA ReleaseNeutral ==
  ASSUME NEW o \in Order, NEW n \in Order, SameOrder(n, o), ~Active(n), Active(o),
         NEW dc, NEW ds,
         dc = IF IsBuy(o.side) THEN Remaining(o) * o.price ELSE 0,
         ds = IF IsBuy(o.side) THEN 0 ELSE Remaining(o)
  PROVE  LegNeutral(o, n, dc, ds) /\ dc \in Int /\ ds \in Int
<1>1. PICK r, w : r = Unfilled(o) /\ w = o.price
  OBVIOUS
<1>2. r \in Int /\ Unfilled(n) = 0 /\ w \in Int /\ Remaining(o) = r
  BY <1>1 DEF Unfilled, Remaining, Order
<1>3. PICK a, b : a = Paid(o, n, dc) /\ b = Minted(o, n, ds)
  OBVIOUS
<1>4. /\ dc = IF IsBuy(o.side) THEN r * w ELSE 0
      /\ ds = IF IsBuy(o.side) THEN 0 ELSE r
  BY <1>1, <1>2
<1>5. dc \in Int /\ ds \in Int
  BY <1>2, <1>4
<1>6. /\ a = IF IsBuy(o.side) THEN dc + w * 0 - w * r ELSE dc
      /\ b = IF IsBuy(o.side) THEN ds ELSE ds + 0 - r
  <2>1. 0 \in Int /\ LeftAre(o, n, r, 0)
    BY <1>1, <1>2 DEF LeftAre
  <2>2. LegIs(o, n, dc, ds, r, 0)
    BY <1>2, <1>5, <2>1, LegOf
  <2>. QED  BY <1>1, <1>3, <2>2 DEF LegIs
<1>7. r * w + w * 0 - w * r = 0
  BY <1>2
<1>8. a = 0 /\ b = 0
  BY <1>2, <1>4, <1>6, <1>7
<1>. QED  BY <1>3, <1>5, <1>8 DEF LegNeutral

LEMMA ReserveNeutral ==
  ASSUME NEW n \in Order, Active(n), n.filled = 0, NEW dc, NEW ds,
         dc = IF IsBuy(n.side) THEN -(n.price * n.qty) ELSE 0,
         ds = IF IsBuy(n.side) THEN 0 ELSE -n.qty
  PROVE  LegNeutral(NoOrder, n, dc, ds) /\ dc \in Int /\ ds \in Int
<1>1. PICK q, w : q = n.qty /\ w = n.price
  OBVIOUS
<1>2. q \in Nat /\ w \in Nat /\ Unfilled(n) = q
  BY <1>1 DEF Unfilled, Remaining, Order
<1>3. PICK v : v = w * q
  OBVIOUS
<1>4. v \in Int /\ dc = (IF IsBuy(n.side) THEN -v ELSE 0) /\ ds = (IF IsBuy(n.side) THEN 0 ELSE -q)
  BY <1>1, <1>2, <1>3
<1>5. PICK a, b, cn, an : /\ a = Paid(NoOrder, n, dc) /\ b = Minted(NoOrder, n, ds)
                          /\ cn = CashAside(n) /\ an = SetAside(n, n.market, OutcomeOf(n.side))
  OBVIOUS
<1>6. /\ cn = IF IsBuy(n.side) THEN v ELSE 0
      /\ an = IF IsBuy(n.side) THEN 0 ELSE q
  BY <1>1, <1>2, <1>3, <1>5, AsideOf
<1>7. CashAside(NoOrder) = 0 /\ SetAside(NoOrder, n.market, OutcomeOf(n.side)) = 0
  BY DEF CashAside, SetAside, Active
<1>8. a = dc + cn - 0 /\ b = ds + an - 0
  BY <1>5, <1>7 DEF Paid, Minted
<1>9. a = 0 /\ b = 0
  BY <1>2, <1>4, <1>6, <1>8
<1>. QED  BY <1>2, <1>4, <1>5, <1>9 DEF LegNeutral

(* What a fill leaves of an order. *)
LEMMA FillOf ==
  ASSUME NEW o \in Order, Active(o), NEW q \in Nat, o.filled + q <= o.qty
  PROVE  /\ FilledOrder(o, q) \in Order /\ SameOrder(FilledOrder(o, q), o)
         /\ FilledOrder(o, q).filled = o.filled + q
         /\ Unfilled(o) = o.qty - o.filled
         /\ Unfilled(FilledOrder(o, q)) = o.qty - o.filled - q
<1>1. o.qty \in Nat /\ o.filled \in Nat
  BY DEF Order
<1>2. PICK n, t : n = FilledOrder(o, q) /\ t = IF o.filled + q >= o.qty THEN "filled" ELSE "partial"
  OBVIOUS
<1>3. n \in Order /\ SameOrder(n, o)
  BY <1>2, FilledOrderKept
<1>4. n.filled = o.filled + q /\ n.status = t /\ n.qty = o.qty
  BY <1>2 DEF FilledOrder, Order
<1>5. Unfilled(o) = o.qty - o.filled
  BY DEF Unfilled, Remaining
<1>6. n # NoOrder
  BY <1>3, ConstantsAssumption
<1>7. CASE o.filled + q >= o.qty
  <2>1. ~Active(n)
    BY <1>2, <1>4, <1>7 DEF Active, ActiveStatuses
  <2>2. Unfilled(n) = 0 /\ o.qty - o.filled - q = 0
    BY <1>1, <1>7, <2>1 DEF Unfilled
  <2>. QED  BY <1>2, <1>3, <1>4, <1>5, <2>2
<1>8. CASE ~(o.filled + q >= o.qty)
  <2>1. Active(n)
    BY <1>2, <1>4, <1>6, <1>8 DEF Active, ActiveStatuses
  <2>2. Unfilled(n) = o.qty - (o.filled + q)
    BY <1>4, <2>1 DEF Unfilled, Remaining
  <2>3. o.qty - (o.filled + q) = o.qty - o.filled - q
    BY <1>1
  <2>. QED  BY <1>2, <1>3, <1>4, <1>5, <2>2, <2>3
<1>. QED  BY <1>7, <1>8

-----------------------------------------------------------------------------
(* Fills. *)

(* The shares a fill gives to the owner of an order. *)
FillShares(o, q) == IF IsBuy(o.side) THEN q ELSE 0

LEMMA Times ==
  ASSUME NEW a \in Int, NEW b \in Int, NEW c \in Int
  PROVE  /\ (a - b) * c = a * c - b * c /\ a * c \in Int /\ b * c \in Int
         /\ a * (b - c) = a * b - a * c
BY SMT

(* A fill of an engine's buy makes as many cents and YES shares as a fill of
   its sell of the same trade destroys. *)
FillMoved(o, n, q, p) ==
  /\ Gain(o, n, FillCredit(o, q, p), FillShares(o, q)) =
       IF EngineSide(o.side) = "buy" THEN 100 * q - p * q ELSE 0 - (100 * q - p * q)
  /\ Tilt(o, n, FillShares(o, q)) = IF EngineSide(o.side) = "buy" THEN q ELSE 0 - q

LEMMA FillMoves ==
  ASSUME NEW o \in Order, Active(o), NEW q \in Nat, NEW p \in Nat, o.filled + q <= o.qty,
         NEW n, n = FilledOrder(o, q)
  PROVE  /\ FillMoved(o, n, q, p)
         /\ FillCredit(o, q, p) \in Int /\ FillShares(o, q) \in Int
<1>1. n \in Order /\ SameOrder(n, o)
  BY FillOf
<1>2. PICK r, s, w, c, d : /\ r = Unfilled(o) /\ s = Unfilled(n) /\ w = o.price
                           /\ c = FillCredit(o, q, p) /\ d = FillShares(o, q)
  OBVIOUS
<1>3. o.qty \in Nat /\ o.filled \in Nat /\ w \in Nat
  BY <1>2 DEF Order
<1>4. r = o.qty - o.filled /\ s = o.qty - o.filled - q
  BY <1>2, FillOf
<1>5. r \in Int /\ s \in Int /\ s = r - q
  BY <1>3, <1>4
<1>6. PICK wq, pq, wr : wq = w * q /\ pq = p * q /\ wr = w * r
  OBVIOUS
<1>7. wq \in Int /\ pq \in Int /\ wr \in Int /\ w * s = wr - wq
  BY <1>3, <1>5, <1>6, Times
<1>8. o.side \in Sides
  BY DEF Order
<1>9. /\ o.side = "buy_yes" => c = wq - pq
      /\ o.side = "buy_no" => c = wq - (100 * q - pq)
      /\ o.side = "sell_yes" => c = pq
      /\ o.side = "sell_no" => c = 100 * q - pq
  <2>1. (w - p) * q = wq - pq /\ (100 - p) * q = 100 * q - pq
    BY <1>3, <1>6, Times
  <2>2. (w - (100 - p)) * q = wq - (100 * q - pq)
    <3>1. 100 - p \in Int /\ 100 \in Int
      OBVIOUS
    <3>2. (w - (100 - p)) * q = w * q - (100 - p) * q
      BY <1>3, <3>1, Times
    <3>. QED  BY <1>6, <2>1, <3>2
  <2>. QED  BY <1>2, <1>6, <2>1, <2>2 DEF FillCredit
<1>10. c \in Int /\ d \in Int /\ d = IF IsBuy(o.side) THEN q ELSE 0
  BY <1>2, <1>7, <1>8, <1>9 DEF FillShares, Sides
<1>11. PICK a, b : a = Paid(o, n, c) /\ b = Minted(o, n, d)
  OBVIOUS
<1>12. /\ a = IF IsBuy(o.side) THEN c + (wr - wq) - wr ELSE c
       /\ b = IF IsBuy(o.side) THEN d ELSE d + s - r
  <2>1. LeftAre(o, n, r, s)
    BY <1>2 DEF LeftAre
  <2>2. LegIs(o, n, c, d, r, s)
    BY <1>1, <1>5, <1>10, <2>1, LegOf
  <2>3. /\ a = IF IsBuy(o.side) THEN c + w * s - w * r ELSE c
        /\ b = IF IsBuy(o.side) THEN d ELSE d + s - r
    BY <1>2, <1>11, <2>2 DEF LegIs
  <2>. QED  BY <1>6, <1>7, <2>3
<1>13. /\ a = (IF IsBuy(o.side) THEN c - wq ELSE c) /\ a \in Int
       /\ b = (IF IsBuy(o.side) THEN q ELSE 0 - q) /\ b \in Int
  BY <1>5, <1>7, <1>10, <1>12
<1>14. n.side = o.side
  BY <1>1 DEF SameOrder
<1>15. PICK g, t : g = Gain(o, n, c, d) /\ t = Tilt(o, n, d)
  OBVIOUS
<1>16. /\ g = a + (IF OutcomeOf(o.side) = "yes" THEN 100 * b ELSE 0)
       /\ t = IF OutcomeOf(o.side) = "yes" THEN b ELSE 0 - b
  BY <1>11, <1>14, <1>15 DEF Gain, Tilt
<1>17. CASE o.side = "buy_yes"
  <2>1. IsBuy(o.side) /\ OutcomeOf(o.side) = "yes" /\ EngineSide(o.side) = "buy"
    BY <1>17 DEF IsBuy, OutcomeOf, EngineSide
  <2>2. a = wq - pq - wq /\ b = q /\ g = a + 100 * b /\ t = b
    BY <1>9, <1>13, <1>16, <1>17, <2>1
  <2>3. g = 100 * q - pq /\ t = q
    BY <1>7, <2>2
  <2>. QED  BY <1>2, <1>6, <1>10, <1>15, <2>1, <2>3 DEF FillMoved
<1>18. CASE o.side = "buy_no"
  <2>1. IsBuy(o.side) /\ OutcomeOf(o.side) # "yes" /\ EngineSide(o.side) # "buy"
    BY <1>18 DEF IsBuy, OutcomeOf, EngineSide
  <2>2. a = wq - (100 * q - pq) - wq /\ b = q /\ g = a + 0 /\ t = 0 - b
    BY <1>9, <1>13, <1>16, <1>18, <2>1
  <2>3. g = 0 - (100 * q - pq) /\ t = 0 - q
    BY <1>7, <2>2
  <2>. QED  BY <1>2, <1>6, <1>10, <1>15, <2>1, <2>3 DEF FillMoved
<1>19. CASE o.side = "sell_yes"
  <2>1. ~IsBuy(o.side) /\ OutcomeOf(o.side) = "yes" /\ EngineSide(o.side) # "buy"
    BY <1>19 DEF IsBuy, OutcomeOf, EngineSide
  <2>2. a = pq /\ b = 0 - q /\ g = a + 100 * b /\ t = b
    BY <1>9, <1>13, <1>16, <1>19, <2>1
  <2>3. g = 0 - (100 * q - pq) /\ t = 0 - q
    BY <1>7, <2>2
  <2>. QED  BY <1>2, <1>6, <1>10, <1>15, <2>1, <2>3 DEF FillMoved
<1>20. CASE o.side = "sell_no"
  <2>1. ~IsBuy(o.side) /\ OutcomeOf(o.side) # "yes" /\ EngineSide(o.side) = "buy"
    BY <1>20 DEF IsBuy, OutcomeOf, EngineSide
  <2>2. a = 100 * q - pq /\ b = 0 - q /\ g = a + 0 /\ t = 0 - b
    BY <1>9, <1>13, <1>16, <1>20, <2>1
  <2>3. g = 100 * q - pq /\ t = q
    BY <1>7, <2>2
  <2>. QED  BY <1>2, <1>6, <1>10, <1>15, <2>1, <2>3 DEF FillMoved
<1>. QED  BY <1>8, <1>17, <1>18, <1>19, <1>20 DEF Sides

(* Within an order's limit a fill never takes cash from its owner. *)
WithinLimit(o, p) ==
  IF EngineSide(o.side) = "buy" THEN p <= EnginePrice(o.side, o.price)
  ELSE EnginePrice(o.side, o.price) <= p

LEMMA FillPays ==
  ASSUME NEW o \in Order, o.price \in 1..99, NEW q \in Nat, NEW p \in Nat, WithinLimit(o, p)
  PROVE  FillCredit(o, q, p) >= 0 /\ FillShares(o, q) >= 0
<1>1. PICK w, c : w = o.price /\ c = FillCredit(o, q, p)
  OBVIOUS
<1>2. w \in 1..99 /\ o.side \in Sides
  BY <1>1 DEF Order
<1>3. \A a \in Nat : a * q >= 0
  BY SMT
<1>4. CASE o.side = "buy_yes"
  <2>1. p <= w /\ c = (w - p) * q
    BY <1>1, <1>4 DEF WithinLimit, EngineSide, EnginePrice, FillCredit
  <2>2. w - p \in Nat
    BY <1>2, <2>1
  <2>. QED  BY <1>1, <1>3, <2>1, <2>2 DEF FillShares
<1>5. CASE o.side = "buy_no"
  <2>1. 100 - w <= p /\ c = (w - (100 - p)) * q
    BY <1>1, <1>5 DEF WithinLimit, EngineSide, EnginePrice, FillCredit
  <2>2. w - (100 - p) \in Nat
    BY <1>2, <2>1
  <2>. QED  BY <1>1, <1>3, <2>1, <2>2 DEF FillShares
<1>6. CASE o.side = "sell_yes"
  <2>1. c = p * q
    BY <1>1, <1>6 DEF FillCredit
  <2>. QED  BY <1>1, <1>3, <2>1 DEF FillShares
<1>7. CASE o.side = "sell_no"
  <2>1. p <= 100 - w /\ c = (100 - p) * q
    BY <1>1, <1>7 DEF WithinLimit, EngineSide, EnginePrice, FillCredit
  <2>2. 100 - p \in Nat
    BY <1>2, <2>1
  <2>. QED  BY <1>1, <1>3, <2>1, <2>2 DEF FillShares
<1>. QED  BY <1>2, <1>4, <1>5, <1>6, <1>7 DEF Sides

-----------------------------------------------------------------------------
(* The ledger without events, deposits, new markets and settlements. *)

LEMMA EmptyGood ==
  GoodLedger(Empty)
<1>1. /\ Empty \in LedgerType /\ Empty.deposited = 0
      /\ \A u \in Users : Empty.cash[u] = 0
      /\ \A h \in Holdings : Empty.pos[h] = 0
      /\ \A id \in OrderIds : Empty.orders[id] = NoOrder
      /\ \A m \in Markets : Empty.markets[m] = NoMarket
  BY EmptyLedger DEF Empty
<1>2. IsFiniteSet(Users) /\ IsFiniteSet(Markets) /\ IsFiniteSet(OrderIds)
  BY ConstantsAssumption
<1>3. Free(Empty) = 0
  BY <1>1, <1>2, SumZero DEF Free
<1>4. Reserved(Empty) = 0
  <2>1. \A id \in OrderIds : ReservedBy(Empty)[id] = 0
    BY <1>1 DEF ReservedBy, CashAside, Active
  <2>. QED  BY <1>2, <2>1, SumZero DEF Reserved
<1>5. Backing(Empty) = 0
  <2>1. \A m \in Markets : BackingBy(Empty)[m] = 0
    BY <1>1 DEF BackingBy, Collateral
  <2>. QED  BY <1>2, <2>1, SumZero DEF Backing
<1>6. CashAccountedFor(Empty)
  <2>1. 0 + 0 + 0 = 0
    OBVIOUS
  <2>2. Worth(Empty) = Empty.deposited
    BY <1>1, <1>3, <1>4, <1>5, <2>1 DEF Worth
  <2>. QED  BY <1>1, <2>2, BalanceIs
<1>7. AllPaired(Empty)
  BY <1>1 DEF AllPaired
<1>8. Covered(Empty) /\ Unheld(Empty)
  BY <1>1 DEF Covered, Unheld, OrdersOf
<1>. QED  BY <1>6, <1>7, <1>8 DEF GoodLedger

(* A deposit. *)
Deposits(l, k, u, a) ==
  /\ k.markets = l.markets /\ k.orders = l.orders /\ k.deposited = l.deposited + a
  /\ \A v \in Users : k.cash[v] = IF v = u THEN l.cash[v] + a ELSE l.cash[v]
  /\ \A h \in Holdings : k.pos[h] = l.pos[h]

LEMMA SharesKept ==
  ASSUME NEW l \in LedgerType, NEW k \in LedgerType, k.orders = l.orders,
         NEW m \in Markets, \A h \in Holdings : h[2] = m => k.pos[h] = l.pos[h]
  PROVE  \A x \in Outcomes : Outstanding(k, m, x) = Outstanding(l, m, x)
<1>1. ASSUME NEW x \in Outcomes PROVE Outstanding(k, m, x) = Outstanding(l, m, x)
  <2>1. \A u \in Users : k.pos[<<u, m, x>>] = l.pos[<<u, m, x>>]
    BY DEF Holdings
  <2>2. HeldBy(k, m, x) = HeldBy(l, m, x)
    BY <2>1 DEF HeldBy
  <2>3. AsideBy(k, m, x) = AsideBy(l, m, x)
    BY DEF AsideBy
  <2>. QED  BY <2>2, <2>3, AccountSums DEF Held, Aside
<1>. QED  BY <1>1

LEMMA DepositGood ==
  ASSUME NEW l \in LedgerType, NEW k \in LedgerType, NEW u \in Users, NEW a \in Nat,
         Deposits(l, k, u, a), GoodLedger(l)
  PROVE  GoodLedger(k)
<1>1. k.markets = l.markets /\ k.orders = l.orders /\ k.deposited = l.deposited + a
  BY DEF Deposits
<1>2. \A m \in Markets, x \in Outcomes : Outstanding(k, m, x) = Outstanding(l, m, x)
  BY <1>1, SharesKept DEF Deposits
<1>3. Backing(k) = Backing(l) /\ Reserved(k) = Reserved(l)
  <2>1. \A m \in Markets : Collateral(k, m) = Collateral(l, m)
    BY <1>1, <1>2 DEF Collateral, Outcomes
  <2>2. BackingBy(k) = BackingBy(l) /\ ReservedBy(k) = ReservedBy(l)
    BY <1>1, <2>1 DEF BackingBy, ReservedBy
  <2>. QED  BY <2>2 DEF Backing, Reserved
<1>4. Free(k) = Free(l) + a
  <2>1. /\ l.cash[u] \in Int /\ k.cash[u] \in Int /\ k.cash[u] = l.cash[u] + a
        /\ \A v \in Users \ {u} : k.cash[v] = l.cash[v]
    BY DEF Deposits, LedgerType
  <2>2. Free(k) = Free(l) - l.cash[u] + k.cash[u]
    BY <2>1, AccountSums, SumUpdate DEF Free
  <2>3. PICK f, c : f = Free(l) /\ c = l.cash[u]
    OBVIOUS
  <2>4. f \in Int /\ c \in Int /\ Free(k) = f - c + (c + a)
    BY <2>1, <2>2, <2>3, AccountSums
  <2>. QED  BY <2>3, <2>4
<1>5. CashAccountedFor(k)
  <2>1. PICK f, r, b, d : f = Free(l) /\ r = Reserved(l) /\ b = Backing(l) /\ d = l.deposited
    OBVIOUS
  <2>2. f \in Int /\ r \in Int /\ b \in Int /\ f + r + b = d
    BY <2>1, AccountSums DEF GoodLedger
  <2>3. (f + a) + r + b = d + a
    BY <2>2
  <2>4. Worth(k) = k.deposited
    BY <1>1, <1>3, <1>4, <2>1, <2>3 DEF Worth
  <2>. QED  BY <2>4, BalanceIs
<1>6. AllPaired(k)
  BY <1>1, <1>2 DEF GoodLedger, AllPaired, Outcomes
<1>7. Covered(k) /\ Unheld(k)
  <2>1. \A v \in Users : k.cash[v] >= 0
    BY DEF GoodLedger, Covered, Deposits, LedgerType
  <2>. QED  BY <1>1, <2>1 DEF GoodLedger, Covered, Unheld, OrdersOf, Deposits
<1>. QED  BY <1>5, <1>6, <1>7 DEF GoodLedger

(* A market opens in which nobody holds a share. *)
Opens(l, k, m) ==
  /\ k.orders = l.orders /\ k.cash = l.cash /\ k.pos = l.pos /\ k.deposited = l.deposited
  /\ l.markets[m] = NoMarket /\ IsOpen(k, m)
  /\ \A n \in Markets : n # m => k.markets[n] = l.markets[n]

LEMMA OpenGood ==
  ASSUME NEW l \in LedgerType, NEW k \in LedgerType, NEW m \in Markets,
         Opens(l, k, m), MarketsIn(l), GoodLedger(l)
  PROVE  GoodLedger(k)
<1>1. /\ k.orders = l.orders /\ k.cash = l.cash /\ k.pos = l.pos /\ k.deposited = l.deposited
      /\ l.markets[m] = NoMarket /\ IsOpen(k, m)
      /\ \A n \in Markets : n # m => k.markets[n] = l.markets[n]
  BY DEF Opens
<1>2. \A n \in Markets, x \in Outcomes : Outstanding(k, n, x) = Outstanding(l, n, x)
  BY <1>1, SharesKept
<1>3. ASSUME NEW x \in Outcomes PROVE Outstanding(k, m, x) = 0
  <2>1. \A u \in Users : HeldBy(l, m, x)[u] = 0
    <3>1. ASSUME NEW u \in Users PROVE l.pos[<<u, m, x>>] = 0
      <4>1. <<u, m, x>> \in Holdings /\ <<u, m, x>>[2] = m
        BY DEF Holdings
      <4>. QED  BY <1>1, <4>1 DEF GoodLedger, Unheld
    <3>. QED  BY <3>1 DEF HeldBy
  <2>2. \A id \in OrderIds : AsideBy(l, m, x)[id] = 0
    <3>1. ASSUME NEW id \in OrderIds PROVE SetAside(l.orders[id], m, x) = 0
      BY <1>1 DEF MarketsIn, SetAside, Active
    <3>. QED  BY <3>1 DEF AsideBy
  <2>3. Held(l, m, x) = 0 /\ Aside(l, m, x) = 0
    BY <2>1, <2>2, SumZero, ConstantsAssumption DEF Held, Aside
  <2>4. Outstanding(l, m, x) = 0 + 0
    BY <2>3, AccountSums
  <2>. QED  BY <1>2, <2>4
<1>4. \A n \in Markets : Collateral(k, n) = Collateral(l, n)
  <2>1. Collateral(l, m) = 0 /\ Collateral(k, m) = 100 * Outstanding(k, m, "yes")
    BY <1>1 DEF Collateral, IsOpen
  <2>2. Collateral(k, m) = 0
    BY <1>3, <2>1 DEF Outcomes
  <2>3. \A n \in Markets : n # m => Collateral(k, n) = Collateral(l, n)
    BY <1>1, <1>2 DEF Collateral, Outcomes
  <2>. QED  BY <2>1, <2>2, <2>3
<1>5. Worth(k) = Worth(l)
  <2>1. BackingBy(k) = BackingBy(l) /\ ReservedBy(k) = ReservedBy(l)
    BY <1>1, <1>4 DEF BackingBy, ReservedBy
  <2>. QED  BY <1>1, <2>1 DEF Worth, Free, Reserved, Backing
<1>6. CashAccountedFor(k)
  BY <1>1, <1>5, BalanceIs DEF GoodLedger
<1>7. AllPaired(k)
  BY <1>1, <1>2, <1>3 DEF GoodLedger, AllPaired, Outcomes
<1>8. Covered(k)
  BY <1>1 DEF GoodLedger, Covered, OrdersOf
<1>9. Unheld(k)
  <2>1. ASSUME NEW h \in Holdings, k.markets[h[2]] = NoMarket PROVE k.pos[h] = 0
    <3>1. h[2] # m /\ h[2] \in Markets
      BY <1>1, <2>1 DEF Holdings, IsOpen
    <3>2. l.markets[h[2]] = NoMarket /\ k.pos[h] = l.pos[h]
      BY <1>1, <2>1, <3>1
    <3>. QED  BY <3>2 DEF GoodLedger, Unheld
  <2>. QED  BY <2>1 DEF Unheld
<1>. QED  BY <1>6, <1>7, <1>8, <1>9 DEF GoodLedger

(* A market settles: the shares p of outcome x are paid 100 cents each, the
   shares c stay. *)
Settles(l, k, p, c, m, x) ==
  /\ k.orders = l.orders /\ k.deposited = l.deposited
  /\ IsOpen(l, m) /\ k.markets[m] # NoMarket
  /\ k.markets[m].status = IF x = "yes" THEN "resolved_yes" ELSE "resolved_no"
  /\ \A n \in Markets : n # m => k.markets[n] = l.markets[n]
  /\ \A u \in Users : k.cash[u] = l.cash[u] + 100 * p[<<u, m, x>>]
  /\ \A h \in Holdings : /\ p[h] \in Nat /\ c[h] \in Nat /\ l.pos[h] = p[h] + c[h]
                         /\ k.pos[h] = IF h[2] = m THEN c[h] ELSE l.pos[h]
  /\ \A id \in OrderIds : l.orders[id] # NoOrder /\ l.orders[id].market = m => ~Active(l.orders[id])

LEMMA SettleGood ==
  ASSUME NEW l \in LedgerType, NEW k \in LedgerType, NEW p, NEW c, NEW m \in Markets,
         NEW x \in Outcomes, Settles(l, k, p, c, m, x), GoodLedger(l)
  PROVE  GoodLedger(k)
<1>1. /\ k.orders = l.orders /\ k.deposited = l.deposited
      /\ IsOpen(l, m) /\ k.markets[m] # NoMarket
      /\ k.markets[m].status = IF x = "yes" THEN "resolved_yes" ELSE "resolved_no"
      /\ \A n \in Markets : n # m => k.markets[n] = l.markets[n]
      /\ \A id \in OrderIds : l.orders[id] # NoOrder /\ l.orders[id].market = m => ~Active(l.orders[id])
  BY DEF Settles
<1>2. /\ \A u \in Users : k.cash[u] = l.cash[u] + 100 * p[<<u, m, x>>]
      /\ \A h \in Holdings : /\ p[h] \in Nat /\ c[h] \in Nat /\ l.pos[h] = p[h] + c[h]
                             /\ k.pos[h] = IF h[2] = m THEN c[h] ELSE l.pos[h]
  BY DEF Settles
<1>3. \A u \in Users : <<u, m, x>> \in Holdings /\ <<u, m, x>>[2] = m
  BY DEF Holdings
<1>4. PICK P, C, D : /\ P = [u \in Users |-> p[<<u, m, x>>]] /\ C = [u \in Users |-> c[<<u, m, x>>]]
                     /\ D = [u \in Users |-> 100 * p[<<u, m, x>>]]
  OBVIOUS
<1>5. /\ Summable(P, Users) /\ Summable(C, Users) /\ Summable(D, Users)
      /\ \A u \in Users : /\ D[u] = 100 * P[u] /\ HeldBy(l, m, x)[u] = P[u] + C[u]
                          /\ HeldBy(k, m, x)[u] = C[u] /\ k.cash[u] = l.cash[u] + D[u]
  BY <1>2, <1>3, <1>4, ConstantsAssumption DEF Summable, HeldBy
<1>6. PICK sp, sc : sp = SumFunctionOnSet(P, Users) /\ sc = SumFunctionOnSet(C, Users)
  OBVIOUS
<1>7. sp \in Int /\ sc \in Int
  BY <1>5, <1>6, SumType
<1>8. Held(l, m, x) = sp + sc /\ Held(k, m, x) = sc
  BY <1>5, <1>6, SumPlus, SumSame DEF Held
<1>9. Free(k) = Free(l) + 100 * sp
  <2>1. SumFunctionOnSet(D, Users) = 100 * sp
    BY <1>5, <1>6, SumHundred
  <2>2. Free(k) = Free(l) + SumFunctionOnSet(D, Users)
    BY <1>5, AccountSums, SumPlus DEF Free
  <2>. QED  BY <2>1, <2>2
<1>10. Aside(l, m, x) = 0 /\ Aside(k, m, x) = 0
  <2>1. ASSUME NEW id \in OrderIds PROVE SetAside(l.orders[id], m, x) = 0
    BY <1>1 DEF SetAside, Active
  <2>2. \A id \in OrderIds : AsideBy(l, m, x)[id] = 0 /\ AsideBy(k, m, x)[id] = 0
    BY <1>1, <2>1 DEF AsideBy
  <2>. QED  BY <2>2, SumZero, ConstantsAssumption DEF Aside
<1>11. Outstanding(l, m, x) = sp + sc /\ Outstanding(k, m, x) = sc
  <2>1. Outstanding(l, m, x) = (sp + sc) + 0 /\ Outstanding(k, m, x) = sc + 0
    BY <1>8, <1>10, AccountSums
  <2>. QED  BY <1>7, <2>1
<1>12. Outstanding(l, m, "yes") = sp + sc
  BY <1>1, <1>11 DEF GoodLedger, AllPaired, IsOpen, Outcomes
<1>13. BackingBy(l)[m] = 100 * (sp + sc) /\ BackingBy(k)[m] = 100 * sc
  <2>1. Collateral(l, m) = 100 * (sp + sc)
    BY <1>1, <1>12 DEF Collateral, IsOpen
  <2>2. Collateral(k, m) = 100 * sc
    BY <1>1, <1>11 DEF Collateral, Outcomes
  <2>. QED  BY <2>1, <2>2 DEF BackingBy
<1>14. ASSUME NEW n \in Markets, n # m
       PROVE  \A y \in Outcomes : Outstanding(k, n, y) = Outstanding(l, n, y)
  <2>1. \A h \in Holdings : h[2] = n => k.pos[h] = l.pos[h]
    BY <1>2, <1>14
  <2>. QED  BY <1>1, <2>1, SharesKept
<1>15. \A n \in Markets \ {m} : BackingBy(k)[n] = BackingBy(l)[n]
  BY <1>1, <1>14 DEF BackingBy, Collateral, Outcomes
<1>16. Backing(k) = Backing(l) - 100 * (sp + sc) + 100 * sc
  <2>1. BackingBy(k)[m] \in Int
    BY <1>7, <1>13
  <2>. QED  BY <1>13, <1>15, <2>1, AccountSums, SumUpdate DEF Backing
<1>17. Reserved(k) = Reserved(l)
  BY <1>1 DEF Reserved, ReservedBy
<1>18. CashAccountedFor(k)
  <2>1. PICK f, r, b, d : f = Free(l) /\ r = Reserved(l) /\ b = Backing(l) /\ d = l.deposited
    OBVIOUS
  <2>2. f \in Int /\ r \in Int /\ b \in Int /\ f + r + b = d
    BY <2>1, AccountSums DEF GoodLedger
  <2>3. (f + 100 * sp) + r + (b - 100 * (sp + sc) + 100 * sc) = d
    BY <1>7, <2>2
  <2>4. Worth(k) = k.deposited
    BY <1>1, <1>9, <1>16, <1>17, <2>1, <2>3 DEF Worth
  <2>. QED  BY <2>4, BalanceIs
<1>19. AllPaired(k)
  <2>1. ASSUME NEW n \in Markets, k.markets[n] # NoMarket, k.markets[n].status = "open"
        PROVE  Outstanding(k, n, "yes") = Outstanding(k, n, "no")
    <3>1. n # m
      BY <1>1, <2>1
    <3>. QED  BY <1>1, <1>14, <2>1, <3>1 DEF GoodLedger, AllPaired, Outcomes
  <2>. QED  BY <2>1 DEF AllPaired
<1>20. Covered(k)
  <2>1. \A u \in Users : k.cash[u] >= 0
    <3>1. ASSUME NEW u \in Users PROVE k.cash[u] >= 0
      <4>1. PICK a, b : a = l.cash[u] /\ b = p[<<u, m, x>>]
        OBVIOUS
      <4>2. a \in Int /\ a >= 0 /\ b \in Nat /\ k.cash[u] = a + 100 * b
        BY <1>2, <1>3, <4>1 DEF GoodLedger, Covered, LedgerType
      <4>. QED  BY <4>2
    <3>. QED  BY <3>1
  <2>2. \A h \in Holdings : k.pos[h] >= 0
    BY <1>2 DEF GoodLedger, Covered
  <2>. QED  BY <1>1, <2>1, <2>2 DEF GoodLedger, Covered, OrdersOf
<1>21. Unheld(k)
  <2>1. ASSUME NEW h \in Holdings, k.markets[h[2]] = NoMarket PROVE k.pos[h] = 0
    <3>1. h[2] # m /\ h[2] \in Markets
      BY <1>1, <2>1 DEF Holdings
    <3>2. l.markets[h[2]] = NoMarket /\ k.pos[h] = l.pos[h]
      BY <1>1, <1>2, <2>1, <3>1
    <3>. QED  BY <3>2 DEF GoodLedger, Unheld
  <2>. QED  BY <2>1 DEF Unheld
<1>. QED  BY <1>18, <1>19, <1>20, <1>21 DEF GoodLedger

-----------------------------------------------------------------------------
(* The accounts, action by action. *)

(* The three ledgers, and those of the next state. *)
LEMMA AccountTypes ==
  /\ PInv => mem \in LedgerType /\ disk \in LedgerType /\ change \in LedgerType
             /\ Apply(mem, change) \in LedgerType
  /\ PInv' => mem' \in LedgerType /\ disk' \in LedgerType /\ change' \in LedgerType
              /\ Apply(mem', change') \in LedgerType
<1>1. PInv => mem \in LedgerType /\ disk \in LedgerType /\ change \in LedgerType
             /\ Apply(mem, change) \in LedgerType
  BY ApplyLedger DEF PInv, SInv, IInv, TypeOK
<1>2. PInv' => mem' \in LedgerType /\ disk' \in LedgerType /\ change' \in LedgerType
              /\ Apply(mem', change') \in LedgerType
  BY ApplyLedger DEF PInv, SInv, IInv, TypeOK
<1>. QED  BY <1>1, <1>2

LEMMA ApplyNothing ==
  ASSUME NEW l \in LedgerType
  PROVE  /\ Apply(l, Empty) \in LedgerType /\ SameAccounts(l, Apply(l, Empty))
         /\ GoodLedger(l) => GoodLedger(Apply(l, Empty))
<1>1. Apply(l, Empty) \in LedgerType
  BY EmptyLedger, ApplyLedger
<1>2. Apply(l, Empty).markets = l.markets /\ Apply(l, Empty).orders = l.orders
  BY DEF Apply, Empty, LedgerType
<1>3. Apply(l, Empty).cash = l.cash /\ Apply(l, Empty).pos = l.pos
      /\ Apply(l, Empty).deposited = l.deposited
  BY DEF Apply, Empty, LedgerType
<1>4. \A id \in OrderIds : SameAccount(l.orders[id], l.orders[id])
  BY DEF SameAccount, SameOrder
<1>5. SameAccounts(l, Apply(l, Empty))
  BY <1>2, <1>3, <1>4 DEF SameAccounts
<1>. QED  BY <1>1, <1>5, GoodSame

(* A step that leaves the ledgers alone, and what is staged or drops it. *)
LEMMA AKept ==
  ASSUME PInv, AInv, mem' = mem, disk' = disk,
         change' = change \/ change' = Empty,
         pc' = "remove" => change' = Empty \/ (pc = "remove" /\ change' = change)
  PROVE  AInv'
<1>1. GoodLedger(Apply(mem, change'))
  BY AccountTypes, ApplyNothing DEF AInv
<1>2. pc' = "remove" => \A h \in Holdings : change'.pos[h] >= 0
  <2>1. \A h \in Holdings : Empty.pos[h] >= 0
    BY EmptyShares
  <2>. QED  BY <2>1 DEF AInv, ReleasesOnly
<1>. QED  BY <1>1, <1>2 DEF AInv, ReleasesOnly

LEMMA AKeeps ==
  ASSUME PInv, AInv,
         \/ \E c \in Creations : AddBookUncertain(c)
         \/ \E b \in Batches : Place(b)
         \/ \E id \in OrderIds : Cancel(id)
         \/ \E m \in Markets, outcome \in Outcomes, u \in Users : ResolveFor(m, outcome, u)
         \/ AdmissionDone
         \/ \E k \in 1..Len(admitted) : EngineAccept(k)
         \/ \E e \in Engines : EngineMatch(e) \/ EngineFinish(e) \/ EngineRestart(e)
         \/ EngineDone \/ BookMissing \/ EngineError \/ Crash \/ Stop
         \/ FillsDone
         \/ \E id \in todo : RemoveRejected(id) \/ RecoverNext(id)
         \/ RecoverDone
         \/ UNCHANGED vars
  PROVE  AInv'
<1>1. CASE \/ \E c \in Creations : AddBookUncertain(c)
           \/ \E k \in 1..Len(admitted) : EngineAccept(k)
           \/ \E e \in Engines : EngineMatch(e) \/ EngineFinish(e) \/ EngineRestart(e)
           \/ UNCHANGED vars
  <2>1. mem' = mem /\ disk' = disk /\ change' = change /\ pc' = pc
    BY <1>1 DEF AddBookUncertain, EngineAccept, EngineMatch, EngineFinish, EngineRestart, vars,
                service, control, scratch
  <2>. QED  BY <2>1, AKept
<1>2. CASE \/ \E b \in Batches : Place(b)
           \/ EngineDone \/ FillsDone
           \/ \E id \in todo : RecoverNext(id)
  <2>1. mem' = mem /\ disk' = disk /\ change' = change /\ pc' # "remove"
    BY <1>2 DEF Place, EngineDone, FillsDone, RecoverNext, service
  <2>. QED  BY <2>1, AKept
<1>3. CASE \/ \E id \in OrderIds : Cancel(id)
           \/ \E m \in Markets, outcome \in Outcomes, u \in Users : ResolveFor(m, outcome, u)
  <2>1. mem' = mem /\ disk' = disk /\ change' = change /\ Ready
    BY <1>3 DEF Cancel, ResolveFor, service
  <2>2. change = Empty
    BY <2>1 DEF Ready, PInv, SInv, IInv, Control
  <2>. QED  BY <2>1, <2>2, AKept
<1>4. CASE \/ AdmissionDone \/ BookMissing \/ EngineError \/ Crash \/ Stop
           \/ \E id \in todo : RemoveRejected(id)
           \/ RecoverDone
  <2>1. /\ mem' = mem /\ disk' = disk /\ pc' # "remove" /\ (change' = change \/ change' = Empty)
    BY <1>4 DEF AdmissionDone, BookMissing, EngineError, Crash, Stop, RemoveRejected, RecoverDone,
                Fail, Exit, Return, ScratchCleared, service, scratch
  <2>. QED  BY <2>1, AKept
<1>. QED  BY <1>1, <1>2, <1>3, <1>4

(* A step that stages events. *)
LEMMA AStages ==
  ASSUME AInv, mem' = mem, disk' = disk, GoodLedger(Apply(mem, change')), pc' # "remove"
  PROVE  AInv'
BY DEF AInv, ReleasesOnly

(* Memory and disk, once the same events are applied to them. *)
LEMMA ACommit ==
  ASSUME PInv, PInv', AInv, Commit \/ CommitFails
  PROVE  AInv'
<1>1. pc = "commit" /\ pc' # "remove"
  BY DEF Commit, CommitFails, Fail, Exit, Return, PInv, SInv, IInv, Control
<1>2. PICK M, D : M = Apply(mem, change) /\ D = Apply(disk, change)
  OBVIOUS
<1>3. M \in LedgerType /\ D \in LedgerType
  BY <1>2, AccountTypes, ApplyLedger
<1>4. /\ M.markets = D.markets /\ M.cash = D.cash /\ M.pos = D.pos /\ M.deposited = D.deposited
      /\ \A id \in OrderIds :
              /\ M.orders[id] = IF change.orders[id] = NoOrder THEN mem.orders[id] ELSE change.orders[id]
              /\ D.orders[id] = IF change.orders[id] = NoOrder THEN disk.orders[id] ELSE change.orders[id]
  BY <1>1, <1>2, SCommitLedgers DEF PInv
<1>5. ASSUME NEW id \in OrderIds PROVE SameAccount(M.orders[id], D.orders[id])
  <2>1. \A o : SameAccount(o, o)
    BY DEF SameAccount, SameOrder
  <2>2. CASE change.orders[id] # NoOrder \/ mem.orders[id] = disk.orders[id]
    BY <1>4, <2>1, <2>2
  <2>3. CASE change.orders[id] = NoOrder /\ mem.orders[id] # disk.orders[id]
    <3>1. mem.orders[id] = [disk.orders[id] EXCEPT !.eid = 0] /\ Recovering(id)
      BY <1>1, <2>3 DEF PInv, SInv, IInv, Control, MemIsDisk
    <3>2. disk.orders[id] \in Order \cup {NoOrder} /\ mem.orders[id] \in Order \cup {NoOrder}
      BY AccountTypes DEF LedgerType
    <3>3. mem.orders[id] # NoOrder
      <4>1. op = "recover" /\ (id \in todo \/ (Submitted /\ admitted[1] = id))
        BY <1>1, <3>1 DEF Recovering, Submitted
      <4>. QED  BY <4>1 DEF PInv, SInv, IInv, Control
    <3>4. disk.orders[id] # NoOrder
      BY <3>3 DEF PInv, SInv, IInv, MemInDisk, Covers
    <3>5. PICK d, m : d = disk.orders[id] /\ m = mem.orders[id]
      OBVIOUS
    <3>6. d \in Order /\ m = [d EXCEPT !.eid = 0] /\ m \in Order /\ m # NoOrder /\ d # NoOrder
      BY <3>1, <3>2, <3>3, <3>4, <3>5
    <3>7. SameAccount(m, d)
      BY <3>6 DEF SameAccount, SameOrder, Active, Order
    <3>. QED  BY <1>4, <2>3, <3>5, <3>7
  <2>. QED  BY <2>2, <2>3
<1>6. SameAccounts(M, D)
  BY <1>4, <1>5 DEF SameAccounts
<1>7. GoodLedger(M) /\ GoodLedger(D)
  BY <1>2, <1>3, <1>6, GoodSame DEF AInv
<1>8. (mem' = mem \/ mem' = M) /\ (disk' = disk \/ disk' = D) /\ change' = Empty
  BY <1>2 DEF Commit, CommitFails, Fail, Exit, Return, ScratchCleared, Logged
<1>9. GoodLedger(mem') /\ GoodLedger(disk')
  BY <1>7, <1>8 DEF AInv
<1>10. GoodLedger(Apply(mem', change'))
  BY <1>8, <1>9, AccountTypes, ApplyNothing
<1>. QED  BY <1>1, <1>9, <1>10 DEF AInv, ReleasesOnly

LEMMA AStart ==
  ASSUME PInv, PInv', AInv, Start
  PROVE  AInv'
<1>1. change' = Empty /\ disk' = disk /\ pc' # "remove"
  BY DEF Start, PInv, SInv, IInv, Control
<1>2. mem'.markets = disk.markets /\ mem'.cash = disk.cash /\ mem'.pos = disk.pos
      /\ mem'.deposited = disk.deposited
  <2>1. disk \in LedgerType
    BY AccountTypes
  <2>. QED  BY <2>1 DEF Start, LedgerType
<1>3. ASSUME NEW id \in OrderIds PROVE SameAccount(disk.orders[id], mem'.orders[id])
  <2>1. mem'.orders[id] = IF Active(disk.orders[id]) THEN [disk.orders[id] EXCEPT !.eid = 0]
                          ELSE disk.orders[id]
    BY StartMem
  <2>2. disk.orders[id] \in Order \cup {NoOrder} /\ mem'.orders[id] \in Order \cup {NoOrder}
    BY AccountTypes DEF LedgerType
  <2>3. PICK d, m : d = disk.orders[id] /\ m = mem'.orders[id]
    OBVIOUS
  <2>4. CASE Active(d)
    <3>1. d \in Order /\ m = [d EXCEPT !.eid = 0] /\ d # NoOrder /\ m.status = d.status
      BY <2>1, <2>2, <2>3, <2>4 DEF Active, Order
    <3>2. m \in Order
      BY <3>1 DEF Order
    <3>3. m # NoOrder
      BY <3>2, ConstantsAssumption
    <3>4. SameAccount(d, m)
      BY <3>1, <3>3 DEF SameAccount, SameOrder, Active, Order
    <3>. QED  BY <2>3, <3>4
  <2>5. CASE ~Active(d)
    <3>1. m = d
      BY <2>1, <2>3, <2>5
    <3>. QED  BY <2>3, <3>1 DEF SameAccount, SameOrder
  <2>. QED  BY <2>4, <2>5
<1>4. SameAccounts(disk, mem')
  BY <1>2, <1>3 DEF SameAccounts
<1>5. GoodLedger(mem')
  BY <1>4, AccountTypes, GoodSame DEF AInv
<1>6. GoodLedger(Apply(mem', change'))
  BY <1>1, <1>5, AccountTypes, ApplyNothing
<1>. QED  BY <1>1, <1>5, <1>6 DEF AInv, ReleasesOnly

LEMMA ADeposit ==
  ASSUME PInv, PInv', AInv, NEW u \in Users, NEW cents \in DepositSizes, Deposit(u, cents)
  PROVE  AInv'
<1>1. mem' = mem /\ disk' = disk /\ pc' # "remove" /\ change' = BalanceEvent(change, u, cents)
  BY DEF Deposit, service
<1>2. PICK l, c, d : l = mem /\ c = change /\ d = BalanceEvent(change, u, cents)
  OBVIOUS
<1>3. l \in LedgerType /\ c \in LedgerType /\ cents \in Nat
  BY <1>2, AccountTypes, ConstantsAssumption
<1>4. d \in LedgerType /\ d.orders = c.orders /\ d.markets = c.markets
  BY <1>2, <1>3, BalanceEventLedger
<1>5. d.pos = c.pos /\ d.deposited = c.deposited + cents
      /\ \A v \in Users : d.cash[v] = IF v = u THEN c.cash[v] + cents ELSE c.cash[v]
  BY <1>2, <1>3 DEF BalanceEvent, LedgerType
<1>6. PICK L, K : L = Apply(l, c) /\ K = Apply(l, d)
  OBVIOUS
<1>7. L \in LedgerType /\ K \in LedgerType
  BY <1>3, <1>4, <1>6, ApplyLedger
<1>8. K.markets = L.markets /\ K.orders = L.orders
  BY <1>4, <1>6 DEF Apply
<1>9. K.pos = L.pos
  BY <1>5, <1>6 DEF Apply
<1>10. ASSUME NEW v \in Users
       PROVE  K.cash[v] = IF v = u THEN L.cash[v] + cents ELSE L.cash[v]
  <2>1. l.cash[v] \in Int /\ c.cash[v] \in Int
    BY <1>3 DEF LedgerType
  <2>2. K.cash[v] = l.cash[v] + d.cash[v] /\ L.cash[v] = l.cash[v] + c.cash[v]
    BY <1>6 DEF Apply
  <2>. QED  BY <1>3, <1>5, <2>1, <2>2
<1>11. K.deposited = L.deposited + cents
  <2>1. l.deposited \in Int /\ c.deposited \in Int
    BY <1>3 DEF LedgerType
  <2>2. K.deposited = l.deposited + d.deposited /\ L.deposited = l.deposited + c.deposited
    BY <1>6 DEF Apply
  <2>. QED  BY <1>3, <1>5, <2>1, <2>2
<1>12. Deposits(L, K, u, cents)
  BY <1>8, <1>9, <1>10, <1>11 DEF Deposits
<1>13. GoodLedger(K)
  BY <1>2, <1>3, <1>6, <1>7, <1>12, DepositGood DEF AInv
<1>. QED  BY <1>1, <1>2, <1>6, <1>13, AStages

LEMMA ACreateMarketFor ==
  ASSUME PInv, PInv', AInv, NEW r \in Creations, CreateMarketFor(r)
  PROVE  AInv'
<1>1. mem' = mem /\ disk' = disk /\ pc' # "remove" /\ Ready /\ mem.markets[r.id] = NoMarket
  BY DEF CreateMarketFor, NewMarket, service
<1>2. PICK l, c, d, m, new : /\ l = mem /\ c = change /\ d = MarketEvent(change, r.id, new)
                             /\ m = r.id /\ new = [symbol |-> r.symbol, owner |-> r.owner, status |-> "open"]
  OBVIOUS
<1>3. change' = d
  BY <1>2 DEF CreateMarketFor
<1>4. l \in LedgerType /\ c \in LedgerType /\ m \in Markets /\ new \in Market /\ c = Empty
  <2>1. r \in [id : Markets, symbol : Symbols, owner : Users]
    BY ConstantsAssumption
  <2>2. m \in Markets /\ new \in Market /\ new.status = "open"
    BY <1>2, <2>1 DEF Market, MarketStatuses
  <2>3. change = Empty
    BY <1>1 DEF Ready, PInv, SInv, IInv, Control
  <2>. QED  BY <1>2, <2>2, <2>3, AccountTypes
<1>5. d \in LedgerType /\ d.orders = c.orders /\ d.markets = [c.markets EXCEPT ![m] = new]
  BY <1>2, <1>4, MarketEventLedger
<1>6. d.pos = c.pos /\ d.deposited = c.deposited /\ d.cash = c.cash
  BY <1>2, <1>4 DEF MarketEvent, LedgerType
<1>7. PICK L, K : L = Apply(l, c) /\ K = Apply(l, d)
  OBVIOUS
<1>8. L \in LedgerType /\ K \in LedgerType
  BY <1>4, <1>5, <1>7, ApplyLedger
<1>9. K.orders = L.orders /\ K.pos = L.pos /\ K.cash = L.cash /\ K.deposited = L.deposited
  BY <1>5, <1>6, <1>7 DEF Apply
<1>10. L.markets[m] = NoMarket /\ K.markets[m] = new
       /\ \A n \in Markets : n # m => K.markets[n] = L.markets[n]
  <2>1. \A n \in Markets : c.markets[n] = NoMarket /\ d.markets[n] = IF n = m THEN new ELSE NoMarket
    <3>1. PICK f : f = c.markets
      OBVIOUS
    <3>2. DOMAIN f = Markets /\ f \in [Markets -> Market \cup {NoMarket}]
      BY <1>4, <3>1 DEF LedgerType
    <3>3. \A n \in Markets : f[n] = NoMarket
      BY <1>4, <3>1, EmptyLedger
    <3>4. \A n \in Markets : [f EXCEPT ![m] = new][n] = IF n = m THEN new ELSE NoMarket
      BY <3>2, <3>3
    <3>5. PICK g : g = [f EXCEPT ![m] = new]
      OBVIOUS
    <3>6. d.markets = g
      BY <1>5, <3>1, <3>5
    <3>7. \A n \in Markets : g[n] = IF n = m THEN new ELSE NoMarket
      BY <3>4, <3>5
    <3>. QED  BY <3>1, <3>3, <3>6, <3>7
  <2>2. \A n \in Markets :
           /\ L.markets[n] = IF c.markets[n] = NoMarket THEN l.markets[n] ELSE c.markets[n]
           /\ K.markets[n] = IF d.markets[n] = NoMarket THEN l.markets[n] ELSE d.markets[n]
    <3>1. l \in LedgerType /\ c \in LedgerType /\ d \in LedgerType
      BY <1>4, <1>5
    <3>. QED  BY <1>7, <3>1, ApplyLedger
  <2>3. new # NoMarket
    BY <1>4, ConstantsAssumption
  <2>. QED  BY <1>1, <1>2, <1>4, <2>1, <2>2, <2>3
<1>11. Opens(L, K, m)
  <2>1. new # NoMarket /\ new.status = "open"
    BY <1>2, <1>4, ConstantsAssumption
  <2>. QED  BY <1>9, <1>10, <2>1 DEF Opens, IsOpen
<1>12. MarketsIn(L)
  <2>1. L.orders = l.orders /\ L.markets = l.markets
    BY <1>4, <1>7, ApplyNothing, EmptyLedger DEF Apply, LedgerType
  <2>2. MarketsIn(l)
    BY <1>2 DEF PInv, SInv, IInv, MarketsKnown
  <2>. QED  BY <2>1, <2>2 DEF MarketsIn
<1>13. GoodLedger(K)
  BY <1>2, <1>4, <1>7, <1>8, <1>11, <1>12, OpenGood DEF AInv
<1>. QED  BY <1>1, <1>2, <1>3, <1>7, <1>13, AStages

(* A leg staged for an order nothing was staged for. *)
LEMMA AStagesLeg ==
  ASSUME NEW l \in LedgerType, NEW c \in LedgerType, NEW d \in LedgerType, GoodLedger(Apply(l, c)),
         NEW id \in OrderIds, NEW n \in Order, NEW dc \in Int, NEW ds \in Int,
         Leg(c, d, id, n, dc, ds), c.orders[id] = NoOrder, SameOrNew(l.orders[id], n),
         IsOpen(Apply(l, c), n.market), LegCovers(Apply(l, c), n, dc, ds),
         LegNeutral(l.orders[id], n, dc, ds)
  PROVE  GoodLedger(Apply(l, d))
<1>1. PICK L, K : L = Apply(l, c) /\ K = Apply(l, d)
  OBVIOUS
<1>2. L \in LedgerType /\ K \in LedgerType /\ L.orders[id] = l.orders[id]
  BY <1>1, ApplyLedger
<1>3. Leg(L, K, id, n, dc, ds)
  BY <1>1, LegApply
<1>4. /\ SameOrNew(L.orders[id], n) /\ IsOpen(L, n.market) /\ LegCovers(L, n, dc, ds) /\ GoodLedger(L)
      /\ LegNeutral(L.orders[id], n, dc, ds)
  BY <1>1, <1>2
<1>5. GoodLedger(K)
  BY <1>2, <1>3, <1>4, LegGood
<1>. QED  BY <1>1, <1>5

(* No market is being changed: what is open in memory is open. *)
LEMMA StillOpen ==
  ASSUME PInv, NEW m \in Markets, MarketOpen(m),
         op \notin {"create", "resolve"} \/ pc = "remove"
  PROVE  IsOpen(Apply(mem, change), m)
<1>1. change.markets[m] = NoMarket
  BY DEF PInv, SInv, SettlementInv
<1>2. Apply(mem, change).markets[m] = mem.markets[m]
  BY <1>1, AccountTypes, ApplyLedger
<1>. QED  BY <1>2 DEF MarketOpen, IsOpen

(* A reservation, a release and a fill are legs. *)
LEMMA ReserveLeg ==
  ASSUME NEW c \in LedgerType, NEW id \in OrderIds, NEW n \in Order, NEW dc \in Int, NEW ds \in Int,
         dc = IF IsBuy(n.side) THEN -(n.price * n.qty) ELSE 0,
         ds = IF IsBuy(n.side) THEN 0 ELSE -n.qty
  PROVE  Leg(c, ReserveEvents(c, id, n), id, n, dc, ds)
<1>1. CASE IsBuy(n.side)
  <2>1. ReserveEvents(c, id, n) = OrderEvent(c, id, n, dc) /\ ds = 0
    BY <1>1 DEF ReserveEvents
  <2>. QED  BY <2>1, OrderLeg
<1>2. CASE ~IsBuy(n.side)
  <2>1. ReserveEvents(c, id, n) =
          PositionEvent(OrderEvent(c, id, n, 0), n.user, n.market, OutcomeOf(n.side), ds, dc)
    BY <1>2 DEF ReserveEvents
  <2>. QED  BY <2>1, PositionLeg
<1>. QED  BY <1>1, <1>2

LEMMA ReleaseLeg ==
  ASSUME NEW c \in LedgerType, NEW id \in OrderIds, NEW o \in Order, NEW n \in Order,
         n = [o EXCEPT !.status = "cancelled"], NEW dc \in Int, NEW ds \in Int,
         dc = IF IsBuy(o.side) THEN Remaining(o) * o.price ELSE 0,
         ds = IF IsBuy(o.side) THEN 0 ELSE Remaining(o)
  PROVE  Leg(c, ReleaseEvents(c, id, o), id, n, dc, ds)
<1>0. n.user = o.user /\ n.market = o.market /\ n.side = o.side
  BY DEF Order
<1>1. CASE IsBuy(o.side)
  <2>1. ReleaseEvents(c, id, o) = OrderEvent(c, id, n, dc) /\ ds = 0
    BY <1>1 DEF ReleaseEvents
  <2>. QED  BY <2>1, OrderLeg
<1>2. CASE ~IsBuy(o.side)
  <2>1. ReleaseEvents(c, id, o) =
          PositionEvent(OrderEvent(c, id, n, 0), o.user, o.market, OutcomeOf(o.side), ds, dc)
    BY <1>2 DEF ReleaseEvents
  <2>2. ReleaseEvents(c, id, o) =
          PositionEvent(OrderEvent(c, id, n, 0), n.user, n.market, OutcomeOf(n.side), ds, dc)
    BY <1>0, <2>1
  <2>. QED  BY <2>2, PositionLeg
<1>. QED  BY <1>1, <1>2

LEMMA FillLeg ==
  ASSUME NEW c \in LedgerType, NEW id \in OrderIds, NEW o \in Order, NEW q \in Nat, NEW p \in Nat,
         NEW n \in Order, n = FilledOrder(o, q), SameOrder(n, o),
         NEW dc \in Int, NEW ds \in Int, dc = FillCredit(o, q, p), ds = FillShares(o, q)
  PROVE  Leg(c, FillEvents(c, id, o, q, p), id, n, dc, ds)
<1>1. FillEvents(c, id, o, q, p) =
        PositionEvent(OrderEvent(c, id, n, 0), o.user, o.market, OutcomeOf(o.side), ds, dc)
  BY DEF FillEvents, FillShares
<1>2. FillEvents(c, id, o, q, p) =
        PositionEvent(OrderEvent(c, id, n, 0), n.user, n.market, OutcomeOf(n.side), ds, dc)
  BY <1>1 DEF SameOrder
<1>. QED  BY <1>2, PositionLeg

(* What a ledger with staged events has in an account. *)
LEMMA Balances ==
  ASSUME NEW l, NEW c
  PROVE  /\ \A u \in Users : Apply(l, c).cash[u] = l.cash[u] + c.cash[u]
         /\ \A h \in Holdings : Apply(l, c).pos[h] = l.pos[h] + c.pos[h]
         /\ Apply(l, c).deposited = l.deposited + c.deposited
BY DEF Apply

LEMMA OrderFields ==
  ASSUME NEW n \in Order
  PROVE  /\ n.user \in Users /\ n.market \in Markets /\ OutcomeOf(n.side) \in Outcomes
         /\ n.price \in Nat /\ n.qty \in Nat /\ n.filled \in Nat
         /\ <<n.user, n.market, OutcomeOf(n.side)>> \in Holdings
         /\ n # NoOrder
<1>1. n.user \in Users /\ n.market \in Markets /\ n.price \in Nat /\ n.qty \in Nat /\ n.filled \in Nat
  BY DEF Order
<1>2. OutcomeOf(n.side) \in Outcomes
  BY DEF OutcomeOf, Outcomes
<1>3. n # NoOrder
  BY ConstantsAssumption
<1>. QED  BY <1>1, <1>2, <1>3 DEF Holdings

LEMMA GoodBalances ==
  ASSUME NEW l \in LedgerType, GoodLedger(l)
  PROVE  /\ \A u \in Users : l.cash[u] \in Int /\ l.cash[u] >= 0
         /\ \A h \in Holdings : l.pos[h] \in Int /\ l.pos[h] >= 0
BY DEF GoodLedger, Covered, LedgerType

LEMMA AAdmitNext ==
  ASSUME PInv, PInv', AInv, AdmitNext
  PROVE  AInv'
<1>1. mem' = mem /\ disk' = disk /\ pc' = pc /\ pc = "admit"
  BY DEF AdmitNext, service, control
<1>2. CASE change' = change
  BY <1>1, <1>2, AKept
<1>3. CASE change' # change
  <2>1. PICK r, n, c, l, e : /\ r = reqs[cur] /\ n = AdmittedOrder(reqs[cur]) /\ c = change /\ l = mem
                             /\ e = ReserveEvents(change, reqs[cur].id, n)
    OBVIOUS
  <2>2. r \in Request
    BY <2>1, ConstantsAssumption DEF AdmitNext, PInv, SInv, IInv, TypeOK
  <2>3. /\ Admissible(r) /\ change' = [e EXCEPT !.sequence = @ + 1]
        /\ c.orders[r.id] = NoOrder /\ l.orders[r.id] = NoOrder
    BY <1>3, <2>1 DEF AdmitNext
  <2>4. r.id \in OrderIds
    BY <2>2 DEF Request
  <2>5. AdmissionSequence \in Nat
    <3>1. mem.sequence \in Nat /\ Len(admitted) \in Nat
      <4>1. mem \in LedgerType /\ admitted \in Seq(OrderIds)
        BY DEF PInv, SInv, IInv, TypeOK
      <4>. QED  BY <4>1 DEF LedgerType
    <3>. QED  BY <3>1 DEF AdmissionSequence
  <2>6. /\ n \in Order /\ n.filled = 0 /\ n.qty = r.qty /\ n.user = r.user /\ n.market = r.market
        /\ n.side = r.side /\ n.price = r.price /\ Active(n)
    <3>1. n = [user |-> r.user, market |-> r.market, side |-> r.side, price |-> r.price,
               qty |-> r.qty, filled |-> 0, status |-> "pending", seq |-> AdmissionSequence,
               eid |-> 0]
      BY <2>1 DEF AdmittedOrder
    <3>2. n \in Order
      BY <2>2, <2>5, <3>1 DEF Order, Request, OrderStatuses, ActiveStatuses
    <3>3. n # NoOrder
      BY <3>2, ConstantsAssumption
    <3>. QED  BY <3>1, <3>2, <3>3 DEF Active, ActiveStatuses
  <2>7. c \in LedgerType /\ l \in LedgerType /\ change' \in LedgerType
    BY <2>1, AccountTypes
  <2>8. PICK dc, ds : /\ dc = IF IsBuy(n.side) THEN -(n.price * n.qty) ELSE 0
                      /\ ds = IF IsBuy(n.side) THEN 0 ELSE -n.qty
    OBVIOUS
  <2>9. LegNeutral(NoOrder, n, dc, ds) /\ dc \in Int /\ ds \in Int
    BY <2>6, <2>8, ReserveNeutral
  <2>10. Leg(c, e, r.id, n, dc, ds) /\ e \in LedgerType
    BY <2>1, <2>4, <2>6, <2>7, <2>8, <2>9, ReserveLeg, ReserveLedger
  <2>11. Leg(c, change', r.id, n, dc, ds)
    <3>1. PICK d : d = [e EXCEPT !.sequence = @ + 1]
      OBVIOUS
    <3>2. /\ d.markets = e.markets /\ d.deposited = e.deposited /\ d.orders = e.orders
          /\ d.cash = e.cash /\ d.pos = e.pos
      BY <2>10, <3>1 DEF LedgerType
    <3>3. Leg(c, d, r.id, n, dc, ds)
      BY <2>10, <3>2 DEF Leg
    <3>. QED  BY <2>3, <3>1, <3>3
  <2>12. IsOpen(Apply(l, c), n.market)
    <3>1. op = "place"
      BY <1>1 DEF PInv, SInv, IInv, Control
    <3>. QED  BY <2>1, <2>3, <2>6, <3>1, OrderFields, StillOpen DEF Admissible
  <2>13. GoodLedger(Apply(l, c))
    BY <2>1 DEF AInv
  <2>14. LegCovers(Apply(l, c), n, dc, ds)
    <3>1. PICK u, h, x, y : /\ u = n.user /\ h = <<n.user, n.market, OutcomeOf(n.side)>>
                            /\ x = Apply(l, c).cash[u] /\ y = Apply(l, c).pos[h]
      OBVIOUS
    <3>2. u \in Users /\ h \in Holdings /\ n.price \in Nat /\ n.qty \in Nat
      BY <2>6, <3>1, OrderFields
    <3>3. x \in Int /\ x >= 0 /\ y \in Int /\ y >= 0
      BY <2>7, <2>13, <3>1, <3>2, ApplyLedger, GoodBalances
    <3>4. x = l.cash[u] + c.cash[u] /\ y = l.pos[h] + c.pos[h]
      BY <3>1, <3>2, Balances
    <3>5. IF IsBuy(n.side) THEN x >= n.price * n.qty ELSE y >= n.qty
      BY <2>1, <2>3, <2>6, <3>1, <3>4 DEF Admissible, Affordable
    <3>6. PICK cost, qty : cost = n.price * n.qty /\ qty = n.qty
      OBVIOUS
    <3>7. cost \in Int /\ qty \in Nat
      BY <3>2, <3>6
    <3>8. x + dc >= 0 /\ y + ds >= 0
      <4>1. CASE IsBuy(n.side)
        <5>1. dc = -cost /\ ds = 0 /\ x >= cost
          BY <2>8, <3>5, <3>6, <4>1
        <5>. QED  BY <3>3, <3>7, <5>1
      <4>2. CASE ~IsBuy(n.side)
        <5>1. dc = 0 /\ ds = -qty /\ y >= qty
          BY <2>8, <3>5, <3>6, <4>2
        <5>. QED  BY <3>3, <3>7, <5>1
      <4>. QED  BY <4>1, <4>2
    <3>9. n.filled <= n.qty
      BY <2>6, <3>2
    <3>. QED  BY <3>1, <3>8, <3>9 DEF LegCovers
  <2>15. SameOrNew(l.orders[r.id], n) /\ LegNeutral(l.orders[r.id], n, dc, ds)
    BY <2>3, <2>9 DEF SameOrNew
  <2>16. GoodLedger(Apply(l, change'))
    BY <2>3, <2>4, <2>6, <2>7, <2>9, <2>11, <2>12, <2>13, <2>14, <2>15, AStagesLeg
  <2>. QED  BY <1>1, <2>1, <2>16, AStages
<1>. QED  BY <1>2, <1>3

LEMMA AStageOrder ==
  ASSUME PInv, PInv', FInv, AInv, StageOrder
  PROVE  AInv'
<1>1. mem' = mem /\ disk' = disk /\ pc' # "remove" /\ pc = "stage" /\ op \in {"place", "recover"}
  BY DEF StageOrder, service, PInv, SInv, IInv, Control
<1>2. PICK id, o, n, l, c :
        /\ id = admitted[cur] /\ o = mem.orders[admitted[cur]] /\ l = mem /\ c = change
        /\ n = [o EXCEPT !.eid = results[cur].eid,
                         !.status = IF o.filled > 0 THEN "partial" ELSE "open"]
  OBVIOUS
<1>3. /\ cur \in 1..Len(admitted) /\ id \in OrderIds /\ o \in Order /\ Active(o) /\ l.orders[id] = o
      /\ results[cur].eid \in Nat
  BY <1>2, StageOrderStages DEF Result
<1>4. change' = OrderEvent(c, id, n, 0)
  BY <1>2 DEF StageOrder
<1>5. /\ n \in Order /\ SameOrder(n, o) /\ n.filled = o.filled /\ n.status \in {"partial", "open"}
  BY <1>2, <1>3 DEF Order, SameOrder, OrderStatuses, ActiveStatuses
<1>6. Active(n)
  BY <1>5, OrderFields DEF Active, ActiveStatuses
<1>7. l \in LedgerType /\ c \in LedgerType /\ change' \in LedgerType /\ GoodLedger(Apply(l, c))
  BY <1>2, AccountTypes DEF AInv
<1>8. Leg(c, change', id, n, 0, 0)
  <2>1. 0 \in Int
    OBVIOUS
  <2>. QED  BY <1>3, <1>4, <1>5, <1>7, <2>1, OrderLeg
<1>9. c.orders[id] = NoOrder
  <2>1. \A j \in 1..Len(admitted) : pc = "stage" /\ j >= cur => change.orders[admitted[j]] = NoOrder
    BY DEF FInv, FlightSound, FlightStaged, Unstaged
  <2>2. cur >= cur
    BY <1>3
  <2>. QED  BY <1>1, <1>2, <1>3, <2>1, <2>2
<1>10. SameOrNew(l.orders[id], n) /\ LegNeutral(l.orders[id], n, 0, 0)
  BY <1>3, <1>5, <1>6, StageNeutral DEF SameOrNew, Active
<1>11. IsOpen(Apply(l, c), n.market)
  <2>1. MarketOpen(o.market) /\ o.market \in Markets
    <3>1. IsOpen(mem, o.market)
      BY <1>2, <1>3 DEF PInv, SInv, ActiveInOpen
    <3>. QED  BY <1>3, <3>1, OrderFields DEF IsOpen, MarketOpen
  <2>2. n.market = o.market
    BY <1>5 DEF SameOrder
  <2>. QED  BY <1>1, <1>2, <2>1, <2>2, StillOpen
<1>12. LegCovers(Apply(l, c), n, 0, 0)
  <2>1. PICK x, y : /\ x = Apply(l, c).cash[n.user]
                    /\ y = Apply(l, c).pos[<<n.user, n.market, OutcomeOf(n.side)>>]
    OBVIOUS
  <2>2. x \in Int /\ x >= 0 /\ y \in Int /\ y >= 0
    BY <1>5, <1>7, <2>1, ApplyLedger, GoodBalances, OrderFields
  <2>3. n.filled <= n.qty
    <3>1. o.filled <= o.qty
      BY <1>2, <1>3, OrderFields DEF FInv, LedgersSound, OrdersGood
    <3>. QED  BY <1>5, <3>1 DEF SameOrder
  <2>4. x + 0 >= 0 /\ y + 0 >= 0
    BY <2>2
  <2>. QED  BY <2>1, <2>3, <2>4 DEF LegCovers
<1>13. GoodLedger(Apply(l, change'))
  <2>1. 0 \in Int
    OBVIOUS
  <2>. QED  BY <1>3, <1>5, <1>7, <1>8, <1>9, <1>10, <1>11, <1>12, <2>1, AStagesLeg
<1>. QED  BY <1>1, <1>2, <1>13, AStages

LEMMA ARemoveOrder ==
  ASSUME PInv, PInv', FInv, AInv, NEW id \in todo, RemoveOrder(id)
  PROVE  AInv'
<1>1. mem' = mem /\ disk' = disk /\ pc = "remove"
  BY DEF RemoveOrder, service
<1>2. PICK o, n, l, c : /\ o = mem.orders[id] /\ l = mem /\ c = change
                        /\ n = [o EXCEPT !.status = "cancelled"]
  OBVIOUS
<1>3. /\ id \in OrderIds /\ o \in Order /\ Active(o) /\ l.orders[id] = o /\ MarketOpen(o.market)
  BY <1>1, <1>2, ToRemove DEF ActiveOrders
<1>4. change' = ReleaseEvents(c, id, o)
  BY <1>2 DEF RemoveOrder
<1>5. n \in Order /\ SameOrder(n, o) /\ n.filled = o.filled /\ ~Active(n)
  BY <1>2, <1>3 DEF Order, SameOrder, OrderStatuses, ActiveStatuses, Active
<1>6. l \in LedgerType /\ c \in LedgerType /\ change' \in LedgerType /\ GoodLedger(Apply(l, c))
  BY <1>2, AccountTypes DEF AInv
<1>7. c.orders[id] = NoOrder
  BY <1>1, <1>2 DEF FInv, FlightSound, FlightStaged, OneMarket
<1>8. PICK dc, ds : /\ dc = IF IsBuy(o.side) THEN Remaining(o) * o.price ELSE 0
                    /\ ds = IF IsBuy(o.side) THEN 0 ELSE Remaining(o)
  OBVIOUS
<1>9. LegNeutral(o, n, dc, ds) /\ dc \in Int /\ ds \in Int
  BY <1>3, <1>5, <1>8, ReleaseNeutral
<1>10. Leg(c, change', id, n, dc, ds)
  BY <1>2, <1>3, <1>4, <1>5, <1>6, <1>8, <1>9, ReleaseLeg
<1>11. dc >= 0 /\ ds >= 0 /\ n.filled <= n.qty
  <2>1. o.filled <= o.qty /\ o.price \in Nat /\ o.filled \in Nat /\ o.qty \in Nat
    BY <1>2, <1>3, OrderFields DEF FInv, LedgersSound, OrdersGood
  <2>2. PICK rem, p : rem = Remaining(o) /\ p = o.price
    OBVIOUS
  <2>3. rem \in Nat /\ p \in Nat
    BY <2>1, <2>2 DEF Remaining
  <2>4. rem * p \in Nat
    BY <2>3
  <2>5. n.filled <= n.qty
    BY <1>5, <2>1 DEF SameOrder
  <2>. QED  BY <1>8, <2>2, <2>3, <2>4, <2>5
<1>12. SameOrNew(l.orders[id], n) /\ LegNeutral(l.orders[id], n, dc, ds)
  BY <1>3, <1>5, <1>9 DEF SameOrNew, Active
<1>13. IsOpen(Apply(l, c), n.market)
  <2>1. n.market = o.market /\ o.market \in Markets
    BY <1>3, <1>5, OrderFields DEF SameOrder
  <2>. QED  BY <1>1, <1>2, <1>3, <2>1, StillOpen
<1>14. LegCovers(Apply(l, c), n, dc, ds)
  <2>1. PICK x, y : /\ x = Apply(l, c).cash[n.user]
                    /\ y = Apply(l, c).pos[<<n.user, n.market, OutcomeOf(n.side)>>]
    OBVIOUS
  <2>2. x \in Int /\ x >= 0 /\ y \in Int /\ y >= 0
    BY <1>5, <1>6, <2>1, ApplyLedger, GoodBalances, OrderFields
  <2>3. x + dc >= 0 /\ y + ds >= 0
    BY <1>9, <1>11, <2>2
  <2>. QED  BY <1>11, <2>1, <2>3 DEF LegCovers
<1>15. GoodLedger(Apply(l, change'))
  BY <1>3, <1>5, <1>6, <1>7, <1>9, <1>10, <1>12, <1>13, <1>14, AStagesLeg
<1>16. ASSUME NEW h \in Holdings PROVE change'.pos[h] >= 0
  <2>1. c.pos[h] \in Int /\ c.pos[h] >= 0
    BY <1>1, <1>2, <1>6 DEF AInv, ReleasesOnly, LedgerType
  <2>2. change'.pos[h] = c.pos[h] + ds \/ change'.pos[h] = c.pos[h]
    BY <1>10 DEF Leg
  <2>3. c.pos[h] + ds >= 0
    BY <1>9, <1>11, <2>1
  <2>. QED  BY <2>1, <2>2, <2>3
<1>. QED  BY <1>1, <1>2, <1>15, <1>16 DEF AInv, ReleasesOnly

LEMMA ARemoveDone ==
  ASSUME PInv, PInv', AInv, RemoveDone
  PROVE  AInv'
<1>1. mem' = mem /\ disk' = disk /\ pc = "remove" /\ pc' # "remove" /\ todo = {}
  BY DEF RemoveDone, service
<1>2. CASE op # "resolve"
  <2>1. change' = change
    BY <1>2 DEF RemoveDone
  <2>. QED  BY <1>1, <2>1, AKept
<1>3. CASE op = "resolve"
  <2>1. PICK m, x, status, market, l, c, paid, d :
          /\ m = target.market /\ x = target.outcome /\ l = mem /\ c = change
          /\ status = IF target.outcome = "yes" THEN "resolved_yes" ELSE "resolved_no"
          /\ market = [mem.markets[m] EXCEPT !.status = status]
          /\ paid = PayoutEvents(c, l, m, x) /\ d = MarketEvent(paid, m, market)
    OBVIOUS
  <2>2. change' = d
    BY <1>3, <2>1 DEF RemoveDone
  <2>3. m \in Markets /\ IsOpen(l, m) /\ MarketOpen(m) /\ x \in Outcomes
    <3>1. m \in Markets /\ x \in Outcomes
      BY <1>1, <1>3, <2>1 DEF PInv, SInv, IInv, TypeOK, Control
    <3>2. IsOpen(l, m)
      BY <1>1, <1>3, <2>1 DEF PInv, SInv, SettlementInv
    <3>. QED  BY <2>1, <3>1, <3>2 DEF IsOpen, MarketOpen
  <2>4. l \in LedgerType /\ c \in LedgerType /\ GoodLedger(Apply(l, c)) /\ GoodLedger(l)
    BY <2>1, AccountTypes DEF AInv
  <2>5. market \in Market /\ market.status = status /\ market # NoMarket
    <3>1. PICK old : old = l.markets[m]
      OBVIOUS
    <3>2. old \in Market
      BY <2>3, <2>4, <3>1 DEF LedgerType, IsOpen
    <3>3. status \in MarketStatuses
      BY <2>1 DEF MarketStatuses
    <3>4. market = [old EXCEPT !.status = status]
      BY <2>1, <3>1
    <3>5. market \in Market /\ market.status = status
      BY <3>2, <3>3, <3>4 DEF Market
    <3>. QED  BY <3>5, ConstantsAssumption
  <2>6. paid \in LedgerType /\ paid.orders = c.orders /\ paid.markets = c.markets
        /\ paid.deposited = c.deposited
        /\ (\A u \in Users : paid.cash[u] = c.cash[u] + 100 * l.pos[<<u, m, x>>])
        /\ (\A h \in Holdings : paid.pos[h] = c.pos[h] - (IF h[2] = m THEN l.pos[h] ELSE 0))
    <3>1. paid \in LedgerType /\ paid.orders = c.orders /\ paid.markets = c.markets
      BY <2>1, <2>3, <2>4, PayoutLedger
    <3>2. paid.deposited = c.deposited
      BY <2>1, <2>4 DEF PayoutEvents, LedgerType
    <3>3. paid.cash = [u \in Users |-> c.cash[u] + 100 * l.pos[<<u, m, x>>]]
      BY <2>1, <2>4 DEF PayoutEvents, LedgerType
    <3>4. paid.pos = [h \in Holdings |-> c.pos[h] - (IF h[2] = m THEN l.pos[h] ELSE 0)]
      BY <2>1, <2>4 DEF PayoutEvents, LedgerType
    <3>. QED  BY <3>1, <3>2, <3>3, <3>4
  <2>7. d \in LedgerType /\ d.orders = c.orders /\ d.markets = [c.markets EXCEPT ![m] = market]
    BY <2>1, <2>3, <2>5, <2>6, MarketEventLedger
  <2>8. d.cash = paid.cash /\ d.pos = paid.pos /\ d.deposited = c.deposited
    BY <2>1, <2>6 DEF MarketEvent, LedgerType
  <2>9. PICK L, K : L = Apply(l, c) /\ K = Apply(l, d)
    OBVIOUS
  <2>10. L \in LedgerType /\ K \in LedgerType
    BY <2>4, <2>7, <2>9, ApplyLedger
  <2>11. K.orders = L.orders /\ K.deposited = L.deposited
    BY <2>7, <2>8, <2>9 DEF Apply
  <2>12. IsOpen(L, m)
    BY <1>1, <2>1, <2>3, <2>9, StillOpen
  <2>13. K.markets[m] = market /\ \A n \in Markets : n # m => K.markets[n] = L.markets[n]
    <3>1. l \in LedgerType /\ c \in LedgerType /\ d \in LedgerType
      BY <2>4, <2>7
    <3>2. \A n \in Markets :
            /\ L.markets[n] = IF c.markets[n] = NoMarket THEN l.markets[n] ELSE c.markets[n]
            /\ K.markets[n] = IF d.markets[n] = NoMarket THEN l.markets[n] ELSE d.markets[n]
      BY <2>9, <3>1, ApplyLedger
    <3>3. PICK f, g : f = c.markets /\ g = d.markets
      OBVIOUS
    <3>4. DOMAIN f = Markets /\ g = [f EXCEPT ![m] = market]
      BY <2>4, <2>7, <3>3 DEF LedgerType
    <3>5. \A n \in Markets : g[n] = IF n = m THEN market ELSE f[n]
      BY <3>4
    <3>. QED  BY <2>3, <2>5, <3>2, <3>3, <3>5
  <2>14. ASSUME NEW u \in Users
         PROVE  K.cash[u] = L.cash[u] + 100 * l.pos[<<u, m, x>>]
    <3>1. <<u, m, x>> \in Holdings
      BY <2>3 DEF Holdings
    <3>2. PICK a, b, p : a = l.cash[u] /\ b = c.cash[u] /\ p = 100 * l.pos[<<u, m, x>>]
      OBVIOUS
    <3>3. a \in Int /\ b \in Int /\ p \in Int
      <4>1. l.pos[<<u, m, x>>] \in Int
        BY <2>4, <3>1 DEF LedgerType
      <4>. QED  BY <2>4, <3>2, <4>1 DEF LedgerType
    <3>4. K.cash[u] = a + (b + p) /\ L.cash[u] = a + b
      BY <2>6, <2>8, <2>9, <3>2, Balances
    <3>. QED  BY <3>2, <3>3, <3>4
  <2>15. ASSUME NEW h \in Holdings
         PROVE  /\ l.pos[h] \in Nat /\ c.pos[h] \in Nat /\ L.pos[h] = l.pos[h] + c.pos[h]
                /\ K.pos[h] = IF h[2] = m THEN c.pos[h] ELSE L.pos[h]
    <3>1. PICK a, b : a = l.pos[h] /\ b = c.pos[h]
      OBVIOUS
    <3>2. a \in Nat /\ b \in Nat
      <4>1. a \in Int /\ a >= 0
        BY <2>4, <3>1, GoodBalances
      <4>2. b \in Int /\ b >= 0
        BY <1>1, <2>1, <2>4, <3>1 DEF AInv, ReleasesOnly, LedgerType
      <4>. QED  BY <4>1, <4>2
    <3>3. L.pos[h] = a + b
      BY <2>9, <3>1, Balances
    <3>4. K.pos[h] = a + (b - (IF h[2] = m THEN a ELSE 0))
      BY <2>6, <2>8, <2>9, <3>1, Balances
    <3>5. CASE h[2] = m
      <4>1. K.pos[h] = a + (b - a)
        BY <3>4, <3>5
      <4>. QED  BY <3>1, <3>2, <3>3, <3>5, <4>1
    <3>6. CASE h[2] # m
      <4>1. K.pos[h] = a + (b - 0)
        BY <3>4, <3>6
      <4>. QED  BY <3>1, <3>2, <3>3, <3>6, <4>1
    <3>. QED  BY <3>5, <3>6
  <2>16. ASSUME NEW id \in OrderIds, L.orders[id] # NoOrder, L.orders[id].market = m
         PROVE  ~Active(L.orders[id])
    <3>1. Closing(m)
      BY <1>1, <1>3, <2>1 DEF PInv, SInv, SettlementInv
    <3>2. L.orders[id] = IF c.orders[id] = NoOrder THEN l.orders[id] ELSE c.orders[id]
      BY <2>4, <2>9, ApplyLedger
    <3>. QED  BY <1>1, <2>1, <2>16, <3>1, <3>2 DEF Closing
  <2>17. Settles(L, K, l.pos, c.pos, m, x)
    BY <2>1, <2>5, <2>11, <2>12, <2>13, <2>14, <2>15, <2>16 DEF Settles
  <2>18. GoodLedger(K)
    BY <2>3, <2>4, <2>9, <2>10, <2>17, SettleGood
  <2>. QED  BY <1>1, <2>1, <2>2, <2>9, <2>18, AStages
<1>. QED  BY <1>2, <1>3

(* Credits leave no account short. *)
LEMMA LegLeaves ==
  ASSUME NEW l \in LedgerType, NEW k \in LedgerType, NEW id \in OrderIds, NEW n \in Order,
         NEW dc \in Int, NEW ds \in Int, Leg(l, k, id, n, dc, ds), dc >= 0, ds >= 0,
         \A u \in Users : l.cash[u] >= 0, \A h \in Holdings : l.pos[h] >= 0
  PROVE  (\A u \in Users : k.cash[u] >= 0) /\ (\A h \in Holdings : k.pos[h] >= 0)
<1>1. ASSUME NEW u \in Users PROVE k.cash[u] >= 0
  <2>1. l.cash[u] \in Int /\ l.cash[u] >= 0 /\ l.cash[u] + dc >= 0
    BY DEF LedgerType
  <2>2. k.cash[u] = l.cash[u] + dc \/ k.cash[u] = l.cash[u]
    BY DEF Leg
  <2>. QED  BY <2>1, <2>2
<1>2. ASSUME NEW h \in Holdings PROVE k.pos[h] >= 0
  <2>1. l.pos[h] \in Int /\ l.pos[h] >= 0 /\ l.pos[h] + ds >= 0
    BY DEF LedgerType
  <2>2. k.pos[h] = l.pos[h] + ds \/ k.pos[h] = l.pos[h]
    BY DEF Leg
  <2>. QED  BY <2>1, <2>2
<1>. QED  BY <1>1, <1>2

LEMMA CreditCovers ==
  ASSUME NEW l \in LedgerType, NEW n \in Order, NEW dc \in Int, NEW ds \in Int, dc >= 0, ds >= 0,
         \A u \in Users : l.cash[u] >= 0, \A h \in Holdings : l.pos[h] >= 0, n.filled <= n.qty
  PROVE  LegCovers(l, n, dc, ds)
<1>1. PICK x, y : x = l.cash[n.user] /\ y = l.pos[<<n.user, n.market, OutcomeOf(n.side)>>]
  OBVIOUS
<1>2. x \in Int /\ x >= 0 /\ y \in Int /\ y >= 0
  BY <1>1, OrderFields DEF LedgerType
<1>3. x + dc >= 0 /\ y + ds >= 0
  BY <1>2
<1>. QED  BY <1>1, <1>3 DEF LegCovers

(* A staged order is the order memory has, at a valid price. *)
LEMMA StagedOrder ==
  ASSUME PInv, NEW id \in ActiveOrders(mem)
  PROVE  /\ id \in OrderIds /\ SameOrder(Staged(id), mem.orders[id]) /\ Staged(id).price \in 1..99
         /\ Staged(id) # NoOrder
         /\ Staged(id) = Apply(mem, change).orders[id]
<1>1. id \in OrderIds /\ mem.orders[id] # NoOrder
  BY DEF ActiveOrders, Active
<1>2. CASE change.orders[id] = NoOrder
  <2>1. Staged(id) = mem.orders[id] /\ Apply(mem, change).orders[id] = mem.orders[id]
    BY <1>1, <1>2, AccountTypes, ApplyLedger DEF Staged
  <2>2. mem.orders[id].price \in 1..99
    BY <1>1 DEF PInv, SInv, IInv, PricesValid
  <2>. QED  BY <1>1, <2>1, <2>2 DEF SameOrder
<1>3. CASE change.orders[id] # NoOrder
  <2>1. Staged(id) = change.orders[id] /\ Apply(mem, change).orders[id] = change.orders[id]
    BY <1>1, <1>3, AccountTypes, ApplyLedger DEF Staged
  <2>2. change.orders[id].price \in 1..99
    BY <1>1, <1>3 DEF PInv, SInv, IInv, PricesValid
  <2>3. SameOrder(change.orders[id], mem.orders[id])
    BY <1>1, <1>3 DEF PInv, SInv, IInv, StagedFaithful
  <2>. QED  BY <1>1, <1>3, <2>1, <2>2, <2>3
<1>. QED  BY <1>2, <1>3

(* One order's half of a fill: what a trade of q at p does to order o. *)
FillSide(o, n, q, p, side) ==
  /\ o \in Order /\ o # NoOrder /\ n \in Order /\ n = FilledOrder(o, q) /\ SameOrder(n, o) /\ n.filled <= n.qty
  /\ EngineSide(o.side) = side
  /\ FillMoved(o, n, q, p)
  /\ FillCredit(o, q, p) \in Int /\ FillCredit(o, q, p) >= 0
  /\ FillShares(o, q) \in Int /\ FillShares(o, q) >= 0

LEMMA FillSides ==
  ASSUME PInv, FInv, pc = "fill", NEW x, NEW b, NEW s, FillStep(x, b, s), NEW id \in {b, s},
         NEW o, NEW n, NEW q, NEW p, o = Staged(id), q = x[3].qty, p = x[3].price,
         n = FilledOrder(o, q)
  PROVE  /\ FillSide(o, n, q, p, IF id = b THEN "buy" ELSE "sell")
         /\ id \in ActiveOrders(mem) /\ o.market = x[1] /\ q \in Nat /\ p \in Nat
<1>1. b # s /\ Live[b].side = "buy" /\ Live[s].side = "sell" /\ Live[b].market = x[1]
      /\ Live[s].market = x[1] /\ b \in DOMAIN Live /\ s \in DOMAIN Live
      /\ Live[s].price <= x[3].price /\ x[3].price <= Live[b].price
  BY DEF FillStep, Names
<1>2. /\ id \in DOMAIN Live /\ id \in ActiveOrders(mem)
      /\ Live[id].market = mem.orders[id].market /\ Live[id].side = EngineSide(mem.orders[id].side)
      /\ Live[id].price = EnginePrice(mem.orders[id].side, mem.orders[id].price)
  BY <1>1, LiveIs
<1>3. /\ Active(o) /\ o \in Order /\ q \in Nat /\ p \in Nat /\ o.filled + q <= o.qty
  BY FillOrders
<1>4. SameOrder(o, mem.orders[id]) /\ o.price \in 1..99 /\ o # NoOrder
  BY <1>2, StagedOrder
<1>5. /\ o.market = x[1] /\ EngineSide(o.side) = Live[id].side
      /\ EnginePrice(o.side, o.price) = Live[id].price
  BY <1>1, <1>2, <1>4 DEF SameOrder
<1>6. /\ n \in Order /\ SameOrder(n, o) /\ n.filled = o.filled + q
  BY <1>3, FillOf
<1>7. FillMoved(o, n, q, p) /\ FillCredit(o, q, p) \in Int /\ FillShares(o, q) \in Int
  BY <1>3, FillMoves
<1>8. EngineSide(o.side) = IF id = b THEN "buy" ELSE "sell"
  BY <1>1, <1>5
<1>9. WithinLimit(o, p)
  <2>1. CASE id = b
    BY <1>1, <1>5, <1>8, <2>1 DEF WithinLimit
  <2>2. CASE id # b
    BY <1>1, <1>5, <1>8, <2>2 DEF WithinLimit
  <2>. QED  BY <2>1, <2>2
<1>10. FillCredit(o, q, p) >= 0 /\ FillShares(o, q) >= 0
  BY <1>3, <1>4, <1>9, FillPays
<1>11. n.filled <= n.qty
  BY <1>3, <1>6 DEF SameOrder
<1>. QED  BY <1>2, <1>3, <1>4, <1>5, <1>6, <1>7, <1>8, <1>10, <1>11 DEF FillSide

(* Both halves of a fill, on the ledger with the staged events. *)
LEMMA FillGood ==
  ASSUME NEW L \in LedgerType, NEW H \in LedgerType, NEW K \in LedgerType, GoodLedger(L),
         NEW b \in OrderIds, NEW s \in OrderIds, NEW ob, NEW os, NEW nb, NEW ns, NEW q \in Nat, NEW p \in Nat,
         FillSide(ob, nb, q, p, "buy"), FillSide(os, ns, q, p, "sell"),
         L.orders[b] = ob, H.orders[s] = os,
         Leg(L, H, b, nb, FillCredit(ob, q, p), FillShares(ob, q)),
         Leg(H, K, s, ns, FillCredit(os, q, p), FillShares(os, q)),
         IsOpen(L, ob.market), os.market = ob.market
  PROVE  GoodLedger(K)
<1>1. PICK dn, sn, dp, sp : /\ dn = FillCredit(ob, q, p) /\ sn = FillShares(ob, q)
                            /\ dp = FillCredit(os, q, p) /\ sp = FillShares(os, q)
  OBVIOUS
<1>2. /\ dn \in Int /\ dn >= 0 /\ sn \in Int /\ sn >= 0 /\ dp \in Int /\ dp >= 0 /\ sp \in Int /\ sp >= 0
  BY <1>1 DEF FillSide
<1>3. /\ nb \in Order /\ ns \in Order /\ SameOrder(nb, ob) /\ SameOrder(ns, os)
      /\ ob # NoOrder /\ os # NoOrder /\ nb.filled <= nb.qty /\ ns.filled <= ns.qty
      /\ EngineSide(ob.side) = "buy" /\ EngineSide(os.side) = "sell"
  BY DEF FillSide
<1>4. (\A u \in Users : L.cash[u] >= 0) /\ (\A h \in Holdings : L.pos[h] >= 0)
  BY GoodBalances
<1>5. Leg(L, H, b, nb, dn, sn) /\ Leg(H, K, s, ns, dp, sp)
  BY <1>1
<1>6. (\A u \in Users : H.cash[u] >= 0) /\ (\A h \in Holdings : H.pos[h] >= 0)
  BY <1>2, <1>3, <1>4, <1>5, LegLeaves
<1>7. LegCovers(L, nb, dn, sn) /\ LegCovers(H, ns, dp, sp)
  <2>1. LegCovers(L, nb, dn, sn)
    BY <1>2, <1>3, <1>4, CreditCovers
  <2>2. LegCovers(H, ns, dp, sp)
    BY <1>2, <1>3, <1>6, CreditCovers
  <2>. QED  BY <2>1, <2>2
<1>8. SameOrNew(L.orders[b], nb) /\ SameOrNew(H.orders[s], ns)
  BY <1>3 DEF SameOrNew
<1>9. IsOpen(L, nb.market) /\ ns.market = nb.market
  BY <1>3 DEF SameOrder
<1>10. PICK g, t : g = 100 * q - p * q /\ t = q
  OBVIOUS
<1>11. g \in Int /\ t \in Int
  BY <1>10
<1>12. /\ Gain(L.orders[b], nb, dn, sn) = g /\ Tilt(L.orders[b], nb, sn) = t
  BY <1>1, <1>3, <1>10 DEF FillSide, FillMoved
<1>13. /\ Gain(H.orders[s], ns, dp, sp) = 0 - g /\ Tilt(H.orders[s], ns, sp) = 0 - t
  BY <1>1, <1>3, <1>10 DEF FillSide, FillMoved
<1>. QED  BY <1>2, <1>3, <1>5, <1>7, <1>8, <1>9, <1>11, <1>12, <1>13, LegsGood

LEMMA AStageFill ==
  ASSUME PInv, PInv', FInv, AInv, StageFill
  PROVE  AInv'
<1>1. mem' = mem /\ disk' = disk /\ pc = "fill" /\ pc' # "remove" /\ op \in {"place", "recover"}
  BY DEF StageFill, service, control, PInv, SInv, IInv, Control
<1>2. PICK x \in Pending, b \in OrderIds, s \in OrderIds : FillStep(x, b, s)
  BY FillSteps
<1>3. PICK q, p, ob, os, nb, ns, l, c, half, L, H, K :
        /\ q = x[3].qty /\ p = x[3].price /\ ob = Staged(b) /\ os = Staged(s)
        /\ nb = FilledOrder(ob, q) /\ ns = FilledOrder(os, q) /\ l = mem /\ c = change
        /\ half = FillEvents(c, b, ob, q, p)
        /\ L = Apply(l, c) /\ H = Apply(l, half) /\ K = Apply(l, change')
  OBVIOUS
<1>4. b # s /\ change' = FillEvents(half, s, os, q, p)
  BY <1>2, <1>3 DEF FillStep
<1>5. /\ FillSide(ob, nb, q, p, "buy") /\ b \in ActiveOrders(mem) /\ ob.market = x[1]
      /\ q \in Nat /\ p \in Nat
  BY <1>1, <1>2, <1>3, FillSides
<1>6. /\ FillSide(os, ns, q, p, "sell") /\ s \in ActiveOrders(mem) /\ os.market = x[1]
  BY <1>1, <1>2, <1>3, <1>4, FillSides
<1>7. /\ ob \in Order /\ nb \in Order /\ SameOrder(nb, ob)
      /\ FillCredit(ob, q, p) \in Int /\ FillShares(ob, q) \in Int
      /\ os \in Order /\ ns \in Order /\ SameOrder(ns, os)
      /\ FillCredit(os, q, p) \in Int /\ FillShares(os, q) \in Int
  BY <1>5, <1>6 DEF FillSide
<1>8. l \in LedgerType /\ c \in LedgerType /\ change' \in LedgerType /\ GoodLedger(L)
  BY <1>3, AccountTypes DEF AInv
<1>9. half \in LedgerType /\ half.orders = [c.orders EXCEPT ![b] = FilledOrder(ob, q)]
  BY <1>3, <1>5, <1>7, <1>8, FillLedger
<1>10. half \in LedgerType /\ half.orders[s] = c.orders[s]
  <2>1. DOMAIN c.orders = OrderIds
    BY <1>8 DEF LedgerType
  <2>. QED  BY <1>4, <1>9, <2>1
<1>11. Leg(c, half, b, nb, FillCredit(ob, q, p), FillShares(ob, q))
  BY <1>3, <1>5, <1>7, <1>8, FillLeg
<1>12. Leg(half, change', s, ns, FillCredit(os, q, p), FillShares(os, q))
  BY <1>3, <1>4, <1>5, <1>7, <1>10, FillLeg
<1>13. L \in LedgerType /\ H \in LedgerType /\ K \in LedgerType
  BY <1>3, <1>8, <1>10, ApplyLedger
<1>14. Leg(L, H, b, nb, FillCredit(ob, q, p), FillShares(ob, q))
  BY <1>3, <1>7, <1>8, <1>10, <1>11, LegApply
<1>15. Leg(H, K, s, ns, FillCredit(os, q, p), FillShares(os, q))
  BY <1>3, <1>7, <1>8, <1>10, <1>12, LegApply
<1>16. L.orders[b] = ob /\ L.orders[s] = os
  BY <1>3, <1>5, <1>6, StagedOrder
<1>17. H.orders[s] = os
  <2>1. H.orders[s] = L.orders[s]
    BY <1>4, <1>14 DEF Leg
  <2>. QED  BY <1>16, <2>1
<1>18. IsOpen(L, ob.market) /\ os.market = ob.market
  <2>1. mem.orders[b].market = ob.market
    BY <1>3, <1>5, StagedOrder DEF SameOrder
  <2>2. IsOpen(mem, ob.market)
    BY <1>5, <2>1 DEF ActiveOrders, PInv, SInv, ActiveInOpen
  <2>3. MarketOpen(ob.market) /\ ob.market \in Markets
    BY <1>7, <2>2, OrderFields DEF IsOpen, MarketOpen
  <2>. QED  BY <1>1, <1>3, <1>5, <1>6, <2>3, StillOpen
<1>19. GoodLedger(K)
  BY <1>5, <1>6, <1>8, <1>13, <1>14, <1>15, <1>16, <1>17, <1>18, FillGood
<1>. QED  BY <1>1, <1>3, <1>19, AStages

LEMMA InitAInv == Init => AInv
<1>. SUFFICES ASSUME Init PROVE AInv
  OBVIOUS
<1>1. mem = Empty /\ disk = Empty /\ change = Empty /\ pc # "remove"
  BY DEF Init
<1>2. GoodLedger(Empty) /\ GoodLedger(Apply(Empty, Empty))
  BY EmptyGood, EmptyLedger, ApplyNothing
<1>. QED  BY <1>1, <1>2 DEF AInv, ReleasesOnly

LEMMA NextAInv == PInv /\ FInv /\ AInv /\ [Next]_vars => AInv'
<1>1. SUFFICES ASSUME PInv, FInv, AInv, [Next]_vars PROVE AInv'
  OBVIOUS
<1>2. PInv'
  BY <1>1, NextPInv
<1>. USE <1>1, <1>2
<1>3. CASE Client
  <2>1. CASE \E c \in Creations : CreateMarketFor(c)
    BY <2>1, ACreateMarketFor
  <2>2. CASE \E u \in Users, cents \in DepositSizes : Deposit(u, cents)
    BY <2>2, ADeposit
  <2>. QED  BY <1>3, <2>1, <2>2, AKeeps DEF Client
<1>4. CASE Progress
  <2>1. CASE AdmitNext
    BY <2>1, AAdmitNext
  <2>2. CASE Commit
    BY <2>2, ACommit
  <2>3. CASE StageOrder
    BY <2>3, AStageOrder
  <2>4. CASE StageFill
    BY <2>4, AStageFill
  <2>5. CASE \E id \in todo : RemoveOrder(id)
    BY <2>5, ARemoveOrder
  <2>6. CASE RemoveDone
    BY <2>6, ARemoveDone
  <2>. QED  BY <1>4, <2>1, <2>2, <2>3, <2>4, <2>5, <2>6, AKeeps DEF Progress
<1>5. CASE Faults
  <2>1. CASE CommitFails
    BY <2>1, ACommit
  <2>. QED  BY <1>5, <2>1, AKeeps DEF Faults
<1>6. CASE Stop
  BY <1>6, AKeeps
<1>7. CASE Start
  BY <1>7, AStart
<1>8. CASE UNCHANGED vars
  BY <1>8, AKeeps
<1>. QED  BY <1>3, <1>4, <1>5, <1>6, <1>7, <1>8 DEF Next

LEMMA AInvariance == Spec => []AInv
<1>1. Init => PInv /\ FInv /\ AInv
  BY InitPInv, InitFInv, InitAInv
<1>2. PInv /\ FInv /\ AInv /\ [Next]_vars => PInv' /\ FInv' /\ AInv'
  BY NextPInv, NextFInv, NextAInv
<1>. QED  BY <1>1, <1>2, PTL DEF Spec

(* CashConserved: in memory and on disk, free cash, the cash set aside by open
   buys and the collateral behind the shares are what was deposited. *)
THEOREM CashIsConserved == Spec => []CashConserved
<1>1. AInv => CashConserved
  BY DEF AInv, GoodLedger, CashConserved
<1>. QED  BY <1>1, AInvariance, PTL

(* SharesPaired: while a market is open, as many YES as NO shares of it are
   outstanding, in memory and on disk. *)
THEOREM SharesStayPaired == Spec => []SharesPaired
<1>1. AInv => SharesPaired
  BY DEF AInv, GoodLedger, SharesPaired
<1>. QED  BY <1>1, AInvariance, PTL

(* NoOverdraft: no account is overdrawn in cash or shares and no order is
   filled beyond its quantity, in memory and on disk. *)
THEOREM NobodyOverdraws == Spec => []NoOverdraft
<1>1. AInv => NoOverdraft
  BY DEF AInv, GoodLedger, NoOverdraft
<1>. QED  BY <1>1, AInvariance, PTL
=============================================================================
