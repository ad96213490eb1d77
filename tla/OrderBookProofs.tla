-------------------------- MODULE OrderBookProofs --------------------------
(***************************************************************************)
(* The C++ order book, for every set of submissions and any number of      *)
(* orders: the lookup leads to every live order and to nothing else, the   *)
(* counters bound the tombstones, the quotes are those of the live orders, *)
(* and the whole structure implements MatchingBook.                        *)
(*                                                                         *)
(* Everything is said of the places of live orders: a trade or a removal   *)
(* takes one away, an order that rests adds one, and a compaction moves    *)
(* them without adding or losing any.                                      *)
(***************************************************************************)
EXTENDS OrderBookInvariant, FiniteSetTheorems, TLAPS

(* A set of natural numbers has a least element: induction, for the rest. *)
LEMMA LeastNatural ==
  ASSUME NEW T, T \subseteq Nat, T # {}
  PROVE  \E m \in T : \A k \in T : m <= k
<1>1. PICK m \in T : \A k \in T : ~(<<k, m>> \in OpToRel(<, Nat))
  BY WFMin, NatLessThanWellFounded, Zenon
<1>2. \A k \in T : ~(k < m)
  <2>1. \A k \in T : <<k, m>> \in Nat \X Nat
    OBVIOUS
  <2>. QED BY <1>1, <2>1, Zenon DEF OpToRel
<1>. QED  BY <1>2

(* Min finds the least of some natural numbers. *)
LEMMA MinOf ==
  ASSUME NEW S, S \subseteq Nat, S # {}
  PROVE  Min(S) \in S /\ \A k \in S : Min(S) <= k
<1>1. \E m \in S : \A k \in S : m <= k
  BY LeastNatural
<1>. QED  BY <1>1 DEF Min

(* Max finds the largest of finitely many natural numbers. *)
LEMMA MaxOf ==
  ASSUME NEW S, S \subseteq Nat, S # {}, IsFiniteSet(S)
  PROVE  Max(S) \in S /\ \A k \in S : Max(S) >= k
<1>. DEFINE HasMax(X) == \E m \in X : \A k \in X : m >= k
            Bad == {n \in Nat : \E X \in SUBSET Nat : /\ IsFiniteSet(X) /\ Cardinality(X) = n
                                                      /\ X # {} /\ ~HasMax(X)}
<1>1. Bad = {}
  <2>1. SUFFICES ASSUME Bad # {}
                 PROVE  FALSE
    OBVIOUS
  <2>2. PICK n \in Bad : \A k \in Bad : n <= k
    <3>1. Bad \subseteq Nat
      OBVIOUS
    <3>. HIDE DEF Bad
    <3>. QED  BY <2>1, <3>1, LeastNatural
  <2>3. PICK X \in SUBSET Nat : IsFiniteSet(X) /\ Cardinality(X) = n /\ X # {} /\ ~HasMax(X)
    OBVIOUS
  <2>4. PICK x \in X : TRUE
    BY <2>3
  <2>. DEFINE Y == X \ {x}
  <2>5. Y # {}
    <3>1. SUFFICES ASSUME Y = {}
                   PROVE  FALSE
      OBVIOUS
    <3>2. X = {x} /\ x \in Nat
      BY <3>1, <2>4
    <3>. QED  BY <3>2, <2>3
  <2>6. IsFiniteSet(Y) /\ Cardinality(Y) = n - 1 /\ Y \in SUBSET Nat
    BY <2>3, <2>4, FS_RemoveElement
  <2>7. n \in Nat /\ n - 1 \in Nat
    BY <2>6, FS_CardinalityType
  <2>8. HasMax(Y)
    <3>1. n - 1 \notin Bad
      <4>. HIDE DEF Bad
      <4>. QED  BY <2>2, <2>7
    <3>. HIDE DEF HasMax, Y
    <3>. QED  BY <3>1, <2>5, <2>6, <2>7
  <2>9. PICK y \in Y : \A k \in Y : y >= k
    BY <2>8
  <2>10. x \in Nat /\ y \in Nat /\ X \subseteq Nat
    BY <2>3, <2>4, <2>9
  <2>11. CASE x >= y
    <3>1. \A k \in X : x >= k
      BY <2>9, <2>10, <2>11
    <3>. QED  BY <3>1, <2>3
  <2>12. CASE y >= x
    <3>1. \A k \in X : y >= k
      BY <2>9, <2>10, <2>12
    <3>. QED  BY <3>1, <2>3
  <2>. QED  BY <2>10, <2>11, <2>12
<1>2. Cardinality(S) \in Nat
  BY FS_CardinalityType
<1>3. HasMax(S)
  <2>1. Cardinality(S) \notin Bad
    BY <1>1
  <2>. HIDE DEF HasMax
  <2>. QED  BY <2>1, <1>2
<1>. QED  BY <1>3 DEF Max
-----------------------------------------------------------------------------
(* Compaction of one level. *)

(* What the scan over a level has kept up to place i is well-defined. *)
KeptStep(f, orders, i) ==
  IF i = 0 THEN <<>>
  ELSE IF Live(orders[i]) THEN Append(f[i - 1], orders[i])
  ELSE f[i - 1]

(* The scan is a function: there is one for every number of places. *)
LEMMA ScanExists ==
  ASSUME NEW orders, NEW n \in Nat
  PROVE  \E f : f = [i \in 0..n |-> KeptStep(f, orders, i)]
<1>. DEFINE Has(m) == \E f : f = [i \in 0..m |-> KeptStep(f, orders, i)]
            Bad == {m \in Nat : ~Has(m)}
<1>1. SUFFICES ASSUME Bad # {}
               PROVE  FALSE
  <2>. HIDE DEF Has
  <2>1. Bad = {} => Has(n)
    OBVIOUS
  <2>. QED  BY <2>1 DEF Has
<1>2. PICK m \in Bad : \A k \in Bad : m <= k
  <2>1. Bad \subseteq Nat
    OBVIOUS
  <2>. HIDE DEF Bad
  <2>. QED  BY <1>1, <2>1, LeastNatural
<1>3. m \in Nat /\ ~Has(m)
  OBVIOUS
<1>4. CASE m = 0
  <2>. DEFINE f == [i \in 0..0 |-> <<>>]
  <2>1. f = [i \in 0..0 |-> KeptStep(f, orders, i)]
    BY DEF KeptStep
  <2>. QED  BY <1>3, <1>4, <2>1
<1>5. CASE m # 0
  <2>1. m - 1 \in Nat /\ m - 1 \notin Bad
    <3>. HIDE DEF Bad
    <3>. QED  BY <1>2, <1>3, <1>5
  <2>2. PICK g : g = [i \in 0..(m - 1) |-> KeptStep(g, orders, i)]
    BY <2>1
  <2>. DEFINE f == [i \in 0..m |-> IF i = m THEN KeptStep(g, orders, m) ELSE g[i]]
  <2>3. \A i \in 0..(m - 1) : f[i] = g[i] /\ g[i] = KeptStep(g, orders, i)
    <3>1. \A i \in 0..(m - 1) : g[i] = KeptStep(g, orders, i)
      BY <2>2
    <3>. QED  BY <1>3, <3>1
  <2>4. \A i \in 0..m : KeptStep(f, orders, i) = KeptStep(g, orders, i)
    <3>1. \A i \in 0..m : i # 0 => i - 1 \in 0..(m - 1)
      BY <1>3
    <3>. HIDE DEF f
    <3>. QED  BY <2>3, <3>1 DEF KeptStep
  <2>5. f[m] = KeptStep(g, orders, m)
    BY <1>3
  <2>6. \A i \in 0..m : f[i] = KeptStep(f, orders, i)
    <3>1. \A i \in 0..m : i = m \/ i \in 0..(m - 1)
      BY <1>3
    <3>. HIDE DEF f
    <3>. QED  BY <2>3, <2>4, <2>5, <3>1
  <2>7. f = [i \in 0..m |-> KeptStep(f, orders, i)]
    <3>1. f = [i \in 0..m |-> f[i]]
      OBVIOUS
    <3>. HIDE DEF f
    <3>. QED  BY <2>6, <3>1
  <2>. HIDE DEF f
  <2>. QED  BY <1>3, <2>7
<1>. QED  BY <1>4, <1>5

(* The scan's result after place i: the live orders up to there, in order. *)
Compacts(kept, orders, i) ==
  /\ kept \in Seq(Entry)
  /\ \A a \in DOMAIN kept : \E j \in 1..i : Live(orders[j]) /\ kept[a] = orders[j]
  /\ \A j \in 1..i : Live(orders[j]) => \E a \in DOMAIN kept : kept[a] = orders[j]
  /\ \A a, b \in DOMAIN kept : a < b => kept[a].eid < kept[b].eid

(* One more live order is kept. *)
LEMMA CompactsMore ==
  ASSUME NEW n \in Nat, NEW orders, LevelInv(orders, n), NEW m \in 1..Len(orders),
         NEW g, Compacts(g, orders, m - 1), Live(orders[m])
  PROVE  Compacts(Append(g, orders[m]), orders, m)
<1>0. orders \in Seq(Entry) /\ Len(orders) \in Nat /\ DOMAIN orders = 1..Len(orders)
  BY DEF LevelInv
<1>1. g \in Seq(Entry) /\ orders[m] \in Entry
  BY <1>0 DEF Compacts
<1>. DEFINE h == Append(g, orders[m])
<1>2. /\ h \in Seq(Entry) /\ Len(h) = Len(g) + 1 /\ Len(g) \in Nat
      /\ DOMAIN h = 1..(Len(g) + 1) /\ DOMAIN g = 1..Len(g)
      /\ h[Len(g) + 1] = orders[m]
      /\ \A a \in 1..Len(g) : h[a] = g[a]
  BY <1>1
<1>. HIDE DEF h
<1>3. \A a \in 1..(Len(g) + 1) : a = Len(g) + 1 \/ a \in 1..Len(g)
  BY <1>2
<1>4. \A a \in DOMAIN g : \E j \in 1..(m - 1) : Live(orders[j]) /\ g[a] = orders[j]
  BY DEF Compacts
<1>5. \A a \in DOMAIN g : g[a].eid < orders[m].eid
  <2>1. \A j \in 1..(m - 1) : j \in DOMAIN orders /\ m \in DOMAIN orders /\ j < m
    BY <1>0
  <2>2. \A j \in 1..(m - 1) : orders[j].eid < orders[m].eid
    BY <2>1 DEF LevelInv
  <2>. QED  BY <1>4, <2>2
<1>6. \A a \in DOMAIN h : \E j \in 1..m : Live(orders[j]) /\ h[a] = orders[j]
  <2>1. m \in 1..m /\ \A j \in 1..(m - 1) : j \in 1..m
    BY <1>0
  <2>. QED  BY <1>2, <1>3, <1>4, <2>1
<1>7. \A j \in 1..m : Live(orders[j]) => \E a \in DOMAIN h : h[a] = orders[j]
  <2>1. \A j \in 1..(m - 1) : Live(orders[j]) => \E a \in DOMAIN g : g[a] = orders[j]
    BY DEF Compacts
  <2>2. Len(g) + 1 \in DOMAIN h /\ \A a \in DOMAIN g : a \in DOMAIN h /\ h[a] = g[a]
    BY <1>2
  <2>3. \A j \in 1..m : j = m \/ j \in 1..(m - 1)
    BY <1>0
  <2>. QED  BY <1>2, <2>1, <2>2, <2>3
<1>8. \A a, b \in DOMAIN h : a < b => h[a].eid < h[b].eid
  <2>1. \A a, b \in DOMAIN g : a < b => g[a].eid < g[b].eid
    BY DEF Compacts
  <2>2. ASSUME NEW a \in DOMAIN h, NEW b \in DOMAIN h, a < b
        PROVE  h[a].eid < h[b].eid
    <3>1. a \in 1..Len(g)
      BY <1>2, <2>2
    <3>2. CASE b = Len(g) + 1
      BY <1>2, <1>5, <3>1, <3>2
    <3>3. CASE b \in 1..Len(g)
      BY <1>2, <2>1, <2>2, <3>1, <3>3
    <3>. QED  BY <1>2, <1>3, <3>2, <3>3
  <2>. QED  BY <2>2
<1>. QED  BY <1>2, <1>6, <1>7, <1>8 DEF Compacts, h

(* The scan keeps the live orders up to every place: by descent to the first
   place where it would not. *)
LEMMA ScanCompacts ==
  ASSUME NEW n \in Nat, NEW orders, LevelInv(orders, n),
         NEW f, f = [i \in 0..Len(orders) |-> KeptStep(f, orders, i)]
  PROVE  \A i \in 0..Len(orders) : Compacts(f[i], orders, i)
<1>0. orders \in Seq(Entry) /\ Len(orders) \in Nat /\ DOMAIN orders = 1..Len(orders)
  BY DEF LevelInv
<1>1. \A i \in 0..Len(orders) : f[i] = KeptStep(f, orders, i)
  OBVIOUS
<1>. DEFINE Bad == {i \in 0..Len(orders) : ~Compacts(f[i], orders, i)}
<1>2. SUFFICES ASSUME Bad # {}
               PROVE  FALSE
  OBVIOUS
<1>3. PICK m \in Bad : \A k \in Bad : m <= k
  <2>1. Bad \subseteq Nat
    BY <1>0
  <2>. HIDE DEF Bad
  <2>. QED  BY <1>2, <2>1, LeastNatural
<1>4. m \in 0..Len(orders) /\ ~Compacts(f[m], orders, m)
  OBVIOUS
<1>5. CASE m = 0
  <2>1. f[m] = <<>>
    BY <1>1, <1>4, <1>5 DEF KeptStep
  <2>. QED  BY <1>4, <1>5, <2>1 DEF Compacts
<1>6. CASE m # 0
  <2>1. m - 1 \in 0..Len(orders) /\ m \in 1..Len(orders) /\ m - 1 \notin Bad
    <3>. HIDE DEF Bad
    <3>. QED  BY <1>0, <1>3, <1>4, <1>6
  <2>2. Compacts(f[m - 1], orders, m - 1)
    BY <2>1
  <2>3. f[m] = IF Live(orders[m]) THEN Append(f[m - 1], orders[m]) ELSE f[m - 1]
    BY <1>1, <1>4, <1>6 DEF KeptStep
  <2>4. \A j \in 1..m : j = m \/ j \in 1..(m - 1)
    BY <2>1
  <2>5. CASE ~Live(orders[m])
    <3>1. f[m] = f[m - 1]
      BY <2>3, <2>5
    <3>2. \A j \in 1..(m - 1) : j \in 1..m
      BY <2>1
    <3>. HIDE DEF Bad
    <3>. QED  BY <1>4, <2>2, <2>4, <2>5, <3>1, <3>2 DEF Compacts
  <2>6. CASE Live(orders[m])
    <3>1. Compacts(Append(f[m - 1], orders[m]), orders, m)
      BY <1>0, <2>1, <2>2, <2>6, CompactsMore
    <3>. QED  BY <1>4, <2>3, <2>6, <3>1
  <2>. QED  BY <2>5, <2>6
<1>. QED  BY <1>5, <1>6

(* What compaction keeps of a level: its live orders, and their order. *)
LEMMA KeptCompacts ==
  ASSUME NEW n \in Nat, NEW orders, LevelInv(orders, n)
  PROVE  /\ LevelInv(Kept(orders), n)
         /\ \A a \in DOMAIN Kept(orders) :
              \E j \in DOMAIN orders : Live(orders[j]) /\ Kept(orders)[a] = orders[j]
         /\ \A j \in DOMAIN orders :
              Live(orders[j]) => \E a \in DOMAIN Kept(orders) : Kept(orders)[a] = orders[j]
<1>0. orders \in Seq(Entry) /\ Len(orders) \in Nat /\ DOMAIN orders = 1..Len(orders)
  BY DEF LevelInv
<1>. DEFINE f == CHOOSE g : g = [i \in 0..Len(orders) |-> KeptStep(g, orders, i)]
<1>1. f = [i \in 0..Len(orders) |-> KeptStep(f, orders, i)]
  <2>1. \E g : g = [i \in 0..Len(orders) |-> KeptStep(g, orders, i)]
    BY <1>0, ScanExists
  <2>. QED  BY <2>1
<1>2. Kept(orders) = f[Len(orders)]
  BY DEF Kept, KeptStep
<1>3. Compacts(Kept(orders), orders, Len(orders))
  <2>1. Len(orders) \in 0..Len(orders)
    BY <1>0
  <2>. HIDE DEF f
  <2>. QED  BY <1>1, <1>2, <2>1, ScanCompacts
<1>4. \A a \in DOMAIN Kept(orders) :
        \E j \in DOMAIN orders : Live(orders[j]) /\ Kept(orders)[a] = orders[j]
  BY <1>0, <1>3 DEF Compacts
<1>5. \A a \in DOMAIN Kept(orders) :
         Kept(orders)[a].eid < n /\ (Live(Kept(orders)[a]) => Kept(orders)[a].qty > 0)
  BY <1>4 DEF LevelInv
<1>. QED  BY <1>0, <1>3, <1>4, <1>5 DEF Compacts, LevelInv
-----------------------------------------------------------------------------
(* Places, for any levels lv. *)
Place == [side : EngineSides, price : Nat, index : Nat \ {0}]

At(lv, l) == lv[l.side][l.price][l.index]

Spots(lv) ==
  {l \in Place : l.price \in DOMAIN lv[l.side] /\ l.index \in DOMAIN lv[l.side][l.price]}

LiveSpots(lv) == {l \in Spots(lv) : Live(At(lv, l))}

OrderOf(lv, l) ==
  [eid |-> At(lv, l).eid, side |-> l.side, price |-> l.price, qty |-> At(lv, l).qty]

Orders(lv) == {OrderOf(lv, l) : l \in LiveSpots(lv)}

Exact(lv, lk) ==
  /\ DOMAIN lk = {At(lv, l).eid : l \in LiveSpots(lv)}
  /\ \A l \in LiveSpots(lv) : lk[At(lv, l).eid] = l

(* A place is given by its side, its price and its index. *)
LEMMA PlaceFields ==
  /\ \A side \in EngineSides, p \in Nat, i \in Nat \ {0} :
       LET l == [side |-> side, price |-> p, index |-> i]
       IN  l \in Place /\ l.side = side /\ l.price = p /\ l.index = i
  /\ \A l \in Place : /\ l.side \in EngineSides /\ l.price \in Nat /\ l.index \in Nat \ {0}
                      /\ l = [side |-> l.side, price |-> l.price, index |-> l.index]
BY DEF Place

(* Every place holds an entry of a sorted level. *)
LEMMA EntryTypes ==
  ASSUME NEW n \in Nat, NEW lv, LevelsInv(lv, n), NEW l \in Spots(lv)
  PROVE  /\ l \in Place /\ l.side \in EngineSides /\ l.price \in DOMAIN lv[l.side] /\ l.price \in Nat
         /\ LevelInv(lv[l.side][l.price], n)
         /\ l.index \in DOMAIN lv[l.side][l.price]
         /\ At(lv, l) \in Entry /\ At(lv, l).eid < n
         /\ At(lv, l).eid \in Nat \ {0} /\ At(lv, l).qty \in Nat /\ At(lv, l).dead \in BOOLEAN
         /\ Live(At(lv, l)) => At(lv, l).qty > 0
<1>1. /\ l \in Place /\ l.side \in EngineSides /\ l.price \in DOMAIN lv[l.side]
      /\ l.index \in DOMAIN lv[l.side][l.price]
  BY PlaceFields DEF Spots
<1>2. LevelInv(lv[l.side][l.price], n) /\ l.price \in Nat
  BY <1>1 DEF LevelsInv, SideInv
<1>. DEFINE orders == lv[l.side][l.price]
<1>3. At(lv, l) = orders[l.index]
  BY DEF At
<1>. HIDE DEF orders
<1>4. LevelInv(orders, n) /\ l.index \in DOMAIN orders
  BY <1>1, <1>2 DEF orders
<1>5. orders[l.index] \in Entry /\ orders[l.index].eid < n
      /\ (Live(orders[l.index]) => orders[l.index].qty > 0)
  BY <1>4 DEF LevelInv
<1>6. At(lv, l) \in Entry
  BY <1>3, <1>5
<1>. QED  BY <1>1, <1>2, <1>3, <1>5, <1>6 DEF Entry

(* Every index of a level is a place. *)
LEMMA SpotAt ==
  ASSUME NEW n \in Nat, NEW lv, LevelsInv(lv, n), NEW side \in EngineSides,
         NEW p \in DOMAIN lv[side], NEW i \in DOMAIN lv[side][p]
  PROVE  LET l == [side |-> side, price |-> p, index |-> i]
         IN  /\ l \in Spots(lv) /\ At(lv, l) = lv[side][p][i]
             /\ l.side = side /\ l.price = p /\ l.index = i
<1>1. p \in Nat /\ lv[side][p] \in Seq(Entry)
  BY DEF LevelsInv, SideInv, LevelInv
<1>2. i \in Nat \ {0}
  BY <1>1
<1>. QED  BY <1>1, <1>2, PlaceFields DEF Spots, At

(* The definitions of OrderBook in terms of places of lv. *)
LEMMA PlacesAreSpots ==
  ASSUME NEW n \in Nat, LevelsInv(levels, n)
  PROVE  /\ Places = Spots(levels) /\ LivePlaces = LiveSpots(levels)
         /\ LiveOrders = Orders(levels)
         /\ LookupExact <=> Exact(levels, lookup)
<1>1. Places \subseteq Spots(levels)
  <2>1. SUFFICES ASSUME NEW side \in EngineSides, NEW p \in DOMAIN levels[side],
                        NEW i \in DOMAIN levels[side][p]
                 PROVE  [side |-> side, price |-> p, index |-> i] \in Spots(levels)
    BY DEF Places
  <2>. QED  BY SpotAt
<1>2. Spots(levels) \subseteq Places
  <2>1. SUFFICES ASSUME NEW l \in Spots(levels)
                 PROVE  l \in Places
    OBVIOUS
  <2>2. /\ l.side \in EngineSides /\ l.price \in DOMAIN levels[l.side]
        /\ l.index \in DOMAIN levels[l.side][l.price]
        /\ l = [side |-> l.side, price |-> l.price, index |-> l.index]
    BY PlaceFields DEF Spots
  <2>. QED  BY <2>2 DEF Places
<1>3. Places = Spots(levels)
  BY <1>1, <1>2
<1>4. \A l : EntryAt(l) = At(levels, l)
  BY DEF EntryAt, At
<1>5. LivePlaces = LiveSpots(levels)
  BY <1>3, <1>4 DEF LivePlaces, LiveSpots
<1>6. LiveOrders = Orders(levels)
  BY <1>4, <1>5 DEF LiveOrders, Orders, OrderOf
<1>. QED  BY <1>3, <1>4, <1>5, <1>6 DEF LookupExact, Exact

(* And in the next state. *)
LEMMA PlacesAreSpotsNext ==
  ASSUME NEW n \in Nat, LevelsInv(levels', n)
  PROVE  /\ Places' = Spots(levels') /\ LivePlaces' = LiveSpots(levels')
         /\ LiveOrders' = Orders(levels')
         /\ LookupExact' <=> Exact(levels', lookup')
<1>1. Places' \subseteq Spots(levels')
  <2>1. SUFFICES ASSUME NEW side \in EngineSides, NEW p \in DOMAIN levels'[side],
                        NEW i \in DOMAIN levels'[side][p]
                 PROVE  [side |-> side, price |-> p, index |-> i] \in Spots(levels')
    BY DEF Places
  <2>. QED  BY SpotAt
<1>2. Spots(levels') \subseteq Places'
  <2>1. SUFFICES ASSUME NEW l \in Spots(levels')
                 PROVE  l \in Places'
    OBVIOUS
  <2>2. /\ l.side \in EngineSides /\ l.price \in DOMAIN levels'[l.side]
        /\ l.index \in DOMAIN levels'[l.side][l.price]
        /\ l = [side |-> l.side, price |-> l.price, index |-> l.index]
    BY PlaceFields DEF Spots
  <2>. QED  BY <2>2 DEF Places
<1>3. Places' = Spots(levels')
  BY <1>1, <1>2
<1>4. \A l : EntryAt(l)' = At(levels', l)
  BY DEF EntryAt, At
<1>5. LivePlaces' = LiveSpots(levels')
  BY <1>3, <1>4 DEF LivePlaces, LiveSpots, EntryAt, At
<1>6. LiveOrders' = Orders(levels')
  BY <1>5 DEF LiveOrders, Orders, OrderOf, EntryAt, At
<1>. QED  BY <1>3, <1>5, <1>6 DEF LookupExact, Exact, EntryAt, At

(* No two live orders have the same id. *)
LEMMA LiveIdsDiffer ==
  ASSUME NEW lv, NEW lk, Exact(lv, lk), NEW k \in LiveSpots(lv), NEW l \in LiveSpots(lv),
         At(lv, k).eid = At(lv, l).eid
  PROVE  k = l
BY DEF Exact
-----------------------------------------------------------------------------
(* Levels with another entry at place l. *)
WithEntry(lv, l, x) ==
  [lv EXCEPT ![l.side] =
    [lv[l.side] EXCEPT ![l.price] = [lv[l.side][l.price] EXCEPT ![l.index] = x]]]

(* An entry that keeps its id can be replaced in a level. *)
LEMMA ReplacedInLevel ==
  ASSUME NEW n \in Nat, NEW orders, LevelInv(orders, n), NEW i \in DOMAIN orders,
         NEW x \in Entry, x.eid = orders[i].eid, Live(x) => x.qty > 0
  PROVE  /\ LevelInv([orders EXCEPT ![i] = x], n)
         /\ DOMAIN [orders EXCEPT ![i] = x] = DOMAIN orders
         /\ \A j \in DOMAIN orders :
              [orders EXCEPT ![i] = x][j] = IF j = i THEN x ELSE orders[j]
<1>1. orders \in Seq(Entry)
  BY DEF LevelInv
<1>. DEFINE new == [orders EXCEPT ![i] = x]
<1>2. /\ new \in Seq(Entry) /\ DOMAIN new = DOMAIN orders
      /\ \A j \in DOMAIN orders : new[j] = IF j = i THEN x ELSE orders[j]
  BY <1>1
<1>. HIDE DEF new
<1>3. \A j \in DOMAIN orders : new[j].eid = orders[j].eid
  BY <1>2
<1>4. \A j \in DOMAIN new : new[j].eid < n /\ (Live(new[j]) => new[j].qty > 0)
  BY <1>2, <1>3 DEF LevelInv
<1>5. \A j, k \in DOMAIN new : j < k => new[j].eid < new[k].eid
  BY <1>2, <1>3 DEF LevelInv
<1>. QED  BY <1>2, <1>4, <1>5 DEF LevelInv, new

(* Levels with a tombstone at place l. *)
Dead(lv, l) == [lv EXCEPT ![l.side][l.price][l.index].dead = TRUE]

(* Two assignments to one place. *)
LEMMA EntryTwice ==
  ASSUME NEW n \in Nat, NEW lv, LevelsInv(lv, n), NEW l \in Spots(lv), NEW y
  PROVE  /\ Dead(WithEntry(lv, l, y), l) = WithEntry(lv, l, [y EXCEPT !.dead = TRUE])
         /\ At(WithEntry(lv, l, y), l) = y
<1>1. /\ l.side \in EngineSides /\ l.price \in DOMAIN lv[l.side]
      /\ LevelInv(lv[l.side][l.price], n) /\ l.index \in DOMAIN lv[l.side][l.price]
  BY EntryTypes
<1>. DEFINE s == l.side
            p == l.price
            i == l.index
            map == lv[s]
            vector == map[p]
            v2 == [vector EXCEPT ![i] = y]
            m2 == [map EXCEPT ![p] = v2]
            new == [lv EXCEPT ![s] = m2]
            x == [y EXCEPT !.dead = TRUE]
<1>2. /\ lv = [side \in EngineSides |-> lv[side]] /\ map = [a \in DOMAIN map |-> map[a]]
      /\ vector = [a \in DOMAIN vector |-> vector[a]]
  <2>1. lv = [side \in EngineSides |-> lv[side]] /\ map = [a \in DOMAIN map |-> map[a]]
    BY <1>1 DEF LevelsInv, SideInv
  <2>2. vector \in Seq(Entry)
    BY <1>1 DEF LevelInv
  <2>. HIDE DEF vector
  <2>3. vector = [a \in DOMAIN vector |-> vector[a]]
    BY <2>2
  <2>. QED  BY <2>1, <2>3
<1>. HIDE DEF vector
<1>3. v2[i] = y /\ [v2 EXCEPT ![i] = x] = [vector EXCEPT ![i] = x]
  BY <1>1, <1>2 DEF vector
<1>. HIDE DEF v2, map
<1>4. m2[p] = v2 /\ \A w : [m2 EXCEPT ![p] = w] = [map EXCEPT ![p] = w]
  BY <1>1, <1>2 DEF map
<1>. HIDE DEF m2
<1>5. new[s] = m2 /\ \A w : [new EXCEPT ![s] = w] = [lv EXCEPT ![s] = w]
  BY <1>1, <1>2
<1>6. WithEntry(lv, l, y) = new
  BY DEF WithEntry, m2, v2, vector, map
<1>. HIDE DEF new
<1>7. new[s][p][i] = y
  BY <1>3, <1>4, <1>5
<1>8. [new EXCEPT ![s][p][i].dead = TRUE]
        = [new EXCEPT ![s] = [new[s] EXCEPT ![p] = [new[s][p] EXCEPT ![i] = [new[s][p][i] EXCEPT !.dead = TRUE]]]]
  OBVIOUS
<1>9. @ = [lv EXCEPT ![s] = [map EXCEPT ![p] = [vector EXCEPT ![i] = x]]]
  BY <1>3, <1>4, <1>5, <1>7
<1>10. @ = WithEntry(lv, l, x)
  BY DEF WithEntry, vector, map
<1>. HIDE DEF x
<1>11. [WithEntry(lv, l, y) EXCEPT ![s][p][i].dead = TRUE] = WithEntry(lv, l, x)
  BY <1>6, <1>8, <1>9, <1>10
<1>. QED  BY <1>6, <1>7, <1>11 DEF x, Dead, At

(* Replacing an entry by one with the same id changes nothing else. *)
LEMMA SetEntry ==
  ASSUME NEW n \in Nat, NEW lv, LevelsInv(lv, n), NEW l \in Spots(lv),
         NEW x \in Entry, x.eid = At(lv, l).eid, Live(x) => x.qty > 0
  PROVE  /\ LevelsInv(WithEntry(lv, l, x), n)
         /\ Spots(WithEntry(lv, l, x)) = Spots(lv)
         /\ \A k \in Spots(lv) : At(WithEntry(lv, l, x), k) = IF k = l THEN x ELSE At(lv, k)
<1>1. /\ l \in Place /\ l.side \in EngineSides /\ l.price \in DOMAIN lv[l.side] /\ l.price \in Nat
      /\ LevelInv(lv[l.side][l.price], n) /\ l.index \in DOMAIN lv[l.side][l.price]
      /\ At(lv, l) = lv[l.side][l.price][l.index]
  BY EntryTypes DEF At
<1>. DEFINE old == lv[l.side]
            vector == [old[l.price] EXCEPT ![l.index] = x]
            map == [old EXCEPT ![l.price] = vector]
            new == WithEntry(lv, l, x)
<1>2. /\ lv = [side \in EngineSides |-> lv[side]] /\ SideInv(old, n)
      /\ \A side \in EngineSides : SideInv(lv[side], n)
  BY <1>1 DEF LevelsInv
<1>3. new = [lv EXCEPT ![l.side] = map]
  BY DEF WithEntry
<1>4. /\ LevelInv(vector, n) /\ DOMAIN vector = DOMAIN old[l.price]
      /\ \A j \in DOMAIN vector : vector[j] = IF j = l.index THEN x ELSE old[l.price][j]
  BY <1>1, ReplacedInLevel
<1>. HIDE DEF vector, new
<1>5. /\ map = [p \in DOMAIN old |-> IF p = l.price THEN vector ELSE old[p]]
  BY <1>2 DEF SideInv
<1>. HIDE DEF map
<1>6. SideInv(map, n)
  BY <1>2, <1>4, <1>5 DEF SideInv
<1>7. new = [side \in EngineSides |-> IF side = l.side THEN map ELSE lv[side]]
  BY <1>2, <1>3
<1>8. LevelsInv(new, n)
  BY <1>2, <1>6, <1>7 DEF LevelsInv
<1>9. Spots(new) = Spots(lv)
  <2>1. \A side \in EngineSides : DOMAIN new[side] = DOMAIN lv[side]
    BY <1>5, <1>7
  <2>2. \A side \in EngineSides : \A p \in DOMAIN lv[side] : DOMAIN new[side][p] = DOMAIN lv[side][p]
    BY <1>4, <1>5, <1>7
  <2>. QED  BY <2>1, <2>2, PlaceFields DEF Spots
<1>10. ASSUME NEW k \in Spots(lv)
       PROVE  At(new, k) = IF k = l THEN x ELSE At(lv, k)
  <2>1. /\ k.side \in EngineSides /\ k.price \in DOMAIN lv[k.side]
        /\ k.index \in DOMAIN lv[k.side][k.price] /\ k \in Place
    BY EntryTypes
  <2>2. k = l <=> k.side = l.side /\ k.price = l.price /\ k.index = l.index
    BY <1>1, <2>1, PlaceFields
  <2>3. CASE k.side = l.side /\ k.price = l.price
    <3>1. At(new, k) = vector[k.index]
      BY <1>1, <1>5, <1>7, <2>1, <2>3 DEF At
    <3>2. k.index \in DOMAIN vector
      BY <1>4, <2>1, <2>3
    <3>. QED  BY <1>4, <2>2, <2>3, <3>1, <3>2 DEF At
  <2>4. CASE ~(k.side = l.side /\ k.price = l.price)
    <3>1. new[k.side][k.price] = lv[k.side][k.price]
      BY <1>5, <1>7, <2>1, <2>4
    <3>. QED  BY <2>2, <2>4, <3>1 DEF At
  <2>. QED  BY <2>3, <2>4
<1>. QED  BY <1>8, <1>9, <1>10 DEF new

(* A tombstone takes one place from the live ones; the lookup without its id
   is exact again. *)
LEMMA Tombstone ==
  ASSUME NEW n \in Nat, NEW lv, LevelsInv(lv, n), NEW l \in LiveSpots(lv), NEW lk, Exact(lv, lk),
         NEW x \in Entry, x.eid = At(lv, l).eid, x.dead
  PROVE  LET new == WithEntry(lv, l, x)
             left == [id \in DOMAIN lk \ {x.eid} |-> lk[id]]
         IN  /\ LevelsInv(new, n) /\ Spots(new) = Spots(lv)
             /\ LiveSpots(new) = LiveSpots(lv) \ {l}
             /\ Orders(new) = Orders(lv) \ {OrderOf(lv, l)}
             /\ Exact(new, left) /\ DOMAIN left = DOMAIN lk \ {x.eid} /\ x.eid \in DOMAIN lk
<1>. DEFINE new == WithEntry(lv, l, x)
            left == [id \in DOMAIN lk \ {x.eid} |-> lk[id]]
<1>0. l \in Spots(lv) /\ Live(At(lv, l)) /\ ~Live(x)
  BY DEF LiveSpots, Live
<1>1. /\ LevelsInv(new, n) /\ Spots(new) = Spots(lv)
      /\ \A k \in Spots(lv) : At(new, k) = IF k = l THEN x ELSE At(lv, k)
  BY <1>0, SetEntry
<1>. HIDE DEF new
<1>2. LiveSpots(new) = LiveSpots(lv) \ {l}
  BY <1>0, <1>1 DEF LiveSpots
<1>3. \A k \in LiveSpots(new) : At(new, k) = At(lv, k) /\ OrderOf(new, k) = OrderOf(lv, k)
  <2>1. \A k \in LiveSpots(new) : k \in Spots(lv) /\ k # l
    BY <1>2 DEF LiveSpots
  <2>. QED  BY <1>1, <2>1 DEF OrderOf
<1>4. \A k \in LiveSpots(lv) : At(lv, k).eid = x.eid => k = l
  BY LiveIdsDiffer
<1>5. Orders(new) = Orders(lv) \ {OrderOf(lv, l)}
  <2>1. Orders(new) = {OrderOf(lv, k) : k \in LiveSpots(lv) \ {l}}
    BY <1>2, <1>3 DEF Orders
  <2>2. \A k \in LiveSpots(lv) : OrderOf(lv, k) = OrderOf(lv, l) => k = l
    BY <1>4 DEF OrderOf
  <2>. QED  BY <2>1, <2>2 DEF Orders
<1>6. DOMAIN lk = {At(lv, k).eid : k \in LiveSpots(lv)} /\ \A k \in LiveSpots(lv) : lk[At(lv, k).eid] = k
  BY DEF Exact
<1>7. DOMAIN left = {At(new, k).eid : k \in LiveSpots(new)}
  BY <1>2, <1>3, <1>4, <1>6
<1>8. \A k \in LiveSpots(new) : left[At(new, k).eid] = k
  BY <1>2, <1>3, <1>4, <1>6
<1>9. x.eid \in DOMAIN lk
  BY <1>6
<1>. QED  BY <1>1, <1>2, <1>5, <1>7, <1>8, <1>9 DEF Exact, new

(* A fill that leaves something changes one quantity. *)
LEMMA PartFill ==
  ASSUME NEW n \in Nat, NEW lv, LevelsInv(lv, n), NEW l \in LiveSpots(lv), NEW lk, Exact(lv, lk),
         NEW x \in Entry, x.eid = At(lv, l).eid, Live(x), x.qty > 0
  PROVE  LET new == WithEntry(lv, l, x)
         IN  /\ LevelsInv(new, n) /\ Spots(new) = Spots(lv) /\ LiveSpots(new) = LiveSpots(lv)
             /\ Orders(new) = (Orders(lv) \ {OrderOf(lv, l)})
                                \cup {[OrderOf(lv, l) EXCEPT !.qty = x.qty]}
             /\ Exact(new, lk)
             /\ \A k \in Spots(lv) : At(new, k) = IF k = l THEN x ELSE At(lv, k)
<1>. DEFINE new == WithEntry(lv, l, x)
<1>0. l \in Spots(lv) /\ Live(At(lv, l))
  BY DEF LiveSpots
<1>1. /\ LevelsInv(new, n) /\ Spots(new) = Spots(lv)
      /\ \A k \in Spots(lv) : At(new, k) = IF k = l THEN x ELSE At(lv, k)
  BY <1>0, SetEntry
<1>. HIDE DEF new
<1>2. LiveSpots(new) = LiveSpots(lv) /\ LiveSpots(lv) \subseteq Spots(lv)
  BY <1>0, <1>1 DEF LiveSpots
<1>3. \A k \in LiveSpots(new) : /\ At(new, k).eid = At(lv, k).eid
                                /\ k # l => OrderOf(new, k) = OrderOf(lv, k)
  BY <1>1, <1>2 DEF OrderOf
<1>4. OrderOf(new, l) = [OrderOf(lv, l) EXCEPT !.qty = x.qty]
  BY <1>0, <1>1 DEF OrderOf
<1>5. Orders(new) = (Orders(lv) \ {OrderOf(lv, l)}) \cup {[OrderOf(lv, l) EXCEPT !.qty = x.qty]}
  <2>1. \A k \in LiveSpots(lv) : OrderOf(lv, k) = OrderOf(lv, l) => k = l
    BY LiveIdsDiffer DEF OrderOf
  <2>. QED  BY <1>2, <1>3, <1>4, <2>1 DEF Orders
<1>6. Exact(new, lk)
  BY <1>2, <1>3 DEF Exact
<1>. QED  BY <1>1, <1>2, <1>5, <1>6 DEF new
-----------------------------------------------------------------------------
(* FirstLive finds the oldest live order of a level. *)
LEMMA FirstLiveIs ==
  ASSUME NEW n \in Nat, NEW orders, LevelInv(orders, n)
  PROVE  /\ FirstLive(orders) = 0 <=> \A j \in DOMAIN orders : ~Live(orders[j])
         /\ FirstLive(orders) # 0 =>
              /\ FirstLive(orders) \in DOMAIN orders /\ Live(orders[FirstLive(orders)])
              /\ \A j \in DOMAIN orders : Live(orders[j]) /\ j # FirstLive(orders) =>
                   orders[FirstLive(orders)].eid < orders[j].eid
<1>. DEFINE live == {i \in DOMAIN orders : Live(orders[i])}
<1>1. DOMAIN orders = 1..Len(orders) /\ Len(orders) \in Nat /\ live \subseteq Nat
  BY DEF LevelInv
<1>2. FirstLive(orders) = IF live = {} THEN 0 ELSE Min(live)
  BY DEF FirstLive
<1>3. CASE live = {}
  BY <1>2, <1>3
<1>4. CASE live # {}
  <2>. DEFINE i == Min(live)
  <2>1. i \in live /\ \A j \in live : i <= j
    <3>. HIDE DEF live
    <3>. QED  BY <1>1, <1>4, MinOf
  <2>2. FirstLive(orders) = i
    BY <1>2, <1>4
  <2>. HIDE DEF i
  <2>3. i \in DOMAIN orders /\ Live(orders[i]) /\ i # 0
    BY <1>1, <2>1
  <2>4. \A j \in DOMAIN orders : Live(orders[j]) /\ j # i => i < j
    BY <1>1, <2>1
  <2>5. \A j \in DOMAIN orders : Live(orders[j]) /\ j # i => orders[i].eid < orders[j].eid
    BY <2>3, <2>4 DEF LevelInv
  <2>. QED  BY <2>2, <2>3, <2>5
<1>. QED  BY <1>3, <1>4

(* Compaction leaves exactly the live orders, at new places. *)
LEMMA CompactionMoves ==
  ASSUME NEW n \in Nat, NEW lv, LevelsInv(lv, n)
  PROVE  LET new == CompactedLevels(lv)
         IN  /\ LevelsInv(new, n) /\ LiveSpots(new) = Spots(new)
             /\ \A k \in Spots(new) : \E l \in LiveSpots(lv) :
                  At(new, k) = At(lv, l) /\ k.side = l.side /\ k.price = l.price
             /\ \A l \in LiveSpots(lv) : \E k \in Spots(new) :
                  At(new, k) = At(lv, l) /\ k.side = l.side /\ k.price = l.price
<1>. DEFINE new == CompactedLevels(lv)
            Lasting(side) == {p \in DOMAIN lv[side] : FirstLive(lv[side][p]) # 0}
<1>1. \A side \in EngineSides : \A p \in DOMAIN lv[side] : LevelInv(lv[side][p], n) /\ p \in Nat
  BY DEF LevelsInv, SideInv
<1>2. new = [side \in EngineSides |-> [p \in Lasting(side) |-> Kept(lv[side][p])]]
  BY DEF CompactedLevels
<1>3. \A side \in EngineSides : DOMAIN new[side] = Lasting(side) /\ Lasting(side) \subseteq DOMAIN lv[side]
  BY <1>2
<1>4. \A side \in EngineSides : \A p \in Lasting(side) : new[side][p] = Kept(lv[side][p])
  BY <1>2
<1>5. LevelsInv(new, n)
  <2>1. new = [side \in EngineSides |-> new[side]]
    BY <1>2
  <2>2. ASSUME NEW side \in EngineSides
        PROVE  SideInv(new[side], n)
    <3>1. new[side] = [p \in DOMAIN new[side] |-> new[side][p]]
      BY <1>2
    <3>2. IsFiniteSet(DOMAIN new[side])
      <4>1. IsFiniteSet(DOMAIN lv[side])
        BY DEF LevelsInv, SideInv
      <4>. QED  BY <1>3, <4>1, FS_Subset
    <3>3. \A p \in DOMAIN new[side] : p \in Nat /\ LevelInv(new[side][p], n)
      <4>. HIDE DEF new, Lasting
      <4>. QED  BY <1>1, <1>3, <1>4, KeptCompacts
    <3>. HIDE DEF new, Lasting
    <3>. QED  BY <3>1, <3>2, <3>3 DEF SideInv
  <2>. HIDE DEF new, Lasting
  <2>. QED  BY <2>1, <2>2 DEF LevelsInv
<1>. HIDE DEF new
<1>6. ASSUME NEW k \in Spots(new)
      PROVE  \E l \in LiveSpots(lv) :
               At(new, k) = At(lv, l) /\ k.side = l.side /\ k.price = l.price
  <2>1. /\ k.side \in EngineSides /\ k.price \in DOMAIN new[k.side]
        /\ k.index \in DOMAIN new[k.side][k.price]
    BY <1>5, EntryTypes
  <2>. DEFINE orders == lv[k.side][k.price]
  <2>2. k.price \in DOMAIN lv[k.side] /\ new[k.side][k.price] = Kept(orders) /\ LevelInv(orders, n)
    BY <1>1, <1>3, <1>4, <2>1
  <2>3. PICK j \in DOMAIN orders : Live(orders[j]) /\ Kept(orders)[k.index] = orders[j]
    <3>. HIDE DEF orders
    <3>. QED  BY <2>1, <2>2, KeptCompacts
  <2>. DEFINE l == [side |-> k.side, price |-> k.price, index |-> j]
  <2>4. l \in Spots(lv) /\ At(lv, l) = orders[j] /\ l.side = k.side /\ l.price = k.price
    BY <2>1, <2>2, SpotAt
  <2>5. At(new, k) = orders[j]
    BY <2>2, <2>3 DEF At
  <2>. HIDE DEF orders, l
  <2>. QED  BY <2>3, <2>4, <2>5 DEF LiveSpots
<1>7. ASSUME NEW l \in LiveSpots(lv)
      PROVE  \E k \in Spots(new) :
               At(new, k) = At(lv, l) /\ k.side = l.side /\ k.price = l.price
  <2>1. /\ l.side \in EngineSides /\ l.price \in DOMAIN lv[l.side]
        /\ l.index \in DOMAIN lv[l.side][l.price] /\ Live(At(lv, l))
    BY EntryTypes DEF LiveSpots
  <2>. DEFINE orders == lv[l.side][l.price]
  <2>2. LevelInv(orders, n) /\ orders[l.index] = At(lv, l)
    BY <1>1, <2>1 DEF At
  <2>3. l.price \in Lasting(l.side) /\ new[l.side][l.price] = Kept(orders)
    <3>1. FirstLive(orders) # 0
      <4>. HIDE DEF orders
      <4>1. l.index \in DOMAIN orders
        BY <2>1 DEF orders
      <4>. QED  BY <2>1, <2>2, <4>1, FirstLiveIs
    <3>. QED  BY <1>4, <2>1, <3>1
  <2>4. PICK a \in DOMAIN Kept(orders) : Kept(orders)[a] = orders[l.index]
    <3>1. l.index \in DOMAIN orders /\ Live(orders[l.index])
      BY <2>1, <2>2
    <3>. HIDE DEF orders
    <3>. QED  BY <2>2, <3>1, KeptCompacts
  <2>. DEFINE k == [side |-> l.side, price |-> l.price, index |-> a]
  <2>5. k \in Spots(new) /\ At(new, k) = Kept(orders)[a] /\ k.side = l.side /\ k.price = l.price
    <3>1. l.price \in DOMAIN new[l.side] /\ a \in DOMAIN new[l.side][l.price]
      BY <1>3, <2>1, <2>3, <2>4
    <3>. HIDE DEF orders
    <3>. QED  BY <1>5, <2>1, <2>3, <3>1, SpotAt
  <2>. HIDE DEF orders, k
  <2>. QED  BY <2>2, <2>4, <2>5
<1>8. LiveSpots(new) = Spots(new)
  <2>1. \A k \in Spots(new) : Live(At(new, k))
    BY <1>6 DEF LiveSpots
  <2>. QED  BY <2>1 DEF LiveSpots
<1>. QED  BY <1>5, <1>6, <1>7, <1>8 DEF new

(* The second loop gives every order its new place. *)
LEMMA CompactionExact ==
  ASSUME NEW n \in Nat, NEW lv, LevelsInv(lv, n), NEW lk, Exact(lv, lk)
  PROVE  LET new == CompactedLevels(lv)
         IN  /\ Exact(new, CompactedLookup(new, lk))
             /\ DOMAIN CompactedLookup(new, lk) = DOMAIN lk
             /\ Orders(new) = Orders(lv)
<1>. DEFINE new == CompactedLevels(lv)
            moved == CompactedLookup(new, lk)
<1>1. /\ LevelsInv(new, n) /\ LiveSpots(new) = Spots(new)
      /\ \A k \in Spots(new) : \E l \in LiveSpots(lv) :
           At(new, k) = At(lv, l) /\ k.side = l.side /\ k.price = l.price
      /\ \A l \in LiveSpots(lv) : \E k \in Spots(new) :
           At(new, k) = At(lv, l) /\ k.side = l.side /\ k.price = l.price
  BY CompactionMoves
<1>. HIDE DEF new
<1>2. Orders(new) = Orders(lv)
  BY <1>1 DEF Orders, OrderOf
<1>3. /\ DOMAIN lk = {At(lv, l).eid : l \in LiveSpots(lv)}
      /\ \A l \in LiveSpots(lv) : lk[At(lv, l).eid] = l
  BY DEF Exact
<1>4. DOMAIN moved = DOMAIN lk
  BY DEF CompactedLookup
<1>5. DOMAIN moved = {At(new, k).eid : k \in LiveSpots(new)}
  BY <1>1, <1>3, <1>4
<1>6. ASSUME NEW k \in LiveSpots(new)
      PROVE  moved[At(new, k).eid] = k
  <2>1. PICK l \in LiveSpots(lv) : At(new, k) = At(lv, l) /\ k.side = l.side /\ k.price = l.price
    BY <1>1
  <2>. DEFINE id == At(new, k).eid
              orders == new[k.side][k.price]
  <2>2. id \in DOMAIN lk /\ lk[id] = l
    BY <1>3, <2>1
  <2>3. k \in Place /\ LevelInv(orders, n) /\ k.index \in DOMAIN orders /\ orders[k.index].eid = id
    BY <1>1, EntryTypes DEF At
  <2>4. l \in Place
    BY EntryTypes DEF LiveSpots
  <2>5. \A i \in DOMAIN orders : orders[i].eid = id => i = k.index
    <3>. HIDE DEF orders, id
    <3>0. orders \in Seq(Entry) /\ DOMAIN orders = 1..Len(orders) /\ Len(orders) \in Nat
      BY <2>3 DEF LevelInv
    <3>1. \A i \in DOMAIN orders : i \in Nat /\ orders[i].eid \in Nat
      <4>1. \A i \in DOMAIN orders : orders[i] \in Entry
        BY <3>0
      <4>2. \A x \in Entry : x.eid \in Nat
        BY DEF Entry
      <4>. QED  BY <3>0, <4>1, <4>2
    <3>2. \A i \in DOMAIN orders : i < k.index \/ i > k.index \/ i = k.index
      BY <2>3, <3>1
    <3>. QED  BY <2>3, <3>1, <3>2 DEF LevelInv
  <2>6. (CHOOSE i \in DOMAIN orders : orders[i].eid = id) = k.index
    <3>. HIDE DEF orders, id
    <3>. QED  BY <2>3, <2>5
  <2>7. moved[id] = [l EXCEPT !.index = k.index]
    BY <2>1, <2>2, <2>6 DEF CompactedLookup
  <2>8. [l EXCEPT !.index = k.index] = k
    BY <2>1, <2>3, <2>4, PlaceFields DEF Place
  <2>. QED  BY <2>7, <2>8
<1>. QED  BY <1>2, <1>4, <1>5, <1>6 DEF Exact, new
-----------------------------------------------------------------------------
(* The counters t and d, for any levels and lookup. *)
Counted(lv, lk, t, d) ==
  /\ t \in Nat /\ d \in Nat
  /\ IsFiniteSet(DOMAIN lk) /\ t - d = Cardinality(DOMAIN lk)
  /\ IsFiniteSet(Spots(lv) \ LiveSpots(lv)) /\ Cardinality(Spots(lv) \ LiveSpots(lv)) <= d
  /\ 4 * d <= 3 * t

(* The invariant, for any levels, lookup and counters. *)
Structure(lv, lk, t, d, n) ==
  /\ LevelsInv(lv, n)
  /\ lk = [id \in DOMAIN lk |-> lk[id]]
  /\ Exact(lv, lk)
  /\ Counted(lv, lk, t, d)

(* Marking place l of lv2 gives lv with the tombstone x there. *)
Marks(lv2, lv, l, x) ==
  /\ Dead(lv2, l) = WithEntry(lv, l, x)
  /\ At(lv2, l).eid = x.eid
  /\ x \in Entry /\ x.eid = At(lv, l).eid /\ x.dead

(* mark_order_deleted takes one live order away, whether the book is compacted
   or not. *)
LEMMA MarkDeleted ==
  ASSUME NEW n \in Nat, NEW lv, Structure(lv, lookup, total, deleted, n), NEW l \in LiveSpots(lv),
         NEW lv2, NEW x, Marks(lv2, lv, l, x),
         MarkOrderDeleted(lv2, l.side, l.price, l.index)
  PROVE  /\ Structure(levels', lookup', total', deleted', n)
         /\ Orders(levels') = Orders(lv) \ {OrderOf(lv, l)}
<1>0. LevelsInv(lv, n) /\ Exact(lv, lookup) /\ Counted(lv, lookup, total, deleted)
  BY DEF Structure
<1>. DEFINE marked == WithEntry(lv, l, x)
            left == [id \in DOMAIN lookup \ {x.eid} |-> lookup[id]]
            compacted == CompactedLevels(marked)
<1>1. l \in Spots(lv) /\ At(lv, l) \in Entry
  BY <1>0, EntryTypes DEF LiveSpots
<1>2. x \in Entry /\ x.eid = At(lv, l).eid /\ x.dead
  BY DEF Marks
<1>3. [lv2 EXCEPT ![l.side][l.price][l.index].dead = TRUE] = marked
  BY DEF Marks, Dead
<1>4. lv2[l.side][l.price][l.index].eid = x.eid
  BY DEF Marks, At
<1>5. /\ LevelsInv(marked, n) /\ Spots(marked) = Spots(lv)
      /\ LiveSpots(marked) = LiveSpots(lv) \ {l}
      /\ Orders(marked) = Orders(lv) \ {OrderOf(lv, l)}
      /\ Exact(marked, left) /\ DOMAIN left = DOMAIN lookup \ {x.eid} /\ x.eid \in DOMAIN lookup
  BY <1>0, <1>2, Tombstone
<1>6. IF CompactionDue(deleted + 1, total)
      THEN /\ levels' = compacted /\ lookup' = CompactedLookup(compacted, left)
           /\ total' = total - (deleted + 1) /\ deleted' = 0
      ELSE /\ levels' = marked /\ lookup' = left
           /\ total' = total /\ deleted' = deleted + 1
  BY <1>3, <1>4 DEF MarkOrderDeleted
<1>7. left = [id \in DOMAIN left |-> left[id]]
  OBVIOUS
<1>. HIDE DEF marked, left
<1>8. IsFiniteSet(DOMAIN left) /\ Cardinality(DOMAIN left) = Cardinality(DOMAIN lookup) - 1
      /\ Cardinality(DOMAIN left) \in Nat /\ Cardinality(DOMAIN lookup) \in Nat
  BY <1>0, <1>5, FS_RemoveElement, FS_CardinalityType DEF Counted
<1>9. total \in Nat /\ deleted \in Nat /\ total - deleted = Cardinality(DOMAIN lookup)
  BY <1>0 DEF Counted
<1>10. CASE CompactionDue(deleted + 1, total)
  <2>1. /\ levels' = compacted /\ lookup' = CompactedLookup(compacted, left)
        /\ total' = total - (deleted + 1) /\ deleted' = 0
    BY <1>6, <1>10
  <2>2. LevelsInv(compacted, n) /\ LiveSpots(compacted) = Spots(compacted)
    BY <1>5, CompactionMoves
  <2>3. /\ Exact(compacted, CompactedLookup(compacted, left))
        /\ DOMAIN CompactedLookup(compacted, left) = DOMAIN left
        /\ Orders(compacted) = Orders(marked)
    BY <1>5, CompactionExact
  <2>4. CompactedLookup(compacted, left)
          = [id \in DOMAIN CompactedLookup(compacted, left) |-> CompactedLookup(compacted, left)[id]]
    BY DEF CompactedLookup
  <2>5. Spots(compacted) \ LiveSpots(compacted) = {}
    BY <2>2
  <2>6. IsFiniteSet({}) /\ Cardinality({}) = 0
    BY FS_EmptySet
  <2>. HIDE DEF compacted
  <2>7. Counted(levels', lookup', total', deleted')
    <3>1. total' \in Nat /\ deleted' \in Nat /\ total' - deleted' = Cardinality(DOMAIN left)
          /\ 4 * deleted' <= 3 * total'
      BY <1>8, <1>9, <2>1
    <3>2. DOMAIN lookup' = DOMAIN left /\ Spots(levels') \ LiveSpots(levels') = {}
      BY <2>1, <2>3, <2>5
    <3>3. Cardinality({}) <= deleted'
      BY <2>1, <2>6
    <3>. QED  BY <1>8, <2>6, <3>1, <3>2, <3>3 DEF Counted
  <2>. QED  BY <1>5, <2>1, <2>2, <2>3, <2>4, <2>7 DEF Structure
<1>11. CASE ~CompactionDue(deleted + 1, total)
  <2>1. levels' = marked /\ lookup' = left /\ total' = total /\ deleted' = deleted + 1
    BY <1>6, <1>11
  <2>2. 4 * (deleted + 1) <= 3 * total
    BY <1>9, <1>11 DEF CompactionDue
  <2>. DEFINE dead == Spots(lv) \ LiveSpots(lv)
  <2>3. Spots(marked) \ LiveSpots(marked) = dead \cup {l} /\ l \notin dead
    BY <1>1, <1>5
  <2>4. IsFiniteSet(dead) /\ Cardinality(dead) <= deleted /\ Cardinality(dead) \in Nat
    BY <1>0, FS_CardinalityType DEF Counted
  <2>. HIDE DEF dead
  <2>5. IsFiniteSet(dead \cup {l}) /\ Cardinality(dead \cup {l}) = Cardinality(dead) + 1
    BY <2>3, <2>4, FS_AddElement
  <2>6. Counted(levels', lookup', total', deleted')
    <3>1. /\ total' \in Nat /\ deleted' \in Nat /\ total' - deleted' = Cardinality(DOMAIN lookup')
          /\ 4 * deleted' <= 3 * total' /\ IsFiniteSet(DOMAIN lookup')
      BY <1>8, <1>9, <2>1, <2>2
    <3>2. Spots(levels') \ LiveSpots(levels') = dead \cup {l}
      BY <2>1, <2>3
    <3>3. Cardinality(dead \cup {l}) <= deleted'
      BY <1>9, <2>1, <2>4, <2>5
    <3>. QED  BY <2>5, <3>1, <3>2, <3>3 DEF Counted
  <2>. QED  BY <1>5, <1>7, <2>1, <2>6 DEF Structure
<1>. QED  BY <1>10, <1>11

(* Levels without the one at price p of a side. *)
WithoutLevel(lv, side, p) ==
  [lv EXCEPT ![side] = [x \in DOMAIN lv[side] \ {p} |-> lv[side][x]]]

(* A level of nothing but tombstones can be erased. *)
LEMMA Erased ==
  ASSUME NEW n \in Nat, NEW lv, NEW lk, NEW t, NEW d, Structure(lv, lk, t, d, n),
         NEW side \in EngineSides, NEW p \in DOMAIN lv[side], FirstLive(lv[side][p]) = 0
  PROVE  /\ Structure(WithoutLevel(lv, side, p), lk, t, d, n)
         /\ Orders(WithoutLevel(lv, side, p)) = Orders(lv)
<1>. DEFINE map == [x \in DOMAIN lv[side] \ {p} |-> lv[side][x]]
            new == [lv EXCEPT ![side] = map]
<1>0. /\ LevelsInv(lv, n) /\ Exact(lv, lk) /\ Counted(lv, lk, t, d)
      /\ lv = [s \in EngineSides |-> lv[s]] /\ \A s \in EngineSides : SideInv(lv[s], n)
  BY DEF Structure, LevelsInv
<1>1. SideInv(map, n)
  <2>1. DOMAIN map = DOMAIN lv[side] \ {p} /\ \A x \in DOMAIN map : map[x] = lv[side][x]
    OBVIOUS
  <2>2. IsFiniteSet(DOMAIN map)
    BY <1>0, <2>1, FS_RemoveElement DEF SideInv
  <2>3. map = [x \in DOMAIN map |-> map[x]]
    OBVIOUS
  <2>. HIDE DEF map
  <2>. QED  BY <1>0, <2>1, <2>2, <2>3 DEF SideInv
<1>2. new = [s \in EngineSides |-> IF s = side THEN map ELSE lv[s]]
  BY <1>0
<1>3. DOMAIN map = DOMAIN lv[side] \ {p} /\ \A x \in DOMAIN map : map[x] = lv[side][x]
  OBVIOUS
<1>. HIDE DEF map, new
<1>4. LevelsInv(new, n)
  BY <1>0, <1>1, <1>2 DEF LevelsInv
<1>5. Spots(new) = {l \in Spots(lv) : ~(l.side = side /\ l.price = p)}
  <2>1. \A l \in Place : l.side \in EngineSides
    BY PlaceFields
  <2>2. ASSUME NEW l \in Place
        PROVE  l \in Spots(new) <=> l \in Spots(lv) /\ ~(l.side = side /\ l.price = p)
    <3>1. CASE l.side = side
      BY <1>2, <1>3, <3>1 DEF Spots
    <3>2. CASE l.side # side
      BY <1>2, <2>1, <3>2 DEF Spots
    <3>. QED  BY <3>1, <3>2
  <2>3. Spots(new) \subseteq Place /\ Spots(lv) \subseteq Place
    BY DEF Spots
  <2>. QED  BY <2>2, <2>3
<1>6. \A l \in Spots(new) : At(new, l) = At(lv, l)
  <2>1. \A l \in Spots(new) : l.side \in EngineSides /\ l.price \in DOMAIN new[l.side]
    BY <1>4, EntryTypes
  <2>. QED  BY <1>2, <1>3, <2>1 DEF At
<1>7. \A l \in Spots(lv) : l.side = side /\ l.price = p => ~Live(At(lv, l))
  <2>1. LevelInv(lv[side][p], n)
    BY <1>0 DEF SideInv
  <2>2. \A j \in DOMAIN lv[side][p] : ~Live(lv[side][p][j])
    BY <2>1, FirstLiveIs
  <2>. QED  BY <2>2 DEF Spots, At
<1>8. LiveSpots(new) = LiveSpots(lv)
  BY <1>5, <1>6, <1>7 DEF LiveSpots
<1>9. \A l \in LiveSpots(lv) : At(new, l) = At(lv, l)
  BY <1>6, <1>8 DEF LiveSpots
<1>10. Orders(new) = Orders(lv) /\ Exact(new, lk)
  BY <1>0, <1>8, <1>9 DEF Orders, OrderOf, Exact
<1>11. Counted(new, lk, t, d)
  <2>1. Spots(new) \ LiveSpots(new) \in SUBSET (Spots(lv) \ LiveSpots(lv))
    BY <1>5, <1>8
  <2>2. /\ IsFiniteSet(Spots(lv) \ LiveSpots(lv)) /\ Cardinality(Spots(lv) \ LiveSpots(lv)) <= d
        /\ d \in Nat /\ Cardinality(Spots(lv) \ LiveSpots(lv)) \in Nat
    BY <1>0, FS_CardinalityType DEF Counted
  <2>3. /\ IsFiniteSet(Spots(new) \ LiveSpots(new))
        /\ Cardinality(Spots(new) \ LiveSpots(new)) <= Cardinality(Spots(lv) \ LiveSpots(lv))
        /\ Cardinality(Spots(new) \ LiveSpots(new)) \in Nat
    BY <2>1, <2>2, FS_Subset, FS_CardinalityType
  <2>4. Cardinality(Spots(new) \ LiveSpots(new)) <= d
    BY <2>2, <2>3
  <2>. QED  BY <1>0, <2>3, <2>4 DEF Counted
<1>. QED  BY <1>4, <1>10, <1>11 DEF Structure, new, map, WithoutLevel

(* A younger order joins the back of a level, which may be new. *)
LEMMA AddedToLevel ==
  ASSUME NEW n \in Nat \ {0}, NEW orders, LevelInv(orders, n), NEW q \in Nat \ {0}
  PROVE  LET e == [eid |-> n, qty |-> q, dead |-> FALSE]
             added == Append(orders, e)
         IN  /\ LevelInv(added, n + 1) /\ Len(added) = Len(orders) + 1 /\ Len(orders) \in Nat
             /\ DOMAIN added = DOMAIN orders \cup {Len(added)} /\ Len(added) \notin DOMAIN orders
             /\ added[Len(added)] = e /\ \A i \in DOMAIN orders : added[i] = orders[i]
             /\ e \in Entry /\ Live(e)
<1>. DEFINE e == [eid |-> n, qty |-> q, dead |-> FALSE]
            added == Append(orders, e)
<1>1. orders \in Seq(Entry) /\ e \in Entry /\ Live(e) /\ e.eid = n /\ e.qty = q
  BY DEF LevelInv, Entry, Live
<1>. HIDE DEF e
<1>2. /\ added \in Seq(Entry) /\ Len(added) = Len(orders) + 1 /\ Len(orders) \in Nat
      /\ DOMAIN added = 1..(Len(orders) + 1) /\ DOMAIN orders = 1..Len(orders)
      /\ added[Len(orders) + 1] = e /\ \A i \in 1..Len(orders) : added[i] = orders[i]
  BY <1>1
<1>. HIDE DEF added
<1>3. \A i \in DOMAIN added : i = Len(orders) + 1 \/ i \in DOMAIN orders
  BY <1>2
<1>4. DOMAIN added = DOMAIN orders \cup {Len(added)} /\ Len(added) \notin DOMAIN orders
  BY <1>2
<1>5. \A i \in DOMAIN orders : orders[i] \in Entry /\ orders[i].eid < n
                               /\ (Live(orders[i]) => orders[i].qty > 0)
  BY DEF LevelInv
<1>6. \A i \in DOMAIN orders : orders[i].eid \in Nat
  BY <1>5 DEF Entry
<1>7. \A i \in DOMAIN added : added[i].eid < n + 1 /\ (Live(added[i]) => added[i].qty > 0)
  BY <1>1, <1>2, <1>3, <1>5, <1>6
<1>8. ASSUME NEW i \in DOMAIN added, NEW j \in DOMAIN added, i < j
      PROVE  added[i].eid < added[j].eid
  <2>1. i \in DOMAIN orders
    BY <1>2, <1>8
  <2>2. CASE j = Len(orders) + 1
    BY <1>1, <1>2, <1>5, <2>1, <2>2
  <2>3. CASE j \in DOMAIN orders
    BY <1>2, <1>8, <2>1, <2>3 DEF LevelInv
  <2>. QED  BY <1>3, <2>2, <2>3
<1>. QED  BY <1>1, <1>2, <1>4, <1>7, <1>8 DEF LevelInv, added, e

(* A bound on the ids can be raised. *)
LEMMA LevelOlder ==
  ASSUME NEW n \in Nat, NEW orders, LevelInv(orders, n)
  PROVE  LevelInv(orders, n + 1)
<1>1. \A i \in DOMAIN orders : orders[i] \in Entry
  BY DEF LevelInv
<1>2. \A i \in DOMAIN orders : orders[i].eid \in Nat
  BY <1>1 DEF Entry
<1>. QED  BY <1>2 DEF LevelInv

(* And for all levels. *)
LEMMA LevelsOlder ==
  ASSUME NEW n \in Nat, NEW lv, LevelsInv(lv, n)
  PROVE  LevelsInv(lv, n + 1)
BY LevelOlder DEF LevelsInv, SideInv

(* One place more, and it is live; the lookup leads there. *)
Joins(lv, lk, new, found, l0, n) ==
  /\ Spots(new) = Spots(lv) \cup {l0} /\ l0 \notin Spots(lv)
  /\ \A l \in Spots(lv) : At(new, l) = At(lv, l)
  /\ Live(At(new, l0)) /\ At(new, l0).eid = n
  /\ DOMAIN found = DOMAIN lk \cup {n} /\ found[n] = l0
  /\ \A id \in DOMAIN lk : id # n => found[id] = lk[id]

(* What changes for the orders and the lookup. *)
LEMMA OneMore ==
  ASSUME NEW n \in Nat, NEW lv, LevelsInv(lv, n), NEW lk, Exact(lv, lk), NEW new, NEW found,
         NEW l0, Joins(lv, lk, new, found, l0, n)
  PROVE  /\ Spots(new) \ LiveSpots(new) = Spots(lv) \ LiveSpots(lv)
         /\ Orders(new) = Orders(lv) \cup {OrderOf(new, l0)}
         /\ Exact(new, found) /\ n \notin DOMAIN lk
<1>0. /\ Spots(new) = Spots(lv) \cup {l0} /\ l0 \notin Spots(lv)
      /\ \A l \in Spots(lv) : At(new, l) = At(lv, l)
      /\ Live(At(new, l0)) /\ At(new, l0).eid = n
      /\ DOMAIN found = DOMAIN lk \cup {n} /\ found[n] = l0
      /\ \A id \in DOMAIN lk : id # n => found[id] = lk[id]
  BY DEF Joins
<1>1. LiveSpots(new) = LiveSpots(lv) \cup {l0} /\ l0 \notin LiveSpots(lv)
  BY <1>0 DEF LiveSpots
<1>2. \A l \in LiveSpots(lv) : At(new, l) = At(lv, l) /\ At(lv, l).eid # n
  <2>1. \A l \in LiveSpots(lv) : l \in Spots(lv)
    BY DEF LiveSpots
  <2>2. \A l \in Spots(lv) : At(lv, l).eid < n /\ At(lv, l).eid \in Nat
    BY EntryTypes
  <2>. QED  BY <1>0, <2>1, <2>2
<1>3. Orders(new) = Orders(lv) \cup {OrderOf(new, l0)}
  <2>1. \A l \in LiveSpots(lv) : OrderOf(new, l) = OrderOf(lv, l)
    BY <1>2 DEF OrderOf
  <2>. QED  BY <1>1, <2>1 DEF Orders
<1>4. DOMAIN lk = {At(lv, l).eid : l \in LiveSpots(lv)} /\ \A l \in LiveSpots(lv) : lk[At(lv, l).eid] = l
  BY DEF Exact
<1>5. DOMAIN found = {At(new, l).eid : l \in LiveSpots(new)}
  BY <1>0, <1>1, <1>2, <1>4
<1>6. \A l \in LiveSpots(new) : found[At(new, l).eid] = l
  BY <1>0, <1>1, <1>2, <1>4
<1>7. n \notin DOMAIN lk
  BY <1>2, <1>4
<1>8. Spots(new) \ LiveSpots(new) = Spots(lv) \ LiveSpots(lv)
  BY <1>0, <1>1
<1>. QED  BY <1>3, <1>5, <1>6, <1>7, <1>8 DEF Exact

(* The level at price p of a side with order n at its back, the levels with it,
   and the lookup that leads to it. *)
Behind(lv, side, p, n, q) ==
  Append(IF p \in DOMAIN lv[side] THEN lv[side][p] ELSE <<>>,
         [eid |-> n, qty |-> q, dead |-> FALSE])

WithOrder(lv, side, p, n, q) ==
  [lv EXCEPT ![side] = [x \in DOMAIN lv[side] \cup {p} |->
                          IF x = p THEN Behind(lv, side, p, n, q) ELSE lv[side][x]]]

WithPlace(lv, lk, side, p, n, q) ==
  [id \in DOMAIN lk \cup {n} |->
     IF id = n THEN [side |-> side, price |-> p, index |-> Len(Behind(lv, side, p, n, q))]
     ELSE lk[id]]

(* An order that rests is the one live order more, and the lookup finds it. *)
LEMMA Rested ==
  ASSUME NEW n \in Nat \ {0}, NEW lv, NEW lk, NEW t, NEW d, Structure(lv, lk, t, d, n),
         NEW side \in EngineSides, NEW p \in Nat, NEW q \in Nat \ {0}
  PROVE  /\ Structure(WithOrder(lv, side, p, n, q), WithPlace(lv, lk, side, p, n, q), t + 1, d, n + 1)
         /\ Orders(WithOrder(lv, side, p, n, q))
              = Orders(lv) \cup {[eid |-> n, side |-> side, price |-> p, qty |-> q]}
<1>. DEFINE orders == IF p \in DOMAIN lv[side] THEN lv[side][p] ELSE <<>>
            e == [eid |-> n, qty |-> q, dead |-> FALSE]
            added == Append(orders, e)
            l0 == [side |-> side, price |-> p, index |-> Len(added)]
            map == [x \in DOMAIN lv[side] \cup {p} |-> IF x = p THEN added ELSE lv[side][x]]
            new == [lv EXCEPT ![side] = map]
            found == [id \in DOMAIN lk \cup {n} |-> IF id = n THEN l0 ELSE lk[id]]
<1>0. /\ LevelsInv(lv, n) /\ Exact(lv, lk) /\ Counted(lv, lk, t, d)
      /\ lv = [s \in EngineSides |-> lv[s]] /\ \A s \in EngineSides : SideInv(lv[s], n)
  BY DEF Structure, LevelsInv
<1>1. LevelInv(orders, n)
  <2>1. LevelInv(<<>>, n)
    BY DEF LevelInv
  <2>2. \A x \in DOMAIN lv[side] : LevelInv(lv[side][x], n)
    BY <1>0 DEF SideInv
  <2>. QED  BY <2>1, <2>2
<1>2. /\ LevelInv(added, n + 1) /\ Len(added) = Len(orders) + 1 /\ Len(orders) \in Nat
      /\ DOMAIN added = DOMAIN orders \cup {Len(added)} /\ Len(added) \notin DOMAIN orders
      /\ added[Len(added)] = e /\ \A i \in DOMAIN orders : added[i] = orders[i]
      /\ e \in Entry /\ Live(e)
  <2>. HIDE DEF orders
  <2>. QED  BY <1>1, AddedToLevel
<1>3. e.eid = n /\ e.qty = q
  OBVIOUS
<1>4. p \in DOMAIN lv[side] => orders = lv[side][p]
  OBVIOUS
<1>5. p \notin DOMAIN lv[side] => DOMAIN orders = {}
  OBVIOUS
<1>. HIDE DEF orders, e, added
<1>6. /\ DOMAIN map = DOMAIN lv[side] \cup {p} /\ map[p] = added
      /\ \A x \in DOMAIN lv[side] : x # p => map[x] = lv[side][x]
      /\ map = [x \in DOMAIN map |-> map[x]]
  OBVIOUS
<1>. HIDE DEF map
<1>7. new = [s \in EngineSides |-> IF s = side THEN map ELSE lv[s]]
  BY <1>0
<1>8. DOMAIN found = DOMAIN lk \cup {n} /\ found[n] = l0 /\ \A id \in DOMAIN lk : id # n => found[id] = lk[id]
  OBVIOUS
<1>9. found = [id \in DOMAIN found |-> found[id]]
  OBVIOUS
<1>. HIDE DEF new, found
<1>10. LevelsInv(new, n + 1)
  <2>1. SideInv(map, n + 1)
    <3>1. IsFiniteSet(DOMAIN map)
      BY <1>0, <1>6, FS_AddElement DEF SideInv
    <3>2. \A x \in DOMAIN map : x \in Nat /\ LevelInv(map[x], n + 1)
      BY <1>0, <1>2, <1>6, LevelOlder DEF SideInv
    <3>. QED  BY <1>6, <3>1, <3>2 DEF SideInv
  <2>2. \A s \in EngineSides : SideInv(lv[s], n + 1)
    BY <1>0, LevelsOlder DEF LevelsInv
  <2>. QED  BY <1>7, <2>1, <2>2 DEF LevelsInv
<1>11. l0 \in Place /\ l0.side = side /\ l0.price = p /\ l0.index = Len(added)
  <2>1. Len(added) \in Nat \ {0}
    BY <1>2
  <2>. QED  BY <2>1, PlaceFields
<1>. HIDE DEF l0
<1>12. ASSUME NEW l \in Place
       PROVE  /\ l \in Spots(new) <=> l = l0 \/ l \in Spots(lv)
              /\ l \in Spots(lv) => l # l0 /\ At(new, l) = At(lv, l)
  <2>0. l.side \in EngineSides
    BY PlaceFields
  <2>1. CASE l.side # side
    BY <1>7, <1>11, <2>0, <2>1 DEF Spots, At
  <2>2. CASE l.side = side /\ l.price # p
    BY <1>6, <1>7, <1>11, <2>2 DEF Spots, At
  <2>3. CASE l.side = side /\ l.price = p
    <3>1. new[side] = map /\ p \in DOMAIN new[side] /\ new[side][p] = added
      BY <1>6, <1>7
    <3>2. l \in Spots(new) <=> l.index \in DOMAIN added
      BY <2>3, <3>1 DEF Spots
    <3>3. l \in Spots(lv) <=> l.index \in DOMAIN orders
      BY <1>4, <1>5, <2>3 DEF Spots
    <3>4. l = l0 <=> l.index = Len(added)
      BY <1>11, <2>3, PlaceFields
    <3>5. l \in Spots(lv) => At(lv, l) = orders[l.index] /\ At(new, l) = added[l.index]
      BY <1>4, <2>3, <3>1 DEF At, Spots
    <3>. QED  BY <1>2, <3>2, <3>3, <3>4, <3>5
  <2>. QED  BY <2>1, <2>2, <2>3
<1>13. Spots(new) = Spots(lv) \cup {l0} /\ l0 \notin Spots(lv)
       /\ \A l \in Spots(lv) : At(new, l) = At(lv, l)
  <2>1. Spots(new) \subseteq Place /\ Spots(lv) \subseteq Place
    BY DEF Spots
  <2>. QED  BY <1>11, <1>12, <2>1
<1>14. At(new, l0) = e
  BY <1>2, <1>6, <1>7, <1>11 DEF At
<1>15. OrderOf(new, l0) = [eid |-> n, side |-> side, price |-> p, qty |-> q]
  BY <1>3, <1>11, <1>14 DEF OrderOf
<1>16. /\ Spots(new) \ LiveSpots(new) = Spots(lv) \ LiveSpots(lv)
       /\ Orders(new) = Orders(lv) \cup {OrderOf(new, l0)}
       /\ Exact(new, found) /\ n \notin DOMAIN lk
  <2>1. Joins(lv, lk, new, found, l0, n)
    BY <1>2, <1>3, <1>8, <1>13, <1>14 DEF Joins
  <2>. QED  BY <1>0, <2>1, OneMore
<1>17. Counted(new, found, t + 1, d)
  <2>1. IsFiniteSet(DOMAIN found) /\ Cardinality(DOMAIN found) = Cardinality(DOMAIN lk) + 1
        /\ Cardinality(DOMAIN lk) \in Nat
    <3>1. IsFiniteSet(DOMAIN lk)
      BY <1>0 DEF Counted
    <3>. QED  BY <1>8, <1>16, <3>1, FS_AddElement, FS_CardinalityType
  <2>2. t \in Nat /\ d \in Nat /\ t - d = Cardinality(DOMAIN lk) /\ 4 * d <= 3 * t
    BY <1>0 DEF Counted
  <2>3. t + 1 \in Nat /\ (t + 1) - d = Cardinality(DOMAIN found) /\ 4 * d <= 3 * (t + 1)
    BY <2>1, <2>2
  <2>. QED  BY <1>0, <1>16, <2>1, <2>2, <2>3 DEF Counted
<1>18. Structure(new, found, t + 1, d, n + 1)
  BY <1>9, <1>10, <1>16, <1>17 DEF Structure
<1>19. Orders(new) = Orders(lv) \cup {[eid |-> n, side |-> side, price |-> p, qty |-> q]}
  BY <1>15, <1>16
<1>. QED  BY <1>18, <1>19 DEF WithOrder, WithPlace, Behind, orders, e, added, map, new, l0, found
-----------------------------------------------------------------------------
(* The matching loop's choice. *)

(* The first live order of the best level is the maker of price-time priority,
   and it decides whether the loop can go on. *)
LEMMA BestMaker ==
  ASSUME NEW n \in Nat, NEW lv, NEW lk, LevelsInv(lv, n), Exact(lv, lk),
         NEW side \in EngineSides, NEW other \in EngineSides, other # side,
         NEW p \in DOMAIN lv[other],
         \A x \in DOMAIN lv[other] : IF side = "buy" THEN p <= x ELSE p >= x,
         FirstLive(lv[other][p]) # 0, NEW limit \in Nat
  PROVE  LET l == [side |-> other, price |-> p, index |-> FirstLive(lv[other][p])]
         IN  /\ l \in LiveSpots(lv) /\ l.side = other /\ l.price = p
             /\ l.index = FirstLive(lv[other][p]) /\ OrderOf(lv, l) \in Orders(lv)
             /\ IsBest(Orders(lv), side, OrderOf(lv, l))
             /\ CanTrade(Orders(lv), side, limit) <=> Crosses(side, limit, OrderOf(lv, l))
<1>. DEFINE i == FirstLive(lv[other][p])
            l == [side |-> other, price |-> p, index |-> i]
            maker == OrderOf(lv, l)
<1>1. LevelInv(lv[other][p], n) /\ p \in Nat
  BY DEF LevelsInv, SideInv
<1>2. /\ i \in DOMAIN lv[other][p] /\ Live(lv[other][p][i])
      /\ \A j \in DOMAIN lv[other][p] :
           Live(lv[other][p][j]) /\ j # i => lv[other][p][i].eid < lv[other][p][j].eid
  BY <1>1, FirstLiveIs
<1>. HIDE DEF i
<1>3. /\ l \in Spots(lv) /\ At(lv, l) = lv[other][p][i] /\ l.side = other /\ l.price = p /\ l.index = i
  BY <1>2, SpotAt
<1>4. l \in LiveSpots(lv)
  BY <1>2, <1>3 DEF LiveSpots
<1>. HIDE DEF l
<1>5. maker \in Orders(lv)
  BY <1>4 DEF Orders
<1>6. maker.side = other /\ maker.price = p /\ maker.eid = At(lv, l).eid
  BY <1>3 DEF OrderOf
<1>7. ASSUME NEW o \in Orders(lv), o.side # side
      PROVE  /\ o.price \in Nat /\ (IF side = "buy" THEN p <= o.price ELSE p >= o.price)
             /\ o # maker => Before(side, maker, o)
  <2>1. PICK k \in LiveSpots(lv) : o = OrderOf(lv, k)
    BY DEF Orders
  <2>2. o.side = k.side /\ o.price = k.price /\ o.eid = At(lv, k).eid
    BY <2>1 DEF OrderOf
  <2>3. /\ k \in Spots(lv) /\ Live(At(lv, k)) /\ k.side \in EngineSides
        /\ k.price \in DOMAIN lv[k.side] /\ k.price \in Nat /\ k.index \in DOMAIN lv[k.side][k.price]
    BY EntryTypes DEF LiveSpots
  <2>4. k.side = other
    BY <1>7, <2>2, <2>3 DEF EngineSides
  <2>5. o.price \in Nat /\ (IF side = "buy" THEN p <= o.price ELSE p >= o.price)
    BY <2>2, <2>3, <2>4
  <2>6. CASE o.price # p
    <3>1. IF side = "buy" THEN p < o.price ELSE p > o.price
      BY <1>1, <2>5, <2>6
    <3>. QED  BY <1>6, <2>5, <3>1 DEF Before, EngineSides
  <2>7. CASE o.price = p
    <3>1. At(lv, k) = lv[other][p][k.index] /\ k.index \in DOMAIN lv[other][p]
      BY <2>2, <2>3, <2>4, <2>7 DEF At
    <3>2. CASE k.index = i
      <4>1. k = l
        <5>1. k \in Place /\ l \in Place
          BY <1>3, <2>3 DEF Spots
        <5>2. k.side = l.side /\ k.price = l.price /\ k.index = l.index
          BY <1>3, <2>2, <2>4, <2>7, <3>2
        <5>. QED  BY <5>1, <5>2, PlaceFields
      <4>. QED  BY <2>1, <2>5, <4>1
    <3>3. CASE k.index # i
      <4>1. At(lv, l).eid < At(lv, k).eid
        BY <1>2, <1>3, <2>3, <3>1, <3>3
      <4>. QED  BY <1>6, <2>2, <2>5, <2>7, <4>1 DEF Before
    <3>. QED  BY <3>2, <3>3
  <2>. QED  BY <2>6, <2>7
<1>. HIDE DEF maker
<1>8. IsBest(Orders(lv), side, maker)
  BY <1>5, <1>6, <1>7 DEF IsBest, Opposite
<1>9. CanTrade(Orders(lv), side, limit) <=> Crosses(side, limit, maker)
  <2>1. Crosses(side, limit, maker) => CanTrade(Orders(lv), side, limit)
    BY <1>5, <1>6 DEF CanTrade, Opposite
  <2>2. ASSUME NEW o \in Orders(lv), o.side # side, Crosses(side, limit, o)
        PROVE  Crosses(side, limit, maker)
    <3>1. o.price \in Nat /\ (IF side = "buy" THEN p <= o.price ELSE p >= o.price)
      BY <1>7, <2>2
    <3>. QED  BY <1>1, <1>6, <2>2, <3>1 DEF Crosses
  <2>. QED  BY <2>1, <2>2 DEF CanTrade, Opposite
<1>. QED  BY <1>3, <1>4, <1>5, <1>8, <1>9 DEF l, i, maker

(* BestLevel is the lowest ask for a buy and the highest bid for a sell. *)
LEMMA BestLevelIs ==
  ASSUME NEW n \in Nat, LevelsInv(levels, n), taker \in Resting, DOMAIN OppositeLevels # {}
  PROVE  /\ OppositeSide \in EngineSides /\ OppositeSide # taker.side
         /\ BestLevel \in DOMAIN levels[OppositeSide] /\ BestLevel \in Nat
         /\ \A x \in DOMAIN levels[OppositeSide] :
              IF taker.side = "buy" THEN BestLevel <= x ELSE BestLevel >= x
<1>1. taker.side \in EngineSides
  BY DEF Resting
<1>2. OppositeSide \in EngineSides /\ OppositeSide # taker.side
  BY <1>1 DEF OppositeSide, EngineSides
<1>. DEFINE prices == DOMAIN levels[OppositeSide]
<1>3. prices \subseteq Nat /\ IsFiniteSet(prices) /\ prices # {}
  BY <1>2 DEF LevelsInv, SideInv, OppositeLevels
<1>4. BestLevel = IF taker.side = "buy" THEN Min(prices) ELSE Max(prices)
  BY DEF BestLevel, OppositeLevels
<1>. HIDE DEF prices
<1>5. /\ Min(prices) \in prices /\ \A x \in prices : Min(prices) <= x
      /\ Max(prices) \in prices /\ \A x \in prices : Max(prices) >= x
  BY <1>3, MinOf, MaxOf
<1>6. /\ BestLevel \in prices
      /\ \A x \in prices : IF taker.side = "buy" THEN BestLevel <= x ELSE BestLevel >= x
  BY <1>4, <1>5
<1>. QED  BY <1>2, <1>3, <1>6 DEF prices

(* Without price levels on the other side there is nothing to trade with. *)
LEMMA NothingOpposite ==
  ASSUME NEW n \in Nat, NEW lv, LevelsInv(lv, n), NEW side \in EngineSides,
         NEW other \in EngineSides, other # side, DOMAIN lv[other] = {}, NEW limit
  PROVE  ~CanTrade(Orders(lv), side, limit)
<1>1. SUFFICES ASSUME NEW o \in Orders(lv), o.side # side
               PROVE  FALSE
  BY DEF CanTrade, Opposite
<1>2. PICK k \in LiveSpots(lv) : o = OrderOf(lv, k)
  BY DEF Orders
<1>3. o.side = k.side /\ k.side \in EngineSides /\ k.price \in DOMAIN lv[k.side]
  BY <1>2, EntryTypes DEF OrderOf, LiveSpots
<1>. QED  BY <1>1, <1>3 DEF EngineSides

-----------------------------------------------------------------------------
(* The invariant, in terms of places, before a step and after it. *)
LEMMA InvGives ==
  ASSUME IInv
  PROVE  /\ Newest \in Nat \ {0}
         /\ Structure(levels, lookup, total, deleted, Newest)
         /\ LiveOrders = Orders(levels) /\ Uncrossed(Orders(levels))
         /\ nextId \in Nat \ {0}
         /\ taker = NoTaker => Newest = nextId
         /\ taker # NoTaker => taker \in Resting /\ Newest = taker.eid /\ taker.eid = nextId - 1
<1>1. BookType /\ LevelsInv(levels, Newest) /\ LookupExact /\ Uncrossed(LiveOrders) /\ CountersInv
  BY DEF IInv
<1>2. nextId \in Nat \ {0} /\ (taker # NoTaker => taker \in Resting /\ taker.eid > 0 /\ taker.eid = nextId - 1)
  BY <1>1 DEF BookType
<1>3. taker # NoTaker => taker.eid \in Nat
  BY <1>2 DEF Resting
<1>4. Newest \in Nat \ {0}
  BY <1>2, <1>3 DEF Newest
<1>5. /\ Places = Spots(levels) /\ LivePlaces = LiveSpots(levels)
      /\ LiveOrders = Orders(levels) /\ (LookupExact <=> Exact(levels, lookup))
  BY <1>1, <1>4, PlacesAreSpots
<1>6. Counted(levels, lookup, total, deleted)
  BY <1>1, <1>5 DEF BookType, CountersInv, Counted
<1>7. Structure(levels, lookup, total, deleted, Newest)
  BY <1>1, <1>5, <1>6 DEF BookType, Structure
<1>. QED  BY <1>1, <1>2, <1>4, <1>5, <1>7 DEF Newest

(* And back, for the next state. *)
LEMMA InvFollows ==
  ASSUME NEW n \in Nat, n = Newest', Structure(levels', lookup', total', deleted', n),
         Uncrossed(Orders(levels')), nextId' \in Nat \ {0},
         taker' # NoTaker => taker' \in Resting /\ taker'.eid > 0 /\ taker'.eid = nextId' - 1
  PROVE  IInv' /\ LiveOrders' = Orders(levels')
<1>1. /\ LevelsInv(levels', n) /\ lookup' = [id \in DOMAIN lookup' |-> lookup'[id]]
      /\ Exact(levels', lookup') /\ Counted(levels', lookup', total', deleted')
  BY DEF Structure
<1>2. /\ Places' = Spots(levels') /\ LivePlaces' = LiveSpots(levels')
      /\ LiveOrders' = Orders(levels') /\ (LookupExact' <=> Exact(levels', lookup'))
  BY <1>1, PlacesAreSpotsNext
<1>3. CountersInv'
  BY <1>1, <1>2 DEF CountersInv, Counted
<1>4. BookType'
  BY <1>1 DEF BookType, Counted
<1>5. LookupExact'
  BY <1>1, <1>2
<1>6. LevelsInv(levels', Newest') /\ Uncrossed(LiveOrders')
  BY <1>1, <1>2
<1>. QED  BY <1>2, <1>3, <1>4, <1>5, <1>6 DEF IInv

(* Fewer orders, or smaller ones, cross no more than before. *)
LEMMA StaysUncrossed ==
  ASSUME NEW old, NEW new, Uncrossed(old),
         \A o \in new : \E x \in old : x.side = o.side /\ x.price = o.price
  PROVE  Uncrossed(new)
<1>1. SUFFICES ASSUME NEW b \in new, NEW a \in new, b.side = "buy", a.side = "sell"
               PROVE  b.price < a.price
  BY DEF Uncrossed
<1>2. PICK x \in old : x.side = b.side /\ x.price = b.price
  OBVIOUS
<1>3. PICK y \in old : y.side = a.side /\ y.price = a.price
  OBVIOUS
<1>. QED  BY <1>1, <1>2, <1>3 DEF Uncrossed
-----------------------------------------------------------------------------
(* One lemma per action: it keeps the invariant and is a step of MatchingBook,
   or no step of it. *)

(* MatchingBook's price-time priority is this module's. *)
LEMMA SameRule ==
  ASSUME NEW book, NEW side, NEW limit, NEW maker, NEW q, NEW r
  PROVE  /\ Abstract!CanTrade(book, side, limit) <=> CanTrade(book, side, limit)
         /\ Abstract!IsBest(book, side, maker) <=> IsBest(book, side, maker)
         /\ Abstract!Take(book, maker, q) = Take(book, maker, q)
         /\ Abstract!Least(q, r) = Least(q, r)
<1>1. \A a, b : Abstract!Before(side, a, b) <=> Before(side, a, b)
  BY DEF Before, Abstract!Before
<1>2. \A o : Abstract!Crosses(side, limit, o) <=> Crosses(side, limit, o)
  BY DEF Crosses, Abstract!Crosses
<1>3. Abstract!Opposite(book, side) = Opposite(book, side)
  BY DEF Opposite, Abstract!Opposite
<1>. QED  BY <1>1, <1>2, <1>3
          DEF CanTrade, Abstract!CanTrade, IsBest, Abstract!IsBest, Take, Abstract!Take,
              Least, Abstract!Least

(* A new order arrives. *)
LEMMA AddOrderStep ==
  ASSUME IInv, NEW o \in Submissions, AddOrder(o)
  PROVE  IInv' /\ Abstract!AddOrder(o)
<1>1. /\ Structure(levels, lookup, total, deleted, nextId) /\ LiveOrders = Orders(levels)
      /\ Uncrossed(Orders(levels)) /\ nextId \in Nat \ {0}
  BY InvGives DEF AddOrder
<1>2. o \in [side : EngineSides, price : Nat, qty : Nat \ {0}]
  BY BookAssumption
<1>3. taker' \in Resting /\ taker'.eid = nextId /\ taker' # NoTaker
  <2>1. taker' = [eid |-> nextId, side |-> o.side, price |-> o.price, qty |-> o.qty]
    BY DEF AddOrder
  <2>2. taker' \in Resting
    BY <1>1, <1>2, <2>1 DEF Resting
  <2>. QED  BY <2>1, <2>2, BookAssumption
<1>4. /\ levels' = levels /\ lookup' = lookup /\ total' = total /\ deleted' = deleted
      /\ nextId' = nextId + 1
  BY DEF AddOrder
<1>5. Newest' = nextId
  BY <1>3 DEF Newest
<1>6. IInv' /\ LiveOrders' = Orders(levels')
  <2>1. Structure(levels', lookup', total', deleted', nextId)
    BY <1>1, <1>4
  <2>2. Uncrossed(Orders(levels'))
    BY <1>1, <1>4
  <2>3. nextId' \in Nat \ {0} /\ taker'.eid > 0 /\ taker'.eid = nextId' - 1
    BY <1>1, <1>3, <1>4
  <2>. QED  BY <1>1, <1>3, <1>5, <2>1, <2>2, <2>3, InvFollows
<1>7. LiveOrders' = LiveOrders
  BY <1>1, <1>4, <1>6
<1>. QED  BY <1>6, <1>7 DEF AddOrder, Abstract!AddOrder

(* A level of tombstones goes: MatchingBook sees nothing. *)
LEMMA EraseDeadLevelStep ==
  ASSUME IInv, EraseDeadLevel
  PROVE  IInv' /\ UNCHANGED Abstract!bookVars
<1>1. /\ Structure(levels, lookup, total, deleted, Newest) /\ LiveOrders = Orders(levels)
      /\ Uncrossed(Orders(levels)) /\ nextId \in Nat \ {0} /\ Newest \in Nat \ {0}
      /\ taker \in Resting /\ Newest = taker.eid /\ taker.eid = nextId - 1
      /\ LevelsInv(levels, Newest)
  BY InvGives DEF EraseDeadLevel, Matching, Structure
<1>2. /\ OppositeSide \in EngineSides /\ BestLevel \in DOMAIN levels[OppositeSide]
      /\ FirstLive(levels[OppositeSide][BestLevel]) = 0
  BY <1>1, BestLevelIs DEF EraseDeadLevel, Matching, OppositeLevels
<1>. DEFINE side == OppositeSide
            p == BestLevel
<1>3. levels' = [levels EXCEPT ![side] = [x \in DOMAIN levels[side] \ {p} |-> levels[side][x]]]
  BY DEF EraseDeadLevel
<1>. HIDE DEF side, p
<1>4. side \in EngineSides /\ p \in DOMAIN levels[side] /\ FirstLive(levels[side][p]) = 0
  BY <1>2 DEF side, p
<1>5. Structure(levels', lookup, total, deleted, Newest) /\ Orders(levels') = Orders(levels)
  <2>1. levels' = WithoutLevel(levels, side, p)
    BY <1>3 DEF WithoutLevel
  <2>. QED  BY <1>1, <1>4, <2>1, Erased
<1>6. /\ lookup' = lookup /\ total' = total /\ deleted' = deleted /\ taker' = taker
      /\ nextId' = nextId /\ tape' = tape /\ removed' = removed
  BY DEF EraseDeadLevel
<1>7. Newest' = Newest
  BY <1>6 DEF Newest
<1>8. taker.eid > 0
  BY <1>1
<1>9. IInv' /\ LiveOrders' = Orders(levels')
  BY <1>1, <1>5, <1>6, <1>7, <1>8, InvFollows
<1>. QED  BY <1>1, <1>5, <1>6, <1>9 DEF Abstract!bookVars

(* What is left of an order rests behind the orders of its level. *)
LEMMA RestOrderStep ==
  ASSUME IInv, RestOrder
  PROVE  IInv' /\ Abstract!Rest
<1>1. /\ Structure(levels, lookup, total, deleted, taker.eid) /\ LiveOrders = Orders(levels)
      /\ Uncrossed(Orders(levels)) /\ nextId \in Nat \ {0} /\ taker.eid \in Nat \ {0}
      /\ taker \in Resting /\ taker.eid = nextId - 1 /\ taker # NoTaker
      /\ LevelsInv(levels, taker.eid) /\ Exact(levels, lookup)
  BY InvGives DEF RestOrder, Structure
<1>2. /\ taker.side \in EngineSides /\ taker.price \in Nat /\ taker.qty \in Nat
      /\ taker = [eid |-> taker.eid, side |-> taker.side, price |-> taker.price, qty |-> taker.qty]
  BY <1>1 DEF Resting
<1>3. OppositeSide \in EngineSides /\ OppositeSide # taker.side
  BY <1>2 DEF OppositeSide, EngineSides
<1>4. /\ taker' = NoTaker /\ deleted' = deleted /\ tape' = tape /\ nextId' = nextId /\ removed' = removed
  BY DEF RestOrder
<1>5. Newest' = nextId /\ nextId = taker.eid + 1 /\ nextId \in Nat
  BY <1>1, <1>4 DEF Newest
<1>6. taker.qty > 0 => ~CanTrade(Orders(levels), taker.side, taker.price)
  <2>1. SUFFICES ASSUME taker.qty > 0
                 PROVE  ~CanTrade(Orders(levels), taker.side, taker.price)
    OBVIOUS
  <2>2. CASE DOMAIN OppositeLevels = {}
    BY <1>1, <1>2, <1>3, <2>2, NothingOpposite DEF OppositeLevels
  <2>3. CASE DOMAIN OppositeLevels # {}
    <3>1. FirstLive(OppositeLevels[BestLevel]) # 0 /\ ~TradePossible
      BY <1>1, <2>1, <2>3 DEF RestOrder, Matching
    <3>2. /\ BestLevel \in DOMAIN levels[OppositeSide] /\ BestLevel \in Nat
          /\ \A x \in DOMAIN levels[OppositeSide] :
               IF taker.side = "buy" THEN BestLevel <= x ELSE BestLevel >= x
      BY <1>1, <2>3, BestLevelIs
    <3>. DEFINE l == [side |-> OppositeSide, price |-> BestLevel,
                      index |-> FirstLive(levels[OppositeSide][BestLevel])]
    <3>3. /\ l.price = BestLevel
          /\ CanTrade(Orders(levels), taker.side, taker.price)
               <=> Crosses(taker.side, taker.price, OrderOf(levels, l))
      <4>1. FirstLive(levels[OppositeSide][BestLevel]) # 0
        BY <3>1 DEF OppositeLevels
      <4>. QED  BY <1>1, <1>2, <1>3, <3>2, <4>1, BestMaker
    <3>4. OrderOf(levels, l).price = BestLevel
      BY <3>3 DEF OrderOf
    <3>. HIDE DEF l
    <3>. QED  BY <3>1, <3>3, <3>4 DEF TradePossible, Crosses
  <2>. QED  BY <2>2, <2>3
<1>7. CASE taker.qty = 0
  <2>1. levels' = levels /\ lookup' = lookup /\ total' = total
    BY <1>2, <1>7 DEF RestOrder
  <2>2. Structure(levels', lookup', total', deleted', nextId)
    <3>1. LevelsInv(levels, nextId)
      BY <1>1, <1>5, LevelsOlder
    <3>. QED  BY <1>1, <1>4, <2>1, <3>1 DEF Structure
  <2>3. IInv' /\ LiveOrders' = Orders(levels')
    BY <1>1, <1>4, <1>5, <2>1, <2>2, InvFollows
  <2>4. LiveOrders' = LiveOrders
    BY <1>1, <2>1, <2>3
  <2>. QED  BY <1>1, <1>2, <1>4, <1>7, <2>3, <2>4 DEF Abstract!Rest
<1>8. CASE taker.qty > 0
  <2>1. /\ levels' = WithOrder(levels, taker.side, taker.price, taker.eid, taker.qty)
        /\ lookup' = WithPlace(levels, lookup, taker.side, taker.price, taker.eid, taker.qty)
        /\ total' = total + 1
    BY <1>8 DEF RestOrder, WithOrder, WithPlace, Behind
  <2>2. taker.qty \in Nat \ {0}
    BY <1>2, <1>8
  <2>3. Structure(levels', lookup', total', deleted', nextId) /\ Orders(levels') = Orders(levels) \cup {taker}
    <3>1. /\ Structure(levels', lookup', total', deleted', taker.eid + 1)
          /\ Orders(levels') = Orders(levels)
               \cup {[eid |-> taker.eid, side |-> taker.side, price |-> taker.price, qty |-> taker.qty]}
      <4>1. taker.side \in EngineSides /\ taker.price \in Nat
        BY <1>2
      <4>2. /\ Structure(WithOrder(levels, taker.side, taker.price, taker.eid, taker.qty),
                          WithPlace(levels, lookup, taker.side, taker.price, taker.eid, taker.qty),
                          total + 1, deleted, taker.eid + 1)
            /\ Orders(WithOrder(levels, taker.side, taker.price, taker.eid, taker.qty))
                 = Orders(levels)
                     \cup {[eid |-> taker.eid, side |-> taker.side, price |-> taker.price, qty |-> taker.qty]}
        <5>1. Structure(levels, lookup, total, deleted, taker.eid) /\ taker.eid \in Nat \ {0}
          BY <1>1
        <5>. QED  BY <2>2, <4>1, <5>1, Rested
      <4>. QED  BY <1>4, <2>1, <4>2
    <3>. QED  BY <1>2, <1>5, <3>1
  <2>4. ~CanTrade(Orders(levels), taker.side, taker.price)
    BY <1>6, <1>8
  <2>5. Uncrossed(Orders(levels) \cup {taker})
    <3>1. \A o \in Orders(levels) : o.side # taker.side => ~Crosses(taker.side, taker.price, o)
      BY <2>4 DEF CanTrade, Opposite
    <3>2. \A o \in Orders(levels) : o.price \in Nat
      <4>1. \A k \in LiveSpots(levels) : k.price \in Nat
        BY <1>1, EntryTypes DEF LiveSpots
      <4>. QED  BY <4>1 DEF Orders, OrderOf
    <3>3. ASSUME NEW o \in Orders(levels)
          PROVE  /\ taker.side = "buy" /\ o.side = "sell" => taker.price < o.price
                 /\ taker.side = "sell" /\ o.side = "buy" => o.price < taker.price
      BY <1>2, <3>1, <3>2 DEF Crosses
    <3>4. SUFFICES ASSUME NEW b \in Orders(levels) \cup {taker}, NEW a \in Orders(levels) \cup {taker},
                          b.side = "buy", a.side = "sell"
                   PROVE  b.price < a.price
      BY DEF Uncrossed
    <3>5. CASE b \in Orders(levels) /\ a \in Orders(levels)
      BY <1>1, <3>4, <3>5 DEF Uncrossed
    <3>6. CASE b = taker /\ a \in Orders(levels)
      BY <3>3, <3>4, <3>6
    <3>7. CASE b \in Orders(levels) /\ a = taker
      BY <3>3, <3>4, <3>7
    <3>8. CASE b = taker /\ a = taker
      BY <3>4, <3>8
    <3>. QED  BY <3>5, <3>6, <3>7, <3>8
  <2>6. IInv' /\ LiveOrders' = Orders(levels')
    BY <1>1, <1>4, <1>5, <2>3, <2>5, InvFollows
  <2>7. LiveOrders' = LiveOrders \cup {taker} /\ ~CanTrade(LiveOrders, taker.side, taker.price)
    BY <1>1, <2>3, <2>4, <2>6
  <2>8. Abstract!Rest
    <3>1. taker # NoTaker
      BY <1>1
    <3>. QED  BY <1>4, <1>8, <2>7, <3>1, SameRule DEF Abstract!Rest
  <2>. QED  BY <2>6, <2>8
<1>. QED  BY <1>2, <1>7, <1>8

(* A trade with the first live order of the best level is MatchingBook's trade
   with the best maker. *)
LEMMA ExecuteTradeStep ==
  ASSUME IInv, ExecuteTrade
  PROVE  IInv' /\ Abstract!TradeWithBest
<1>1. /\ Structure(levels, lookup, total, deleted, taker.eid) /\ LiveOrders = Orders(levels)
      /\ Uncrossed(Orders(levels)) /\ nextId \in Nat \ {0} /\ taker.eid \in Nat \ {0}
      /\ taker \in Resting /\ taker.eid = nextId - 1 /\ taker # NoTaker
      /\ LevelsInv(levels, taker.eid) /\ Exact(levels, lookup)
      /\ taker.qty > 0 /\ DOMAIN OppositeLevels # {}
  BY InvGives DEF ExecuteTrade, Matching, Structure
<1>2. taker.side \in EngineSides /\ taker.price \in Nat /\ taker.qty \in Nat
  BY <1>1 DEF Resting
<1>. DEFINE other == OppositeSide
            p == BestLevel
            i == FirstLive(levels[other][p])
            l == [side |-> other, price |-> p, index |-> i]
            maker == OrderOf(levels, l)
            existing == levels[other][p][i]
            q == Least(taker.qty, existing.qty)
            filled == [levels EXCEPT ![other][p][i].qty = @ - q]
<1>3. /\ other \in EngineSides /\ other # taker.side /\ p \in DOMAIN levels[other] /\ p \in Nat
      /\ \A x \in DOMAIN levels[other] : IF taker.side = "buy" THEN p <= x ELSE p >= x
  BY <1>1, BestLevelIs
<1>4. /\ i # 0 /\ TradePossible
      /\ taker' = [taker EXCEPT !.qty = @ - q]
      /\ tape' = Append(tape, [price |-> p, qty |-> q,
                               buy |-> IF taker.side = "buy" THEN taker.eid ELSE existing.eid,
                               sell |-> IF taker.side = "sell" THEN taker.eid ELSE existing.eid])
      /\ IF existing.qty = q
         THEN MarkOrderDeleted(filled, other, p, i)
         ELSE levels' = filled /\ lookup' = lookup /\ total' = total /\ deleted' = deleted
      /\ nextId' = nextId /\ removed' = removed
  BY DEF ExecuteTrade, OppositeLevels
<1>5. TradePossible <=> IF taker.side = "buy" THEN p <= taker.price ELSE p >= taker.price
  BY DEF TradePossible
<1>6. /\ l \in LiveSpots(levels) /\ l.side = other /\ l.price = p /\ l.index = i
      /\ maker \in Orders(levels) /\ IsBest(Orders(levels), taker.side, maker)
      /\ CanTrade(Orders(levels), taker.side, taker.price) <=> Crosses(taker.side, taker.price, maker)
  <2>. HIDE DEF other, p
  <2>. QED  BY <1>1, <1>2, <1>3, <1>4, BestMaker
<1>7. At(levels, l) = existing
  BY <1>6 DEF At
<1>8. existing \in Entry /\ existing.eid \in Nat \ {0} /\ existing.qty \in Nat /\ existing.qty > 0
      /\ existing.dead = FALSE
  <2>1. l \in Spots(levels) /\ Live(At(levels, l))
    BY <1>6 DEF LiveSpots
  <2>2. /\ At(levels, l) \in Entry /\ At(levels, l).eid \in Nat \ {0} /\ At(levels, l).qty \in Nat
        /\ At(levels, l).dead \in BOOLEAN /\ At(levels, l).qty > 0
    BY <1>1, <2>1, EntryTypes
  <2>. HIDE DEF existing, l
  <2>. QED  BY <1>7, <2>1, <2>2 DEF Live
<1>9. /\ maker = [eid |-> existing.eid, side |-> other, price |-> p, qty |-> existing.qty]
      /\ maker.side = other /\ maker.price = p /\ maker.eid = existing.eid /\ maker.qty = existing.qty
  BY <1>6, <1>7 DEF OrderOf
<1>10. filled = WithEntry(levels, l, [existing EXCEPT !.qty = @ - q])
  BY <1>6 DEF WithEntry
<1>. HIDE DEF other, p, i, l, maker, existing, filled
<1>11. q \in Nat /\ q > 0 /\ q <= taker.qty /\ q <= existing.qty
  BY <1>1, <1>2, <1>8 DEF Least
<1>12. q = Least(taker.qty, maker.qty)
  BY <1>9
<1>. HIDE DEF q
<1>13. CanTrade(LiveOrders, taker.side, taker.price)
  BY <1>1, <1>4, <1>5, <1>6, <1>9 DEF Crosses
<1>14. /\ taker' \in Resting /\ taker'.eid = taker.eid /\ taker' # NoTaker
       /\ Newest' = taker.eid
  <2>1. taker' \in Resting /\ taker'.eid = taker.eid
    <3>. DEFINE r == taker.qty - q
    <3>1. r \in Nat /\ taker' = [taker EXCEPT !.qty = r]
      BY <1>2, <1>4, <1>11
    <3>. HIDE DEF r
    <3>. QED  BY <1>1, <3>1 DEF Resting
  <2>. QED  BY <2>1, BookAssumption DEF Newest
<1>15. /\ Structure(levels', lookup', total', deleted', taker.eid)
       /\ Orders(levels') = Take(Orders(levels), maker, q)
  <2>1. CASE existing.qty = q
    <3>. DEFINE y == [existing EXCEPT !.qty = @ - q]
                x == [y EXCEPT !.dead = TRUE]
    <3>1. MarkOrderDeleted(filled, l.side, l.price, l.index)
      BY <1>4, <1>6, <2>1
    <3>2. x \in Entry /\ x.eid = existing.eid /\ x.dead
      <4>. DEFINE r == existing.qty - q
      <4>1. r \in Nat /\ y = [existing EXCEPT !.qty = r]
        BY <1>8, <1>11
      <4>. HIDE DEF r
      <4>. QED  BY <1>8, <4>1 DEF Entry
    <3>3. y.eid = x.eid /\ filled = WithEntry(levels, l, y)
      BY <1>8, <1>10 DEF Entry
    <3>4. Dead(filled, l) = WithEntry(levels, l, x) /\ At(filled, l).eid = x.eid
      <4>. HIDE DEF y
      <4>1. l \in Spots(levels) /\ LevelsInv(levels, taker.eid) /\ taker.eid \in Nat
        BY <1>1, <1>6 DEF LiveSpots
      <4>2. Dead(WithEntry(levels, l, y), l) = WithEntry(levels, l, x) /\ At(WithEntry(levels, l, y), l) = y
        BY <4>1, EntryTwice
      <4>. HIDE DEF x
      <4>. QED  BY <3>3, <4>2
    <3>. HIDE DEF x
    <3>5. Marks(filled, levels, l, x)
      BY <1>7, <3>2, <3>3, <3>4 DEF Marks
    <3>6. /\ Structure(levels', lookup', total', deleted', taker.eid)
          /\ Orders(levels') = Orders(levels) \ {maker}
      <4>1. OrderOf(levels, l) = maker
        BY DEF maker
      <4>. QED  BY <1>1, <1>6, <3>1, <3>5, <4>1, MarkDeleted
    <3>7. Take(Orders(levels), maker, q) = Orders(levels) \ {maker}
      BY <1>9, <2>1 DEF Take
    <3>. QED  BY <3>6, <3>7
  <2>2. CASE existing.qty # q
    <3>. DEFINE x == [existing EXCEPT !.qty = @ - q]
    <3>1. levels' = filled /\ lookup' = lookup /\ total' = total /\ deleted' = deleted
      BY <1>4, <2>2
    <3>2. x \in Entry /\ x.eid = existing.eid /\ Live(x) /\ x.qty = existing.qty - q /\ x.qty > 0
      BY <1>8, <1>11, <2>2 DEF Entry, Live
    <3>3. levels' = WithEntry(levels, l, x)
      BY <1>10, <3>1
    <3>. HIDE DEF x
    <3>4. /\ LevelsInv(levels', taker.eid) /\ Spots(levels') = Spots(levels)
          /\ LiveSpots(levels') = LiveSpots(levels)
          /\ Orders(levels') = (Orders(levels) \ {maker}) \cup {[maker EXCEPT !.qty = x.qty]}
          /\ Exact(levels', lookup)
      <4>1. OrderOf(levels, l) = maker
        BY DEF maker
      <4>. QED  BY <1>1, <1>6, <1>7, <3>2, <3>3, <4>1, PartFill
    <3>5. Structure(levels', lookup', total', deleted', taker.eid)
      BY <1>1, <3>1, <3>4 DEF Structure, Counted
    <3>6. Take(Orders(levels), maker, q) = (Orders(levels) \ {maker}) \cup {[maker EXCEPT !.qty = x.qty]}
      BY <1>9, <2>2, <3>2 DEF Take
    <3>. QED  BY <3>4, <3>5, <3>6
  <2>. QED  BY <2>1, <2>2
<1>16. Uncrossed(Orders(levels'))
  <2>1. \A o \in Orders(levels') : \E y \in Orders(levels) : y.side = o.side /\ y.price = o.price
    BY <1>6, <1>9, <1>15 DEF Take
  <2>. QED  BY <1>1, <2>1, StaysUncrossed
<1>17. IInv' /\ LiveOrders' = Orders(levels')
  <2>1. nextId' \in Nat \ {0} /\ taker'.eid > 0 /\ taker'.eid = nextId' - 1 /\ taker.eid \in Nat
    BY <1>1, <1>4, <1>14
  <2>. QED  BY <1>14, <1>15, <1>16, <2>1, InvFollows
<1>18. tape' = Append(tape, Abstract!TradeOf(taker, maker, q))
  BY <1>4, <1>9 DEF Abstract!TradeOf
<1>19. Abstract!TradeWithBest
  <2>1. /\ maker \in LiveOrders /\ IsBest(LiveOrders, taker.side, maker)
        /\ LiveOrders' = Take(LiveOrders, maker, q)
    BY <1>1, <1>6, <1>15, <1>17
  <2>2. /\ taker # NoTaker /\ taker.qty > 0 /\ nextId' = nextId /\ removed' = removed
        /\ taker' = [taker EXCEPT !.qty = @ - q]
    BY <1>1, <1>4
  <2>3. /\ Abstract!CanTrade(LiveOrders, taker.side, taker.price)
        /\ Abstract!IsBest(LiveOrders, taker.side, maker) /\ q = Abstract!Least(taker.qty, maker.qty)
        /\ LiveOrders' = Abstract!Take(LiveOrders, maker, q)
    BY <1>12, <1>13, <2>1, SameRule
  <2>. QED  BY <1>18, <2>1, <2>2, <2>3 DEF Abstract!TradeWithBest
<1>. QED  BY <1>17, <1>19

(* A removal finds its order through the lookup, or there is none. *)
LEMMA RemoveOrderStep ==
  ASSUME IInv, NEW id \in 1..MaxOrders, RemoveOrder(id)
  PROVE  IInv' /\ Abstract!RemoveOrder(id)
<1>1. /\ Structure(levels, lookup, total, deleted, nextId) /\ LiveOrders = Orders(levels)
      /\ Uncrossed(Orders(levels)) /\ nextId \in Nat \ {0} /\ taker = NoTaker
      /\ LevelsInv(levels, nextId) /\ Exact(levels, lookup)
  BY InvGives DEF RemoveOrder, Structure
<1>2. taker' = taker /\ tape' = tape /\ nextId' = nextId
  BY DEF RemoveOrder
<1>3. Newest' = nextId /\ nextId \in Nat
  BY <1>1, <1>2 DEF Newest
<1>4. DOMAIN lookup = {At(levels, l).eid : l \in LiveSpots(levels)}
      /\ \A l \in LiveSpots(levels) : lookup[At(levels, l).eid] = l
  BY <1>1 DEF Exact
<1>5. \A l \in LiveSpots(levels) : OrderOf(levels, l).eid = At(levels, l).eid
  BY DEF OrderOf
<1>6. (\E o \in LiveOrders : o.eid = id) <=> id \in DOMAIN lookup
  BY <1>1, <1>4, <1>5 DEF Orders
<1>7. CASE id \in DOMAIN lookup
  <2>1. PICK l \in LiveSpots(levels) : At(levels, l).eid = id
    BY <1>4, <1>7
  <2>2. lookup[id] = l
    BY <1>4, <2>1
  <2>3. removed' = TRUE /\ MarkOrderDeleted(levels, l.side, l.price, l.index)
    BY <1>7, <2>2 DEF RemoveOrder
  <2>. DEFINE x == [At(levels, l) EXCEPT !.dead = TRUE]
  <2>4. Marks(levels, levels, l, x)
    <3>1. At(levels, l) \in Entry
      BY <1>1, EntryTypes DEF LiveSpots
    <3>2. x \in Entry /\ x.eid = At(levels, l).eid /\ x.dead
      BY <3>1 DEF Entry
    <3>3. Dead(levels, l) = WithEntry(levels, l, x)
      BY DEF Dead, WithEntry, At
    <3>. HIDE DEF x
    <3>. QED  BY <3>2, <3>3 DEF Marks
  <2>. HIDE DEF x
  <2>5. /\ Structure(levels', lookup', total', deleted', nextId)
        /\ Orders(levels') = Orders(levels) \ {OrderOf(levels, l)}
    BY <1>1, <2>3, <2>4, MarkDeleted
  <2>6. Uncrossed(Orders(levels'))
    BY <1>1, <2>5 DEF Uncrossed
  <2>7. IInv' /\ LiveOrders' = Orders(levels')
    BY <1>1, <1>2, <1>3, <2>5, <2>6, InvFollows
  <2>8. Orders(levels) \ {OrderOf(levels, l)} = {o \in Orders(levels) : o.eid # id}
    <3>1. \A k \in LiveSpots(levels) : At(levels, k).eid = id => k = l
      BY <1>4, <2>2
    <3>. QED  BY <1>5, <2>1, <3>1 DEF Orders
  <2>9. LiveOrders' = {o \in LiveOrders : o.eid # id}
    BY <1>1, <2>5, <2>7, <2>8
  <2>10. removed' = (\E o \in LiveOrders : o.eid = id)
    BY <1>6, <1>7, <2>3
  <2>. QED  BY <1>1, <1>2, <2>7, <2>9, <2>10 DEF Abstract!RemoveOrder
<1>8. CASE id \notin DOMAIN lookup
  <2>1. /\ removed' = FALSE /\ levels' = levels /\ lookup' = lookup
        /\ total' = total /\ deleted' = deleted
    BY <1>8 DEF RemoveOrder
  <2>2. IInv' /\ LiveOrders' = Orders(levels')
    BY <1>1, <1>2, <1>3, <2>1, InvFollows
  <2>3. LiveOrders' = {o \in LiveOrders : o.eid # id}
    <3>1. LiveOrders' = LiveOrders
      BY <1>1, <2>1, <2>2
    <3>2. \A o \in LiveOrders : o.eid # id
      BY <1>6, <1>8
    <3>. QED  BY <3>1, <3>2
  <2>4. removed' = (\E o \in LiveOrders : o.eid = id)
    BY <1>6, <1>8, <2>1
  <2>. QED  BY <1>1, <1>2, <2>2, <2>3, <2>4 DEF Abstract!RemoveOrder
<1>. QED  BY <1>7, <1>8

-----------------------------------------------------------------------------
(* An empty book. *)
LEMMA InitInv ==
  ASSUME Init
  PROVE  IInv /\ Abstract!BookInit
<1>1. /\ levels = [side \in EngineSides |-> <<>>] /\ lookup = <<>> /\ total = 0 /\ deleted = 0
      /\ taker = NoTaker /\ nextId = 1 /\ tape = <<>> /\ removed = FALSE
  BY DEF Init
<1>2. DOMAIN <<>> = {} /\ <<>> = [x \in DOMAIN <<>> |-> <<>>[x]]
  OBVIOUS
<1>3. IsFiniteSet({}) /\ Cardinality({}) = 0
  BY FS_EmptySet
<1>4. LevelsInv(levels, 1)
  <2>1. SideInv(<<>>, 1)
    BY <1>2, <1>3 DEF SideInv
  <2>. QED  BY <1>1, <2>1 DEF LevelsInv
<1>5. Newest = 1
  BY <1>1 DEF Newest
<1>6. /\ Places = Spots(levels) /\ LivePlaces = LiveSpots(levels)
      /\ LiveOrders = Orders(levels) /\ (LookupExact <=> Exact(levels, lookup))
  BY <1>4, PlacesAreSpots
<1>7. Spots(levels) = {}
  <2>1. \A side \in EngineSides : DOMAIN levels[side] = {}
    BY <1>1, <1>2
  <2>2. \A l \in Place : l.side \in EngineSides
    BY PlaceFields
  <2>. QED  BY <2>1, <2>2 DEF Spots
<1>8. LiveSpots(levels) = {} /\ Orders(levels) = {}
  BY <1>7 DEF LiveSpots, Orders
<1>9. LookupExact
  <2>1. DOMAIN lookup = {}
    BY <1>1, <1>2
  <2>. QED  BY <1>6, <1>8, <2>1 DEF Exact
<1>10. CountersInv
  <2>1. DOMAIN lookup = {} /\ Places \ LivePlaces = {}
    BY <1>1, <1>2, <1>6, <1>7
  <2>2. total = 0 /\ deleted = 0
    BY <1>1
  <2>3. IsFiniteSet(DOMAIN lookup) /\ Cardinality(DOMAIN lookup) = 0
    BY <1>3, <2>1, Zenon
  <2>4. IsFiniteSet(Places \ LivePlaces) /\ Cardinality(Places \ LivePlaces) = 0
    BY <1>3, <2>1, Zenon
  <2>. QED  BY <2>2, <2>3, <2>4 DEF CountersInv
<1>11. BookType
  <2>1. lookup = [id \in DOMAIN lookup |-> lookup[id]]
    BY <1>1, <1>2
  <2>. QED  BY <1>1, <2>1 DEF BookType
<1>12. Uncrossed(LiveOrders)
  BY <1>6, <1>8 DEF Uncrossed
<1>13. Abstract!BookInit
  BY <1>1, <1>6, <1>8 DEF Abstract!BookInit
<1>14. LevelsInv(levels, Newest)
  BY <1>4, <1>5
<1>. QED  BY <1>9, <1>10, <1>11, <1>12, <1>13, <1>14 DEF IInv

(* Every step of the structure keeps the invariant and is a step of
   MatchingBook or none. *)
LEMMA NextStep ==
  ASSUME IInv, [Next]_vars
  PROVE  IInv' /\ [Abstract!BookNext]_(Abstract!bookVars)
<1>1. CASE UNCHANGED vars
  <2>1. /\ levels' = levels /\ lookup' = lookup /\ total' = total /\ deleted' = deleted
        /\ taker' = taker /\ tape' = tape /\ nextId' = nextId /\ removed' = removed
    BY <1>1 DEF vars
  <2>2. /\ Structure(levels, lookup, total, deleted, Newest) /\ Newest \in Nat
        /\ LiveOrders = Orders(levels) /\ Uncrossed(Orders(levels)) /\ nextId \in Nat \ {0}
        /\ taker # NoTaker => taker \in Resting /\ taker.eid = nextId - 1 /\ taker.eid > 0
    BY InvGives
  <2>3. Newest' = Newest
    BY <2>1 DEF Newest
  <2>4. IInv' /\ LiveOrders' = Orders(levels')
    BY <2>1, <2>2, <2>3, InvFollows
  <2>5. LiveOrders' = LiveOrders
    BY <2>1, <2>2, <2>4
  <2>. QED  BY <2>1, <2>4, <2>5 DEF Abstract!bookVars
<1>2. CASE \E o \in Submissions : AddOrder(o)
  BY <1>2, AddOrderStep DEF Abstract!BookNext
<1>3. CASE EraseDeadLevel
  BY <1>3, EraseDeadLevelStep
<1>4. CASE ExecuteTrade
  BY <1>4, ExecuteTradeStep DEF Abstract!BookNext
<1>5. CASE RestOrder
  BY <1>5, RestOrderStep DEF Abstract!BookNext
<1>6. CASE \E id \in 1..MaxOrders : RemoveOrder(id)
  BY <1>6, RemoveOrderStep DEF Abstract!BookNext
<1>. QED  BY <1>1, <1>2, <1>3, <1>4, <1>5, <1>6 DEF Next

-----------------------------------------------------------------------------
(* There are as many live orders as entries in the lookup. *)
LEMMA LookupCounts ==
  ASSUME NEW lv, NEW lk, Exact(lv, lk), lk = [id \in DOMAIN lk |-> lk[id]], IsFiniteSet(DOMAIN lk)
  PROVE  Cardinality(LiveSpots(lv)) = Cardinality(DOMAIN lk)
<1>1. DOMAIN lk = {At(lv, l).eid : l \in LiveSpots(lv)} /\ \A l \in LiveSpots(lv) : lk[At(lv, l).eid] = l
  BY DEF Exact
<1>2. lk \in [DOMAIN lk -> LiveSpots(lv)]
  BY <1>1
<1>3. \A i, j \in DOMAIN lk : lk[i] = lk[j] => i = j
  BY <1>1
<1>4. \A l \in LiveSpots(lv) : \E id \in DOMAIN lk : lk[id] = l
  BY <1>1
<1>5. lk \in Bijection(DOMAIN lk, LiveSpots(lv))
  <2>1. lk \in Injection(DOMAIN lk, LiveSpots(lv))
    BY <1>2, <1>3 DEF Injection, IsInjective
  <2>2. lk \in Surjection(DOMAIN lk, LiveSpots(lv))
    BY <1>2, <1>4 DEF Surjection
  <2>. QED  BY <2>1, <2>2 DEF Bijection
<1>. QED  BY <1>5, FS_Bijection DEF ExistsBijection

(* The invariant bounds the tombstones. *)
LEMMA InvGarbage ==
  ASSUME IInv
  PROVE  GarbageBounded
<1>1. Structure(levels, lookup, total, deleted, Newest) /\ LevelsInv(levels, Newest) /\ Newest \in Nat
  BY InvGives DEF Structure
<1>2. Places = Spots(levels) /\ LivePlaces = LiveSpots(levels)
  BY <1>1, PlacesAreSpots
<1>3. Counted(levels, lookup, total, deleted) /\ Cardinality(LiveSpots(levels)) = Cardinality(DOMAIN lookup)
  BY <1>1, LookupCounts DEF Structure, Counted
<1>. QED  BY <1>2, <1>3 DEF Counted, GarbageBounded

(* The quote of a side: the best price of its live orders. *)
LEMMA QuoteOfSide ==
  ASSUME NEW n \in Nat, LevelsInv(levels, n), NEW side \in EngineSides
  PROVE  LET prices == {o.price : o \in {x \in Orders(levels) : x.side = side}}
         IN  /\ prices \subseteq Nat
             /\ prices = {} => BestQuote(side) = -1
             /\ prices # {} => /\ BestQuote(side) \in prices
                               /\ \A p \in prices : IF side = "sell" THEN BestQuote(side) <= p
                                                    ELSE BestQuote(side) >= p
<1>. DEFINE prices == {o.price : o \in {x \in Orders(levels) : x.side = side}}
            lasting == {p \in DOMAIN levels[side] : FirstLive(levels[side][p]) # 0}
<1>1. /\ DOMAIN levels[side] \subseteq Nat /\ IsFiniteSet(DOMAIN levels[side])
      /\ \A p \in DOMAIN levels[side] : LevelInv(levels[side][p], n)
  BY DEF LevelsInv, SideInv
<1>2. prices \subseteq lasting
  <2>1. SUFFICES ASSUME NEW o \in Orders(levels), o.side = side
                 PROVE  o.price \in lasting
    OBVIOUS
  <2>2. PICK k \in LiveSpots(levels) : o = OrderOf(levels, k)
    BY DEF Orders
  <2>3. /\ k.side = side /\ k.price = o.price /\ k.price \in DOMAIN levels[side]
        /\ k.index \in DOMAIN levels[side][k.price] /\ Live(levels[side][k.price][k.index])
    <3>1. k.side = side /\ k.price = o.price
      BY <2>1, <2>2 DEF OrderOf
    <3>. QED  BY <3>1, EntryTypes DEF LiveSpots, At
  <2>4. FirstLive(levels[side][k.price]) # 0
    BY <1>1, <2>3, FirstLiveIs
  <2>. QED  BY <2>3, <2>4
<1>3. lasting \subseteq prices
  <2>1. SUFFICES ASSUME NEW p \in DOMAIN levels[side], FirstLive(levels[side][p]) # 0
                 PROVE  p \in prices
    OBVIOUS
  <2>2. PICK j \in DOMAIN levels[side][p] : Live(levels[side][p][j])
    BY <1>1, <2>1, FirstLiveIs
  <2>. DEFINE l == [side |-> side, price |-> p, index |-> j]
  <2>3. l \in LiveSpots(levels) /\ l.side = side /\ l.price = p
    BY <2>2, SpotAt DEF LiveSpots
  <2>. HIDE DEF l
  <2>4. OrderOf(levels, l) \in Orders(levels) /\ OrderOf(levels, l).side = side /\ OrderOf(levels, l).price = p
    BY <2>3 DEF Orders, OrderOf
  <2>. QED  BY <2>4
<1>4. prices = lasting
  BY <1>2, <1>3
<1>. HIDE DEF prices
<1>5. lasting \subseteq Nat /\ IsFiniteSet(lasting)
  BY <1>1, FS_Subset
<1>6. BestQuote(side) = IF lasting = {} THEN -1 ELSE IF side = "sell" THEN Min(lasting) ELSE Max(lasting)
  BY DEF BestQuote
<1>. HIDE DEF lasting
<1>7. lasting # {} => /\ Min(lasting) \in lasting /\ \A x \in lasting : Min(lasting) <= x
                      /\ Max(lasting) \in lasting /\ \A x \in lasting : Max(lasting) >= x
  BY <1>5, MinOf, MaxOf
<1>. QED  BY <1>4, <1>5, <1>6, <1>7 DEF prices

(* The quotes are those of the live orders and do not cross. *)
LEMMA InvQuotes ==
  ASSUME IInv
  PROVE  QuotesSound
<1>1. /\ LevelsInv(levels, Newest) /\ Newest \in Nat /\ LiveOrders = Orders(levels)
      /\ Uncrossed(Orders(levels))
  BY InvGives DEF Structure
<1>. DEFINE Prices(side) == {o.price : o \in {x \in Orders(levels) : x.side = side}}
<1>2. ASSUME NEW side \in EngineSides
      PROVE  /\ Prices(side) \subseteq Nat
             /\ Prices(side) = {} => BestQuote(side) = -1
             /\ Prices(side) # {} => /\ BestQuote(side) \in Prices(side)
                                     /\ \A p \in Prices(side) : IF side = "sell" THEN BestQuote(side) <= p
                                                                ELSE BestQuote(side) >= p
  BY <1>1, QuoteOfSide
<1>3. \A side \in EngineSides : {x \in Orders(levels) : x.side = side} = {} <=> Prices(side) = {}
  OBVIOUS
<1>4. ASSUME BestQuote("buy") # -1, BestQuote("sell") # -1
      PROVE  BestQuote("buy") < BestQuote("sell")
  <2>1. BestQuote("buy") \in Prices("buy") /\ BestQuote("sell") \in Prices("sell")
    <3>. HIDE DEF Prices
    <3>. QED  BY <1>2, <1>4 DEF EngineSides
  <2>2. PICK b \in Orders(levels) : b.side = "buy" /\ b.price = BestQuote("buy")
    BY <2>1
  <2>3. PICK a \in Orders(levels) : a.side = "sell" /\ a.price = BestQuote("sell")
    BY <2>1
  <2>. QED  BY <1>1, <2>2, <2>3 DEF Uncrossed
<1>5. \A side \in EngineSides :
        LET live == {o \in Orders(levels) : o.side = side}
            others == {o.price : o \in live}
        IN  IF live = {} THEN BestQuote(side) = -1
            ELSE /\ BestQuote(side) \in others
                 /\ \A p \in others :
                      IF side = "sell" THEN BestQuote(side) <= p ELSE BestQuote(side) >= p
  BY <1>2, <1>3
<1>. QED  BY <1>1, <1>4, <1>5 DEF QuotesSound

(* Type correctness and the shape of the book: after any operations every price
   level is sorted by arrival, the counters count and the book is uncrossed. *)
THEOREM BookInvariant == Spec => []IInv
<1>1. Init => IInv
  BY InitInv
<1>2. IInv /\ [Next]_vars => IInv'
  BY NextStep
<1>. QED  BY <1>1, <1>2, PTL DEF Spec

(* order_lookup is exact: remove_order, which writes to the place the lookup
   gives without looking at it, always hits the order it was called for, through
   any sequence of trades, erased levels and compactions. *)
THEOREM LookupAlwaysExact == Spec => []LookupExact
<1>1. IInv => LookupExact
  BY DEF IInv
<1>. QED  BY <1>1, BookInvariant, PTL

(* get_best_bid and get_best_ask, between operations, are the best prices of the
   live orders, and they do not cross. *)
THEOREM QuotesAlwaysSound == Spec => []QuotesSound
<1>1. IInv => QuotesSound
  BY InvQuotes
<1>. QED  BY <1>1, BookInvariant, PTL

(* total_orders_count and deleted_orders_count count the live orders between
   them, and compaction keeps the tombstones below three quarters. *)
THEOREM GarbageAlwaysBounded == Spec => []GarbageBounded
<1>1. IInv => GarbageBounded
  BY InvGarbage
<1>. QED  BY <1>1, BookInvariant, PTL

(* The C++ structure implements price-time priority over a plain set of orders:
   every iteration of the matching loop is a trade with the best maker, and
   levels, tombstones and compactions are invisible. *)
THEOREM Refinement == Spec => ImplementsMatchingBook
<1>1. Init => Abstract!BookInit
  BY InitInv
<1>2. IInv /\ [Next]_vars => [Abstract!BookNext]_(Abstract!bookVars)
  BY NextStep
<1>. QED  BY <1>1, <1>2, BookInvariant, PTL DEF Spec, ImplementsMatchingBook, Abstract!BookSpec
=============================================================================
