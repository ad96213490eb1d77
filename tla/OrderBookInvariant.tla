------------------------- MODULE OrderBookInvariant -------------------------
(***************************************************************************)
(* The inductive invariant behind the theorems of OrderBookProofs: the     *)
(* vector of every price level is sorted by engine id, tombstones included,*)
(* and nothing in the book is younger than the order being matched.        *)
(***************************************************************************)
EXTENDS OrderBook

Entry == [eid : Nat \ {0}, qty : Nat, dead : BOOLEAN]

(* The vector of a price level: older orders first, all of them older than
   engine id n, and live ones with something left to trade. *)
LevelInv(orders, n) ==
  /\ orders \in Seq(Entry)
  /\ \A i \in DOMAIN orders :
       orders[i].eid < n /\ (Live(orders[i]) => orders[i].qty > 0)
  /\ \A i, j \in DOMAIN orders : i < j => orders[i].eid < orders[j].eid

SideInv(map, n) ==
  /\ map = [p \in DOMAIN map |-> map[p]]
  /\ IsFiniteSet(DOMAIN map)
  /\ \A p \in DOMAIN map : p \in Nat /\ LevelInv(map[p], n)

LevelsInv(lv, n) ==
  /\ lv = [side \in EngineSides |-> lv[side]]
  /\ \A side \in EngineSides : SideInv(lv[side], n)

(* No order in the book is as young as this id. *)
Newest == IF taker = NoTaker THEN nextId ELSE taker.eid

BookType ==
  /\ lookup = [id \in DOMAIN lookup |-> lookup[id]]
  /\ total \in Nat /\ deleted \in Nat
  /\ nextId \in Nat \ {0}
  /\ taker # NoTaker => taker \in Resting /\ taker.eid > 0 /\ taker.eid = nextId - 1

(* The counters, in terms of the lookup. *)
CountersInv ==
  /\ IsFiniteSet(DOMAIN lookup)
  /\ total - deleted = Cardinality(DOMAIN lookup)
  /\ IsFiniteSet(Places \ LivePlaces)
  /\ Cardinality(Places \ LivePlaces) <= deleted
  /\ 4 * deleted <= 3 * total

IInv ==
  /\ BookType
  /\ LevelsInv(levels, Newest)
  /\ LookupExact
  /\ Uncrossed(LiveOrders)
  /\ CountersInv
=============================================================================
