-------------------------- MODULE TradingInvariant --------------------------
(***************************************************************************)
(* The inductive invariant behind the theorems of TradingProofs.  It adds to*)
(* the type invariant and to AckDurable what an operation knows at each of *)
(* its stages: which orders are staged, which of them memory and disk already*)
(* have, and which may still be pending.                                   *)
(***************************************************************************)
EXTENDS TradingProperties

(* What a ledger's orders are known to be, apart from their types. *)
PricesValid(l) ==
  \A id \in OrderIds : l.orders[id] # NoOrder => l.orders[id].price \in 1..99

(* Every order belongs to a known market. *)
MarketsIn(l) ==
  \A id \in OrderIds : l.orders[id] # NoOrder => l.markets[l.orders[id].market] # NoMarket

(* Ledger d knows whatever ledger l knows, and knows it at least as well. *)
Covers(d, l) ==
  /\ \A m \in Markets : l.markets[m] # NoMarket => d.markets[m] # NoMarket
  /\ \A id \in OrderIds :
       l.orders[id] # NoOrder =>
         /\ d.orders[id] # NoOrder
         /\ SameOrder(d.orders[id], l.orders[id])
         /\ l.orders[id].status # "pending" => d.orders[id].status # "pending"

(* Memory never runs ahead of the disk. *)
MemInDisk == Covers(disk, mem)

(* While no failure is latched, memory knows every order of the disk. *)
MemComplete ==
  pc # "down" /\ ~failed =>
    \A id \in OrderIds : disk.orders[id] # NoOrder => mem.orders[id] # NoOrder

MarketsKnown ==
  /\ MarketsIn(mem)
  /\ MarketsIn(disk)
  /\ \A id \in OrderIds : change.orders[id] # NoOrder =>
        mem.markets[change.orders[id].market] # NoMarket

(* The reservation of a batch is staged but not applied. *)
Reserving == pc = "admit" \/ (pc = "commit" /\ after = "engine")

(* The engine has been given the admitted orders. *)
Submitted == pc \in {"engine", "stage", "fill"} \/ (pc = "commit" /\ after = "fill")

Answered == pc \in {"stage", "fill"} \/ (pc = "commit" /\ after = "fill")

Control ==
  /\ failed => pc = "idle"
  /\ pc \in {"idle", "down"} =>
       /\ op = "none" /\ change = Empty /\ cur = 1 /\ admitted = <<>>
       /\ granted = {} /\ results = <<>>
  /\ pc = "admit" => op = "place"
  /\ pc \in {"engine", "stage", "fill"} => op \in {"place", "recover"}
  /\ pc = "remove" => op \in {"cancel", "resolve"}
  /\ pc = "recover" => op = "recover"
  /\ pc = "commit" =>
       \/ after = "return" /\ op \in {"create", "deposit", "place", "cancel", "resolve"}
       \/ after = "engine" /\ op = "place"
       \/ after \in {"fill", "recover"} /\ op = "recover"
  /\ pc \in {"engine", "recover"} => change = Empty
  /\ pc = "commit" /\ after = "engine" => Len(admitted) >= 1
  /\ op # "place" => granted = {}
  /\ Submitted =>
       /\ Len(admitted) >= 1
       /\ op = "recover" => Len(admitted) = 1
       /\ \A k \in 1..Len(admitted) : mem.orders[admitted[k]] # NoOrder
  /\ Reserving =>
       /\ \A k \in 1..Len(admitted) : change.orders[admitted[k]] # NoOrder
       /\ \A id \in OrderIds : change.orders[id] # NoOrder =>
            \E k \in 1..Len(admitted) : admitted[k] = id
  /\ Answered => cur \in 1..Len(admitted) /\ DOMAIN results = 1..Len(admitted)
  /\ pc = "remove" => \A id \in todo : OnBook(mem.orders[id])
  /\ op = "recover" => \A id \in todo : mem.orders[id] # NoOrder
  /\ pc = "remove" /\ op = "resolve" =>
       target.market \in Markets /\ mem.markets[target.market] # NoMarket
  /\ \A e \in engineOrders : mem.orders[e[3]] # NoOrder
  /\ \A e \in Engines : taker[e] # NoTaker =>
       /\ pc = "engine"
       /\ taker[e].k \in 1..Len(admitted)
       /\ taker[e].k \notin DOMAIN results
       /\ EngineOf(taker[e].k) = e

(* A staged order is either a new one of the batch being admitted or the
   same order as in memory, past its pending state. *)
StagedFaithful ==
  \A id \in OrderIds : change.orders[id] # NoOrder =>
    IF mem.orders[id] = NoOrder
    THEN op = "place" /\ Reserving
    ELSE /\ SameOrder(change.orders[id], mem.orders[id])
         /\ change.orders[id].status # "pending"

(* The orders of the batch whose completion is staged. *)
CompletionStaged ==
  /\ op = "place" /\ pc = "stage" =>
       \A j \in 1..(cur - 1) : change.orders[admitted[j]] # NoOrder
  /\ op = "place" /\ pc = "fill" =>
       \A j \in 1..cur : change.orders[admitted[j]] # NoOrder
  /\ op = "place" /\ pc = "commit" /\ after = "return" =>
       \A j \in 1..Len(admitted) : change.orders[admitted[j]] # NoOrder
  /\ pc = "commit" /\ after = "fill" => change.orders[admitted[1]] # NoOrder

(* Every request that will be granted is one of the batch's orders. *)
GrantedFaithful ==
  op = "place" =>
    \A r \in granted :
      /\ \E k \in 1..Len(admitted) : admitted[k] = r.id
      /\ IF Reserving THEN SameOrder(change.orders[r.id], r)
         ELSE SameOrder(mem.orders[r.id], r)

(* An order is pending in memory only while an operation is about to settle
   it, or after a failure. *)
PendingAccounted ==
  pc # "down" /\ ~failed =>
    \A id \in OrderIds :
      mem.orders[id] # NoOrder /\ mem.orders[id].status = "pending" =>
        \/ /\ op = "place" /\ ~Reserving
           /\ \E k \in 1..Len(admitted) : admitted[k] = id
        \/ op = "recover" /\ id \in todo
        \/ /\ op = "recover"
           /\ pc \in {"engine", "stage"} \/ (pc = "commit" /\ after = "fill")
           /\ admitted[1] = id

IInv ==
  /\ TypeOK
  /\ PricesValid(mem) /\ PricesValid(disk) /\ PricesValid(change)
  /\ MemInDisk
  /\ MemComplete
  /\ MarketsKnown
  /\ Control
  /\ StagedFaithful
  /\ CompletionStaged
  /\ GrantedFaithful
  /\ PendingAccounted
  /\ AckDurable
-----------------------------------------------------------------------------
(* The strengthening behind the theorems of TradingProofs about memory and
   disk: they agree while no failure is latched, a staged order continues the one
   in memory, and only open markets are traded in. *)

(* RecoverEngine has forgotten the order's engine id and not committed a new
   one. *)
Recovering(id) ==
  /\ op = "recover"
  /\ \/ id \in todo
     \/ /\ pc \in {"engine", "stage"} \/ (pc = "commit" /\ after = "fill")
        /\ admitted[1] = id

MemIsDisk ==
  pc # "down" /\ ~failed =>
    /\ mem.markets = disk.markets /\ mem.cash = disk.cash /\ mem.pos = disk.pos
    /\ mem.sequence = disk.sequence /\ mem.deposited = disk.deposited
    /\ \A id \in OrderIds :
         mem.orders[id] = IF Recovering(id) THEN [disk.orders[id] EXCEPT !.eid = 0]
                          ELSE disk.orders[id]

(* A key of the index is the one its order has, and the order is active. *)
IndexKeys ==
  \A e \in engineOrders :
    /\ Active(mem.orders[e[3]])
    /\ e[1] = mem.orders[e[3]].market
    /\ e[2] = mem.orders[e[3]].eid /\ e[2] # 0

(* No operation touches an order that recovery has yet to submit. *)
AwaitingRecovery ==
  op = "recover" =>
    \A id \in todo :
      /\ Active(mem.orders[id]) /\ mem.orders[id].eid = 0
      /\ change.orders[id] = NoOrder
      /\ Submitted => admitted[1] # id

(* Orders in the hands of an engine are active and not submitted for more
   than they ask for; so they will be once the reservations of a batch are
   committed. *)
InEngineActive ==
  /\ Reserving => \A k \in 1..Len(admitted) : change.orders[admitted[k]].status = "pending"
  /\ Submitted => \A k \in 1..Len(admitted) : Active(mem.orders[admitted[k]])
  /\ pc = "commit" /\ after = "fill" => Active(change.orders[admitted[1]])
  /\ \A e \in Engines : taker[e] # NoTaker =>
       taker[e].left <= mem.orders[admitted[taker[e].k]].qty

(* What is staged for a known order continues it. *)
StagedAdvances ==
  \A id \in OrderIds : change.orders[id] # NoOrder /\ mem.orders[id] # NoOrder =>
    /\ Active(mem.orders[id])
    /\ change.orders[id].seq = mem.orders[id].seq
    /\ change.orders[id].filled >= mem.orders[id].filled

IsOpen(l, m) == l.markets[m] # NoMarket /\ l.markets[m].status = "open"

ActiveInOpen(l) ==
  \A id \in OrderIds : Active(l.orders[id]) => IsOpen(l, l.orders[id].market)

(* What is staged concerns open markets, or one that is being created. *)
StagedOpen ==
  /\ \A id \in OrderIds : change.orders[id] # NoOrder =>
       IsOpen(mem, change.orders[id].market)
  /\ \A h \in Holdings : change.pos[h] # 0 => IsOpen(mem, h[2])
  /\ \A m \in Markets : change.markets[m] # NoMarket /\ mem.markets[m] # NoMarket =>
       IsOpen(mem, m)

(* A settlement takes every active order of its market with it. *)
Closing(m) ==
  /\ \A id \in OrderIds : Active(mem.orders[id]) /\ mem.orders[id].market = m =>
       id \in todo \/ change.orders[id] # NoOrder
  /\ \A id \in OrderIds : change.orders[id] # NoOrder => ~Active(change.orders[id])

SettlementInv ==
  /\ op \notin {"create", "resolve"} \/ pc = "remove" =>
       \A m \in Markets : change.markets[m] = NoMarket
  /\ pc = "remove" =>
       \A id \in OrderIds : change.orders[id] # NoOrder => ~Active(change.orders[id])
  /\ pc = "remove" /\ op = "resolve" => IsOpen(mem, target.market) /\ Closing(target.market)
  /\ op = "create" => \A id \in OrderIds : change.orders[id] = NoOrder
  /\ \A m \in Markets : change.markets[m] # NoMarket /\ change.markets[m].status # "open" =>
       todo = {} /\ Closing(m)

SInv ==
  /\ IInv
  /\ MemIsDisk
  /\ IndexKeys
  /\ AwaitingRecovery
  /\ InEngineActive
  /\ StagedAdvances
  /\ ActiveInOpen(mem) /\ ActiveInOpen(disk)
  /\ StagedOpen
  /\ SettlementInv
-----------------------------------------------------------------------------
(* The strengthening behind EngineIndexExact and PriorityKept: engine ids are
   handed out in the order of admission, and an order without one is younger
   than every order that has one. *)

(* The admitted orders have been given to the engines and have no engine id
   in memory yet. *)
AwaitingIds ==
  \/ pc \in {"engine", "stage"}
  \/ pc = "commit" /\ after = "fill"
  \/ op = "place" /\ (pc = "fill" \/ (pc = "commit" /\ after = "return"))

IndexComplete ==
  \A id \in OrderIds : Active(mem.orders[id]) /\ mem.orders[id].eid # 0 =>
    <<mem.orders[id].market, mem.orders[id].eid, id>> \in engineOrders

(* Every known order has a place in the queue of its own. *)
OwnPlaces(l) ==
  /\ \A id \in OrderIds : l.orders[id] # NoOrder => l.orders[id].seq <= l.sequence
  /\ \A i, j \in OrderIds : i # j /\ l.orders[i] # NoOrder /\ l.orders[j] # NoOrder =>
       l.orders[i].seq # l.orders[j].seq

(* The reservations of a batch go behind every known order, one after another. *)
PlacesReserved ==
  /\ change.sequence = IF Reserving THEN Len(admitted) ELSE 0
  /\ Reserving =>
       /\ \A k \in 1..Len(admitted) : /\ change.orders[admitted[k]].seq = mem.sequence + k
                                      /\ change.orders[admitted[k]].eid = 0
       /\ DOMAIN results = {}

(* Orders are submitted oldest first, in a batch and in recovery. *)
SubmittedInOrder ==
  AwaitingIds =>
    /\ \A k \in 1..Len(admitted) : mem.orders[admitted[k]].eid = 0
    /\ \A j, k \in 1..Len(admitted) : j < k =>
         mem.orders[admitted[j]].seq < mem.orders[admitted[k]].seq
    /\ op = "recover" => \A id \in todo : mem.orders[admitted[1]].seq < mem.orders[id].seq
    /\ op = "place" /\ pc = "commit" => DOMAIN results = 1..Len(admitted)

YoungHaveNoId ==
  \A i, j \in OrderIds :
    Active(mem.orders[i]) /\ Active(mem.orders[j])
    /\ mem.orders[i].eid # 0 /\ mem.orders[j].eid = 0 => mem.orders[i].seq < mem.orders[j].seq

IdsInOrder ==
  \A i, j \in OrderIds :
    Active(mem.orders[i]) /\ Active(mem.orders[j]) /\ mem.orders[i].market = mem.orders[j].market
    /\ mem.orders[i].eid # 0 /\ mem.orders[j].eid # 0 /\ mem.orders[i].seq < mem.orders[j].seq =>
      mem.orders[i].eid < mem.orders[j].eid

(* An active order is without engine id only while it is being submitted. *)
IdsAccounted ==
  pc # "down" /\ ~failed =>
    \A id \in OrderIds : Active(mem.orders[id]) /\ mem.orders[id].eid = 0 =>
      \/ /\ op = "place" /\ ~Reserving
         /\ \E k \in 1..Len(admitted) : admitted[k] = id
      \/ Recovering(id)

(* The ids of a market's orders were handed out by the engine that still has
   the market's book. *)
IdsHandedOut ==
  \A id \in OrderIds : Active(mem.orders[id]) /\ SymbolOf(id) \in listed =>
    mem.orders[id].eid <= nextEid[Partition[SymbolOf(id)]]

(* Id n is new to the market of the order admitted as number k, and larger
   than those of its market's orders. *)
FreshId(n, k) ==
  /\ n # 0
  /\ SymbolOf(admitted[k]) \in listed => n <= nextEid[EngineOf(k)]
  /\ \A id \in OrderIds :
       Active(mem.orders[id]) /\ mem.orders[id].market = mem.orders[admitted[k]].market =>
         mem.orders[id].eid < n

SameMarket(j, k) == mem.orders[admitted[j]].market = mem.orders[admitted[k]].market

(* The engines' answers carry fresh ids, in the order of admission. *)
AnswersInOrder ==
  AwaitingIds =>
    /\ \A k \in DOMAIN results : FreshId(results[k].eid, k)
    /\ \A j, k \in DOMAIN results : j < k /\ SameMarket(j, k) => results[j].eid < results[k].eid
    /\ pc = "engine" => \A k \in DOMAIN results, j \in 1..Len(admitted) :
                          j < k /\ EngineOf(j) = EngineOf(k) => j \in DOMAIN results

TakersInOrder ==
  \A e \in Engines : taker[e] # NoTaker =>
    /\ FreshId(taker[e].eid, taker[e].k)
    /\ SymbolOf(admitted[taker[e].k]) \in listed
    /\ \A j \in 1..Len(admitted) : j < taker[e].k /\ EngineOf(j) = e => j \in DOMAIN results
    /\ \A j \in DOMAIN results : SameMarket(j, taker[e].k) => results[j].eid < taker[e].eid

(* What is staged for a known order has the order's engine id, or the one the
   engine answered with. *)
StagedIds ==
  \A id \in OrderIds : change.orders[id] # NoOrder /\ mem.orders[id] # NoOrder =>
    IF mem.orders[id].eid # 0
    THEN change.orders[id].eid = mem.orders[id].eid
    ELSE /\ AwaitingIds
         /\ \E k \in DOMAIN results : admitted[k] = id /\ change.orders[id].eid = results[k].eid

(* No event changes the symbol of a market. *)
StagedSymbols ==
  \A m \in Markets : change.markets[m] # NoMarket /\ mem.markets[m] # NoMarket =>
    change.markets[m].symbol = mem.markets[m].symbol

PInv ==
  /\ SInv
  /\ IndexComplete
  /\ OwnPlaces(mem) /\ OwnPlaces(disk)
  /\ PlacesReserved
  /\ SubmittedInOrder
  /\ YoungHaveNoId
  /\ IdsInOrder
  /\ IdsAccounted
  /\ IdsHandedOut
  /\ AnswersInOrder
  /\ TakersInOrder
  /\ StagedIds
  /\ StagedSymbols
=============================================================================
