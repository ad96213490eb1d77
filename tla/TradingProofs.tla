--------------------------- MODULE TradingProofs ----------------------------
(***************************************************************************)
(* The trading service, for every finite set of users, markets and orders, *)
(* every set of engines, every batch size and every number of faults: it   *)
(* keeps its type invariant and never loses an order it acknowledged;      *)
(* memory is the disk whenever it serves, no engine sees an order that is  *)
(* not durable, the durable history of an order only goes forward and a    *)
(* market that has settled stays settled; engine ids follow the order of   *)
(* admission through batches, lone restarts of engines and recovery, so    *)
(* that the index holds exactly the active orders.  One lemma per action,  *)
(* or per group of actions that leave the same state alone, shows that it  *)
(* keeps IInv, another one that it keeps SInv and a third that it keeps    *)
(* PInv.                                                                   *)
(***************************************************************************)
EXTENDS TradingInvariant, LedgerProofs, TLAPS

(* The scratch state of an operation that is over. *)
LEMMA ClearedType ==
  ASSUME ScratchCleared
  PROVE  /\ change' = Empty /\ change' \in LedgerType
         /\ \A id \in OrderIds : change'.orders[id] = NoOrder
         /\ reqs' = <<>> /\ cur' = 1 /\ admitted' = <<>> /\ granted' = {} /\ todo' = {}
         /\ target' \in [market : Markets \cup {NoMarket}, outcome : Outcomes]
         /\ results' = <<>> /\ DOMAIN results' = {}
         /\ taker' = [e \in Engines |-> NoTaker]
BY EmptyLedger DEF ScratchCleared, NoTarget, Outcomes

(* An operation that ends, leaving sound ledgers behind, keeps the invariant,
   provided it latches a failure, ends the process or leaves memory complete
   and no order pending. *)
LEMMA OperationEnds ==
  ASSUME ScratchCleared, op' = "none", pc' \in {"idle", "down"}, after' = "idle",
         mem' \in LedgerType, disk' \in LedgerType,
         PricesValid(mem'), PricesValid(disk'), Covers(disk', mem'),
         MarketsIn(mem'), MarketsIn(disk'), AckDurable', acked' \subseteq Requests,
         engineOrders' \subseteq Markets \X Nat \X OrderIds,
         \A e \in engineOrders' : mem'.orders[e[3]] # NoOrder,
         listed' \subseteq Symbols, books' \in [Symbols -> SUBSET Resting],
         nextEid' \in [Engines -> Nat], faults' \in 0..MaxFaults,
         failed' \in BOOLEAN, failed' => pc' = "idle",
         pc' = "idle" /\ ~failed' =>
           \A id \in OrderIds :
             /\ disk'.orders[id] # NoOrder => mem'.orders[id] # NoOrder
             /\ mem'.orders[id] # NoOrder => mem'.orders[id].status # "pending"
  PROVE  IInv'
<1>1. TypeOK'
  BY ClearedType DEF TypeOK
<1>2. (PricesValid(mem) /\ PricesValid(disk) /\ PricesValid(change))'
  BY ClearedType DEF PricesValid
<1>3. MemInDisk' /\ MemComplete'
  BY DEF MemInDisk, Covers, MemComplete
<1>4. MarketsKnown'
  BY ClearedType DEF MarketsKnown, MarketsIn
<1>5. Control'
  BY ClearedType DEF Control, Submitted, Answered, Reserving
<1>6. StagedFaithful' /\ CompletionStaged' /\ GrantedFaithful'
  BY ClearedType DEF StagedFaithful, CompletionStaged, GrantedFaithful
<1>7. PendingAccounted'
  BY DEF PendingAccounted
<1>. QED
  BY <1>1, <1>2, <1>3, <1>4, <1>5, <1>6, <1>7 DEF IInv

(* The same for an operation that ends without touching the ledgers. *)
LEMMA OperationOver ==
  ASSUME IInv, ScratchCleared, op' = "none", pc' \in {"idle", "down"}, after' = "idle",
         mem' = mem, disk' = disk, engineOrders' = engineOrders, acked' = acked,
         listed' = listed, books' = books, nextEid' = nextEid, faults' \in 0..MaxFaults,
         failed' \in BOOLEAN, failed' => pc' = "idle",
         pc' = "idle" /\ ~failed' =>
           /\ pc # "down" /\ ~failed
           /\ \A id \in OrderIds :
                mem.orders[id] # NoOrder => mem.orders[id].status # "pending"
  PROVE  IInv'
<1>1. AckDurable'
  BY DEF IInv, AckDurable
<1>2. /\ mem' \in LedgerType /\ disk' \in LedgerType /\ acked' \subseteq Requests
      /\ engineOrders' \subseteq Markets \X Nat \X OrderIds
      /\ listed' \subseteq Symbols /\ books' \in [Symbols -> SUBSET Resting]
      /\ nextEid' \in [Engines -> Nat]
  BY DEF IInv, TypeOK
<1>3. PricesValid(mem') /\ PricesValid(disk') /\ Covers(disk', mem') /\ MarketsIn(mem')
      /\ MarketsIn(disk') /\ \A e \in engineOrders' : mem'.orders[e[3]] # NoOrder
  BY DEF IInv, MemInDisk, Covers, MarketsKnown, MarketsIn, Control
<1>4. pc' = "idle" /\ ~failed' =>
           \A id \in OrderIds :
             /\ disk'.orders[id] # NoOrder => mem'.orders[id] # NoOrder
             /\ mem'.orders[id] # NoOrder => mem'.orders[id].status # "pending"
  BY DEF IInv, MemComplete
<1>. QED
  BY <1>1, <1>2, <1>3, <1>4, OperationEnds

(* An order that was handed to the engines is a known, valid order of a known
   market, so its symbol has an owner. *)
LEMMA AdmittedKnown ==
  ASSUME IInv, Submitted, NEW k \in 1..Len(admitted)
  PROVE  /\ admitted[k] \in OrderIds
         /\ mem.orders[admitted[k]] \in Order
         /\ mem.orders[admitted[k]] # NoOrder
         /\ mem.orders[admitted[k]].price \in 1..99
         /\ mem.markets[mem.orders[admitted[k]].market] \in Market
         /\ SymbolOf(admitted[k]) \in Symbols
         /\ EngineOf(k) \in Engines
<1>1. admitted[k] \in OrderIds
  BY DEF IInv, TypeOK
<1>2. mem.orders[admitted[k]] # NoOrder
  BY DEF IInv, Control
<1>3. mem.orders[admitted[k]] \in Order
  BY <1>1, <1>2 DEF IInv, TypeOK, LedgerType
<1>. DEFINE o == mem.orders[admitted[k]]
<1>4. o.market \in Markets
  <2>. HIDE DEF o
  <2>. QED  BY <1>3 DEF Order, o
<1>5. mem.markets[o.market] # NoMarket
  BY <1>1, <1>2 DEF IInv, MarketsKnown, MarketsIn
<1>6. mem.markets[o.market] \in Market
  <2>. HIDE DEF o
  <2>. QED  BY <1>4, <1>5 DEF IInv, TypeOK, LedgerType
<1>7. SymbolOf(admitted[k]) \in Symbols
  BY <1>6 DEF SymbolOf, Market
<1>8. EngineOf(k) \in Engines
  BY <1>7, ConstantsAssumption DEF EngineOf
<1>. QED
  BY <1>1, <1>2, <1>3, <1>6, <1>7, <1>8 DEF IInv, PricesValid


(* What committing the staged change makes of the two ledgers. *)
LEMMA CommitLedgers ==
  ASSUME IInv, pc = "commit",
         NEW M, NEW D, M = Apply(mem, change), D = Apply(disk, change)
  PROVE  /\ M \in LedgerType /\ D \in LedgerType
         /\ \A id \in OrderIds :
              /\ M.orders[id] = IF change.orders[id] = NoOrder THEN mem.orders[id] ELSE change.orders[id]
              /\ D.orders[id] = IF change.orders[id] = NoOrder THEN disk.orders[id] ELSE change.orders[id]
              /\ D.orders[id] # NoOrder => M.orders[id] # NoOrder
         /\ PricesValid(M) /\ PricesValid(D)
         /\ MarketsIn(M) /\ MarketsIn(D)
         /\ Covers(D, M) /\ Covers(D, mem)
         /\ \A r \in acked :
              /\ D.orders[r.id] # NoOrder
              /\ SameOrder(D.orders[r.id], r)
              /\ D.orders[r.id].status # "pending"
<1>1. mem \in LedgerType /\ disk \in LedgerType /\ change \in LedgerType
  BY DEF IInv, TypeOK
<1>2. M \in LedgerType /\ D \in LedgerType
  BY <1>1, ApplyLedger
<1>3. \A id \in OrderIds :
        /\ M.orders[id] = IF change.orders[id] = NoOrder THEN mem.orders[id] ELSE change.orders[id]
        /\ D.orders[id] = IF change.orders[id] = NoOrder THEN disk.orders[id] ELSE change.orders[id]
  BY <1>1, ApplyLedger
<1>4. \A m \in Markets :
        /\ M.markets[m] = IF change.markets[m] = NoMarket THEN mem.markets[m] ELSE change.markets[m]
        /\ D.markets[m] = IF change.markets[m] = NoMarket THEN disk.markets[m] ELSE change.markets[m]
  BY <1>1, ApplyLedger
<1>5. \A id \in OrderIds :
        /\ mem.orders[id] # NoOrder => mem.orders[id].market \in Markets
        /\ disk.orders[id] # NoOrder => disk.orders[id].market \in Markets
        /\ change.orders[id] # NoOrder => change.orders[id].market \in Markets
  BY <1>1 DEF LedgerType, Order
<1>6. ~failed /\ \A id \in OrderIds : disk.orders[id] # NoOrder => mem.orders[id] # NoOrder
  BY DEF IInv, Control, MemComplete
<1>7. PricesValid(M) /\ PricesValid(D)
  BY <1>3 DEF IInv, PricesValid
<1>8. MarketsIn(M)
  BY <1>3, <1>4, <1>5 DEF IInv, MarketsKnown, MarketsIn
<1>9. MarketsIn(D)
  BY <1>3, <1>4, <1>5 DEF IInv, MarketsKnown, MarketsIn, MemInDisk, Covers
<1>10. Covers(D, mem)
  BY <1>3, <1>4 DEF IInv, MemInDisk, Covers, StagedFaithful
<1>11. Covers(D, M)
  BY <1>3, <1>4 DEF IInv, MemInDisk, Covers, SameOrder
<1>12. ASSUME NEW r \in acked
       PROVE  /\ D.orders[r.id] # NoOrder
              /\ SameOrder(D.orders[r.id], r)
              /\ D.orders[r.id].status # "pending"
  <2>1. r.id \in OrderIds
    BY ConstantsAssumption DEF IInv, TypeOK, Request
  <2>2. /\ disk.orders[r.id] # NoOrder /\ SameOrder(disk.orders[r.id], r)
        /\ disk.orders[r.id].status # "pending"
    BY DEF IInv, AckDurable
  <2>3. mem.orders[r.id] # NoOrder /\ SameOrder(disk.orders[r.id], mem.orders[r.id])
    BY <2>1, <2>2, <1>6 DEF IInv, MemInDisk, Covers
  <2>4. change.orders[r.id] # NoOrder =>
          /\ SameOrder(change.orders[r.id], mem.orders[r.id])
          /\ change.orders[r.id].status # "pending"
    BY <2>1, <2>3 DEF IInv, StagedFaithful
  <2>5. change.orders[r.id] # NoOrder => SameOrder(change.orders[r.id], r)
    BY <2>2, <2>3, <2>4 DEF SameOrder
  <2>. QED  BY <2>1, <2>2, <2>4, <2>5, <1>3
<1>. QED
  BY <1>2, <1>3, <1>6, <1>7, <1>8, <1>9, <1>10, <1>11, <1>12


(* A staged change that only moves known orders forward, and keeps whatever
   was staged before it. *)
Forward(c) ==
  /\ c \in LedgerType
  /\ PricesValid(c)
  /\ \A id \in OrderIds : c.orders[id] # NoOrder =>
       /\ mem.orders[id] # NoOrder
       /\ SameOrder(c.orders[id], mem.orders[id])
       /\ c.orders[id].status # "pending"
  /\ \A id \in OrderIds : change.orders[id] # NoOrder => c.orders[id] # NoOrder

(* Staging a fill keeps a change Forward, whichever known order it is for. *)
LEMMA FillForward ==
  ASSUME IInv, NEW c, Forward(c), NEW id \in OrderIds, mem.orders[id] # NoOrder,
         NEW q \in Nat, NEW p \in Nat,
         NEW o, o = IF c.orders[id] # NoOrder THEN c.orders[id] ELSE mem.orders[id]
  PROVE  Forward(FillEvents(c, id, o, q, p))
<1>1. o \in Order /\ o.price \in 1..99 /\ SameOrder(o, mem.orders[id]) /\ c \in LedgerType
  BY DEF Forward, IInv, TypeOK, LedgerType, PricesValid, SameOrder
<1>. DEFINE d == FillEvents(c, id, o, q, p)
            n == FilledOrder(o, q)
<1>2. d \in LedgerType /\ d.orders = [c.orders EXCEPT ![id] = n]
  BY <1>1, FillLedger
<1>3. n \in Order /\ SameOrder(n, o) /\ n.status # "pending"
  BY <1>1, FilledOrderKept
<1>. HIDE DEF d, n
<1>4. \A x \in OrderIds : d.orders[x] = IF x = id THEN n ELSE c.orders[x]
  BY <1>1, <1>2 DEF LedgerType
<1>5. n # NoOrder /\ n.price \in 1..99 /\ SameOrder(n, mem.orders[id])
  BY <1>1, <1>3, ConstantsAssumption DEF SameOrder
<1>6. Forward(d)
  BY <1>2, <1>3, <1>4, <1>5 DEF Forward, PricesValid
<1>. QED  BY <1>6 DEF d


(* Creating a market stages a market and no order. *)
LEMMA CreateMarketForStep ==
  ASSUME IInv, NEW c \in Creations, CreateMarketFor(c)
  PROVE  IInv'
<1>a. c.id \in Markets /\ c.symbol \in Symbols /\ c.owner \in Users
  BY ConstantsAssumption
<1>. DEFINE market == [symbol |-> c.symbol, owner |-> c.owner, status |-> "open"]
<1>b. market \in Market
  BY <1>a DEF Market, MarketStatuses
<1>c. change' \in LedgerType /\ change'.orders = change.orders
  BY ZenonT(30), <1>a, <1>b, MarketEventLedger DEF IInv, TypeOK, CreateMarketFor
<1>1. TypeOK'
  BY <1>a, <1>c DEF IInv, TypeOK, CreateMarketFor, Ready, NewMarket, service
<1>2. (PricesValid(mem) /\ PricesValid(disk) /\ PricesValid(change))' /\ MemInDisk' /\
      MemComplete' /\ MarketsKnown' /\ AckDurable'
  BY <1>a, <1>c DEF IInv, PricesValid, MemInDisk, Covers, MemComplete, MarketsKnown, MarketsIn, AckDurable,
     CreateMarketFor, Ready, NewMarket, service
<1>3. Control'
  BY <1>a, <1>c DEF IInv, Control, Reserving, Submitted, Answered, CreateMarketFor, Ready,
     NewMarket, service
<1>4. StagedFaithful' /\ CompletionStaged' /\ GrantedFaithful' /\ PendingAccounted'
  BY <1>a, <1>c DEF IInv, StagedFaithful, Reserving, CompletionStaged, Control,
     GrantedFaithful, PendingAccounted, CreateMarketFor, Ready, NewMarket, service
<1>. QED
  BY <1>1, <1>2, <1>3, <1>4 DEF IInv

(* A lost AddBook answer changes only the set of books. *)
LEMMA AddBookUncertainStep ==
  ASSUME IInv, NEW c \in Creations, AddBookUncertain(c)
  PROVE  IInv'
<1>a. c.symbol \in Symbols /\ faults' \in 0..MaxFaults
  BY ConstantsAssumption DEF IInv, TypeOK, AddBookUncertain, Fault
<1>1. TypeOK'
  BY <1>a DEF IInv, TypeOK, AddBookUncertain, Ready, Fault, service, control, scratch
<1>2. (PricesValid(mem) /\ PricesValid(disk) /\ PricesValid(change))' /\ MemInDisk' /\
      MemComplete' /\ MarketsKnown' /\ AckDurable'
  BY DEF IInv, PricesValid, MemInDisk, Covers, MemComplete, MarketsKnown, MarketsIn, AckDurable,
     AddBookUncertain, Ready, Fault, service, control, scratch
<1>3. Control'
  BY DEF IInv, Control, Reserving, Submitted, Answered, AddBookUncertain, Ready, Fault,
     service, control, scratch
<1>4. StagedFaithful' /\ CompletionStaged' /\ GrantedFaithful' /\ PendingAccounted'
  BY DEF IInv, StagedFaithful, Reserving, CompletionStaged, Control, GrantedFaithful,
     PendingAccounted, AddBookUncertain, Ready, Fault, service, control, scratch
<1>. QED
  BY <1>1, <1>2, <1>3, <1>4 DEF IInv

(* A deposit stages a balance and no order. *)
LEMMA DepositStep ==
  ASSUME IInv, NEW u \in Users, NEW cents \in DepositSizes, Deposit(u, cents)
  PROVE  IInv'
<1>a. change' \in LedgerType /\ change'.orders = change.orders
  <2>1. cents \in Int
    BY ConstantsAssumption
  <2>. QED  BY <2>1, BalanceEventLedger DEF IInv, TypeOK, Deposit
<1>1. TypeOK'
  BY <1>a DEF IInv, TypeOK, Deposit, Ready, service, engine
<1>2. (PricesValid(mem) /\ PricesValid(disk) /\ PricesValid(change))' /\ MemInDisk' /\
      MemComplete' /\ MarketsKnown' /\ AckDurable'
  BY <1>a DEF IInv, PricesValid, MemInDisk, Covers, MemComplete, MarketsKnown, MarketsIn, AckDurable, Deposit,
     Ready, service, engine
<1>3. Control'
  BY <1>a DEF IInv, Control, Reserving, Submitted, Answered, Deposit, Ready, service, engine
<1>4. StagedFaithful' /\ CompletionStaged' /\ GrantedFaithful' /\ PendingAccounted'
  BY <1>a DEF IInv, StagedFaithful, Reserving, CompletionStaged, Control, GrantedFaithful,
     PendingAccounted, Deposit, Ready, service, engine
<1>. QED
  BY <1>1, <1>2, <1>3, <1>4 DEF IInv

(* A batch starts with nothing staged. *)
LEMMA PlaceStep ==
  ASSUME IInv, NEW b \in Batches, Place(b)
  PROVE  IInv'
<1>a. b \in Seq(Requests)
  BY ConstantsAssumption DEF Batches
<1>1. TypeOK'
  BY <1>a DEF IInv, TypeOK, Place, Ready, service, engine
<1>2. (PricesValid(mem) /\ PricesValid(disk) /\ PricesValid(change))' /\ MemInDisk' /\
      MemComplete' /\ MarketsKnown' /\ AckDurable'
  BY DEF IInv, PricesValid, MemInDisk, Covers, MemComplete, MarketsKnown, MarketsIn, AckDurable, Place, Ready,
     service, engine
<1>3. Control'
  BY EmptyLedger DEF IInv, Control, Reserving, Submitted, Answered, Place, Ready, service,
     engine
<1>4. StagedFaithful' /\ CompletionStaged' /\ GrantedFaithful' /\ PendingAccounted'
  BY DEF IInv, StagedFaithful, Reserving, CompletionStaged, Control, GrantedFaithful,
     PendingAccounted, Place, Ready, service, engine
<1>. QED
  BY <1>1, <1>2, <1>3, <1>4 DEF IInv

(* Cancelling starts from an order that is on the book. *)
LEMMA CancelStep ==
  ASSUME IInv, NEW id \in OrderIds, Cancel(id)
  PROVE  IInv'
<1>1. TypeOK'
  BY DEF IInv, TypeOK, Cancel, Ready, service, engine
<1>2. (PricesValid(mem) /\ PricesValid(disk) /\ PricesValid(change))' /\ MemInDisk' /\
      MemComplete' /\ MarketsKnown' /\ AckDurable'
  BY DEF IInv, PricesValid, MemInDisk, Covers, MemComplete, MarketsKnown, MarketsIn, AckDurable, Cancel, Ready,
     service, engine
<1>3. Control'
  BY DEF IInv, Control, Reserving, Submitted, Answered, Cancel, Ready, service, engine
<1>4. StagedFaithful' /\ CompletionStaged' /\ GrantedFaithful' /\ PendingAccounted'
  BY DEF IInv, StagedFaithful, Reserving, CompletionStaged, Control, GrantedFaithful,
     PendingAccounted, Cancel, Ready, service, engine
<1>. QED
  BY <1>1, <1>2, <1>3, <1>4 DEF IInv

(* Settlement starts from a known market and the orders on its book. *)
LEMMA ResolveForStep ==
  ASSUME IInv, NEW m \in Markets, NEW x \in Outcomes, NEW u \in Users, ResolveFor(m, x, u)
  PROVE  IInv'
<1>1. TypeOK'
  BY DEF IInv, TypeOK, ResolveFor, Ready, service, engine
<1>2. (PricesValid(mem) /\ PricesValid(disk) /\ PricesValid(change))' /\ MemInDisk' /\
      MemComplete' /\ MarketsKnown' /\ AckDurable'
  BY DEF IInv, PricesValid, MemInDisk, Covers, MemComplete, MarketsKnown, MarketsIn, AckDurable, ResolveFor,
     Ready, service, engine
<1>3. Control'
  BY DEF IInv, Control, Reserving, Submitted, Answered, ResolveFor, Ready, service, engine,
     MarketOpen
<1>4. StagedFaithful' /\ CompletionStaged' /\ GrantedFaithful' /\ PendingAccounted'
  BY DEF IInv, StagedFaithful, Reserving, CompletionStaged, Control, GrantedFaithful,
     PendingAccounted, ResolveFor, Ready, service, engine
<1>. QED
  BY <1>1, <1>2, <1>3, <1>4 DEF IInv

(* Admission: a duplicate inside the batch shares an admitted order, a retry is
   answered from memory (where nothing is pending between operations, so the disk
   has it past pending too), a new order is staged under an unused id. *)
LEMMA AdmitNextStep ==
  ASSUME IInv, AdmitNext
  PROVE  IInv'
<1>. DEFINE r == reqs[cur]
            n == AdmittedOrder(r)
<1>a. /\ r \in Requests /\ r \in Request /\ r.id \in OrderIds
      /\ pc = "admit" /\ op = "place" /\ Reserving /\ ~failed /\ cur \in Nat
  BY ConstantsAssumption DEF AdmitNext, IInv, TypeOK, Control, Request, Reserving
<1>b. /\ mem' = mem /\ disk' = disk /\ engineOrders' = engineOrders /\ failed' = failed
      /\ op' = op /\ pc' = pc /\ after' = after /\ cur' = cur + 1
      /\ reqs' = reqs /\ todo' = todo /\ target' = target
      /\ listed' = listed /\ books' = books /\ nextEid' = nextEid /\ taker' = taker
      /\ results' = results /\ faults' = faults
  BY DEF AdmitNext, service, control, engine
<1>c. Reserving'
  BY <1>a, <1>b DEF Reserving
<1>d. \A e \in Engines : taker[e] = NoTaker
  BY <1>a DEF IInv, Control
<1>e. ASSUME change' = change, admitted' = admitted, granted' \subseteq Requests,
             acked' \subseteq Requests, GrantedFaithful', AckDurable'
      PROVE  IInv'
  <2>1. TypeOK'
    BY <1>b, <1>e DEF IInv, TypeOK
  <2>2. (PricesValid(mem) /\ PricesValid(disk) /\ PricesValid(change))'
    BY <1>b, <1>e DEF IInv, PricesValid
  <2>3. MemInDisk' /\ MemComplete' /\ MarketsKnown'
    BY <1>b, <1>e DEF IInv, MemInDisk, Covers, MemComplete, MarketsKnown, MarketsIn
  <2>4. Control'
    BY <1>a, <1>b, <1>c, <1>d, <1>e DEF IInv, Control, Submitted, Answered, Reserving
  <2>5. StagedFaithful' /\ CompletionStaged' /\ PendingAccounted'
    BY <1>a, <1>b, <1>c, <1>e DEF IInv, StagedFaithful, CompletionStaged, PendingAccounted,
       Reserving
  <2>. QED  BY <1>e, <2>1, <2>2, <2>3, <2>4, <2>5 DEF IInv
<1>1. CASE change' = change /\ admitted' = admitted /\ granted' = granted /\ acked' = acked
  <2>1. GrantedFaithful' /\ AckDurable'
    BY <1>1, <1>a, <1>b, <1>c DEF IInv, GrantedFaithful, AckDurable
  <2>. QED  BY <1>1, <1>e, <2>1 DEF IInv, TypeOK
<1>2. CASE /\ change' = change /\ admitted' = admitted /\ acked' = acked
           /\ change.orders[r.id] # NoOrder /\ SameOrder(change.orders[r.id], r)
           /\ granted' = granted \cup {r}
  <2>1. \E k \in 1..Len(admitted) : admitted[k] = r.id
    BY <1>2, <1>a DEF IInv, Control
  <2>2. GrantedFaithful'
    BY <1>2, <1>a, <1>b, <1>c, <2>1 DEF IInv, GrantedFaithful
  <2>3. AckDurable'
    BY <1>2, <1>b DEF IInv, AckDurable
  <2>. QED  BY <1>2, <1>a, <1>e, <2>2, <2>3 DEF IInv, TypeOK
<1>3. CASE /\ change' = change /\ admitted' = admitted /\ granted' = granted
           /\ mem.orders[r.id] # NoOrder /\ SameOrder(mem.orders[r.id], r)
           /\ acked' = acked \cup {r}
  <2>1. mem.orders[r.id].status # "pending"
    BY <1>3, <1>a DEF IInv, PendingAccounted
  <2>2. /\ disk.orders[r.id] # NoOrder /\ disk.orders[r.id].status # "pending"
        /\ SameOrder(disk.orders[r.id], r)
    BY <1>3, <1>a, <2>1 DEF IInv, MemInDisk, Covers, SameOrder
  <2>3. AckDurable'
    BY <1>3, <1>b, <2>2 DEF IInv, AckDurable
  <2>4. GrantedFaithful'
    BY <1>3, <1>a, <1>b, <1>c DEF IInv, GrantedFaithful
  <2>. QED  BY <1>3, <1>a, <1>e, <2>3, <2>4 DEF IInv, TypeOK
<1>4. CASE /\ change.orders[r.id] = NoOrder /\ mem.orders[r.id] = NoOrder /\ Admissible(r)
           /\ change' = [ReserveEvents(change, r.id, n) EXCEPT !.sequence = @ + 1]
           /\ admitted' = Append(admitted, r.id)
           /\ granted' = granted \cup {r}
           /\ acked' = acked
  <2>1. /\ n \in Order /\ n # NoOrder /\ n.price \in 1..99 /\ SameOrder(n, r)
        /\ mem.markets[n.market] # NoMarket
    <3>1. AdmissionSequence \in Nat
      <4>1. mem.sequence \in Nat /\ Len(admitted) \in Nat
        BY DEF IInv, TypeOK, LedgerType
      <4>. QED  BY <4>1 DEF AdmissionSequence
    <3>2. r.price \in 1..99 /\ mem.markets[r.market] # NoMarket
      BY <1>4 DEF Admissible, ValidPrice, MarketOpen
    <3>3. "pending" \in OrderStatuses
      BY DEF OrderStatuses, ActiveStatuses
    <3>4. n \in Order
      <4>. HIDE DEF r
      <4>. QED  BY <1>a, <3>1, <3>3 DEF AdmittedOrder, Order, Request
    <3>. HIDE DEF r
    <3>. QED  BY <3>2, <3>4, ConstantsAssumption DEF AdmittedOrder, SameOrder
  <2>. HIDE DEF n
  <2>2. /\ change' \in LedgerType
        /\ change'.orders = [change.orders EXCEPT ![r.id] = n]
        /\ change'.markets = change.markets
    <3>. DEFINE d == ReserveEvents(change, r.id, n)
    <3>1. /\ d \in LedgerType /\ d.orders = [change.orders EXCEPT ![r.id] = n]
          /\ d.markets = change.markets
      BY <1>a, <2>1, ReserveLedger DEF IInv, TypeOK
    <3>2. change' = [d EXCEPT !.sequence = @ + 1]
      BY <1>4
    <3>. HIDE DEF d
    <3>3. d.sequence + 1 \in Nat
      BY <3>1 DEF LedgerType
    <3>. QED  BY <3>1, <3>2, <3>3 DEF LedgerType
  <2>3. \A x \in OrderIds : change'.orders[x] = IF x = r.id THEN n ELSE change.orders[x]
    BY <1>a, <2>2 DEF IInv, TypeOK, LedgerType
  <2>4. /\ admitted' \in Seq(OrderIds) /\ Len(admitted') = Len(admitted) + 1
        /\ Len(admitted) \in Nat
        /\ admitted'[Len(admitted) + 1] = r.id
        /\ \A k \in 1..Len(admitted) : admitted'[k] = admitted[k] /\ admitted[k] \in OrderIds
    <3>. HIDE DEF r
    <3>. QED  BY <1>4, <1>a DEF IInv, TypeOK
  <2>. DEFINE id0 == r.id
  <2>5. \A k \in 1..Len(admitted') :
          \/ k = Len(admitted) + 1
          \/ k \in 1..Len(admitted)
    BY <2>4
  <2>6. 1..Len(admitted) \subseteq 1..Len(admitted') /\ Len(admitted) + 1 \in 1..Len(admitted')
    BY <2>4
  <2>7. TypeOK'
    BY <1>4, <1>a, <1>b, <2>2, <2>4, <2>6 DEF IInv, TypeOK
  <2>8. (PricesValid(mem) /\ PricesValid(disk) /\ PricesValid(change))'
    BY <1>b, <2>1, <2>3 DEF IInv, PricesValid
  <2>9. MemInDisk' /\ MemComplete' /\ AckDurable'
    BY <1>4, <1>b DEF IInv, MemInDisk, Covers, MemComplete, AckDurable
  <2>10. MarketsKnown'
    BY <1>b, <2>1, <2>3 DEF IInv, MarketsKnown, MarketsIn
  <2>11. Control'
    <3>1. \A k \in 1..Len(admitted') : change'.orders[admitted'[k]] # NoOrder
      BY <1>a, <2>1, <2>3, <2>4, <2>5 DEF IInv, Control
    <3>2. \A x \in OrderIds : change'.orders[x] # NoOrder =>
             \E k \in 1..Len(admitted') : admitted'[k] = x
      BY <1>a, <2>3, <2>4, <2>6 DEF IInv, Control
    <3>. QED
      BY <3>1, <3>2, <1>a, <1>b, <1>d DEF IInv, Control, Submitted, Answered
  <2>12. StagedFaithful'
    BY <1>4, <1>a, <1>b, <1>c, <2>3 DEF IInv, StagedFaithful
  <2>13. CompletionStaged'
    BY <1>a, <1>b DEF CompletionStaged
  <2>14. GrantedFaithful'
    <3>1. ASSUME NEW g \in granted'
          PROVE  /\ \E k \in 1..Len(admitted') : admitted'[k] = g.id
                 /\ SameOrder(change'.orders[g.id], g)
      <4>1. CASE g = r
        BY <4>1, <1>a, <2>1, <2>3, <2>4, <2>6
      <4>2. CASE g \in granted
        <5>1. PICK k \in 1..Len(admitted) : admitted[k] = g.id
          BY <4>2, <1>a DEF IInv, GrantedFaithful
        <5>2. g.id # r.id /\ g.id \in OrderIds
          BY <5>1, <1>4, <1>a, <2>4 DEF IInv, Control
        <5>3. SameOrder(change'.orders[g.id], g)
          BY <4>2, <5>2, <1>a, <2>3 DEF IInv, GrantedFaithful
        <5>. QED  BY <5>1, <5>3, <2>4, <2>6
      <4>. QED  BY <4>1, <4>2, <1>4
    <3>. QED  BY <3>1, <1>c DEF GrantedFaithful
  <2>15. PendingAccounted'
    BY <1>a, <1>b, <1>c DEF IInv, PendingAccounted
  <2>. QED
    BY <2>7, <2>8, <2>9, <2>10, <2>11, <2>12, <2>13, <2>14, <2>15 DEF IInv
<1>. QED
  BY <1>1, <1>2, <1>3, <1>4 DEF AdmitNext, IsRetry

(* The batch ends empty or goes to its first commit. *)
LEMMA AdmissionDoneStep ==
  ASSUME IInv, AdmissionDone
  PROVE  IInv'
<1>1. CASE admitted = <<>>
  <2>1. \A id \in OrderIds : mem.orders[id] # NoOrder => mem.orders[id].status # "pending"
    BY <1>1 DEF IInv, PendingAccounted, Control, AdmissionDone, Reserving
  <2>. QED
    BY <1>1, <2>1, OperationOver
       DEF AdmissionDone, IInv, TypeOK, Control, Return, service
<1>2. CASE admitted # <<>>
  <2>. USE <1>2 DEF AdmissionDone, scratch, service
  <2>1. TypeOK'
    BY DEF IInv, TypeOK
  <2>2. (PricesValid(mem) /\ PricesValid(disk) /\ PricesValid(change))' /\ MemInDisk'
        /\ MemComplete' /\ MarketsKnown' /\ AckDurable'
    BY DEF IInv, PricesValid, MemInDisk, Covers, MemComplete, MarketsKnown, MarketsIn, AckDurable
  <2>3. Len(admitted) >= 1
    BY DEF IInv, TypeOK
  <2>4. Control'
    BY <2>3 DEF IInv, Control, Submitted, Answered, Reserving
  <2>5. StagedFaithful' /\ CompletionStaged' /\ GrantedFaithful' /\ PendingAccounted'
    BY DEF IInv, StagedFaithful, CompletionStaged, GrantedFaithful, PendingAccounted,
           Reserving, Control
  <2>. QED
    BY <2>1, <2>2, <2>4, <2>5 DEF IInv
<1>. QED
  BY <1>1, <1>2

(* A commit: what was staged reaches both ledgers.  After the reservation the
   admitted orders are pending and known; after the completion every granted
   request has its order on disk, past pending. *)
LEMMA CommitStep ==
  ASSUME IInv, Commit
  PROVE  IInv'
<1>. DEFINE M == Apply(mem, change)
            D == Apply(disk, change)
<1>a. /\ pc = "commit" /\ mem' = M /\ disk' = D /\ failed' = failed
      /\ listed' = listed /\ books' = books /\ nextEid' = nextEid /\ faults' = faults
      /\ engineOrders' = ApplyIndex(engineOrders, mem, change)
  BY DEF Commit, Logged
<1>b. /\ M \in LedgerType /\ D \in LedgerType
      /\ PricesValid(M) /\ PricesValid(D) /\ MarketsIn(M) /\ MarketsIn(D) /\ Covers(D, M)
      /\ \A x \in OrderIds :
           /\ M.orders[x] = IF change.orders[x] = NoOrder THEN mem.orders[x] ELSE change.orders[x]
           /\ D.orders[x] = IF change.orders[x] = NoOrder THEN disk.orders[x] ELSE change.orders[x]
           /\ D.orders[x] # NoOrder => M.orders[x] # NoOrder
      /\ \A r \in acked :
           /\ D.orders[r.id] # NoOrder
           /\ SameOrder(D.orders[r.id], r)
           /\ D.orders[r.id].status # "pending"
  BY <1>a, CommitLedgers
<1>. HIDE DEF M, D
<1>c. /\ engineOrders' \subseteq Markets \X Nat \X OrderIds
      /\ \A e \in engineOrders' : mem'.orders[e[3]] # NoOrder
  <2>1. \A x \in OrderIds : change.orders[x] # NoOrder =>
          change.orders[x].market \in Markets /\ change.orders[x].eid \in Nat
    BY DEF IInv, TypeOK, LedgerType, Order
  <2>2. ASSUME NEW e \in engineOrders'
        PROVE  \/ e \in engineOrders
               \/ \E x \in OrderIds : /\ change.orders[x] # NoOrder
                                       /\ e = <<change.orders[x].market, change.orders[x].eid, x>>
    BY <1>a DEF ApplyIndex
  <2>3. ASSUME NEW e \in engineOrders'
        PROVE  e \in Markets \X Nat \X OrderIds /\ mem'.orders[e[3]] # NoOrder
    <3>1. CASE e \in engineOrders
      <4>1. e \in Markets \X Nat \X OrderIds /\ mem.orders[e[3]] # NoOrder
        BY <3>1 DEF IInv, TypeOK, Control
      <4>2. e[3] \in OrderIds
        BY <4>1
      <4>. QED  BY <4>1, <4>2, <1>a, <1>b
    <3>2. CASE \E x \in OrderIds :
                 /\ change.orders[x] # NoOrder
                 /\ e = <<change.orders[x].market, change.orders[x].eid, x>>
      BY <3>2, <2>1, <1>a, <1>b
    <3>. QED  BY <2>2, <3>1, <3>2
  <2>. QED  BY <2>3
<1>d. ~failed /\ failed' \in BOOLEAN /\ faults' \in 0..MaxFaults
      /\ listed' \subseteq Symbols /\ books' \in [Symbols -> SUBSET Resting]
      /\ nextEid' \in [Engines -> Nat]
  BY <1>a DEF IInv, TypeOK, Control
<1>e. PricesValid(mem') /\ PricesValid(disk') /\ MarketsIn(mem') /\ MarketsIn(disk')
      /\ Covers(disk', mem') /\ mem' \in LedgerType /\ disk' \in LedgerType
  BY <1>a, <1>b
<1>f. \A x \in OrderIds : change.orders[x] # NoOrder /\ ~Reserving =>
        /\ mem.orders[x] # NoOrder
        /\ SameOrder(change.orders[x], mem.orders[x])
        /\ change.orders[x].status # "pending"
  BY DEF IInv, StagedFaithful
<1>g. \A k \in 1..Len(admitted) : admitted[k] \in OrderIds
  BY DEF IInv, TypeOK
<1>h. \A e \in Engines : taker[e] = NoTaker
  BY <1>a DEF IInv, Control
<1>1. CASE after = "return"
  <2>1. Return /\ acked' = acked \cup granted /\ ~Reserving
    BY <1>1, <1>a DEF Commit, Reserving
  <2>2. op \in {"create", "deposit", "place", "cancel", "resolve"}
    BY <1>1, <1>a DEF IInv, Control
  <2>3. ASSUME NEW x \in OrderIds, mem'.orders[x] # NoOrder
        PROVE  mem'.orders[x].status # "pending"
    <3>1. CASE change.orders[x] # NoOrder
      BY <3>1, <1>a, <1>b, <1>f, <2>1
    <3>2. CASE change.orders[x] = NoOrder
      <4>1. mem'.orders[x] = mem.orders[x]
        BY <3>2, <1>a, <1>b
      <4>2. SUFFICES ASSUME mem.orders[x].status = "pending" PROVE FALSE
        BY <4>1
      <4>3. op = "place" /\ \E k \in 1..Len(admitted) : admitted[k] = x
        BY <2>2, <2>3, <4>1, <4>2, <1>a, <1>d DEF IInv, PendingAccounted
      <4>. QED  BY <1>1, <1>a, <3>2, <4>3 DEF IInv, CompletionStaged
    <3>. QED  BY <3>1, <3>2
  <2>4. ASSUME NEW r \in granted
        PROVE  /\ D.orders[r.id] # NoOrder
               /\ SameOrder(D.orders[r.id], r)
               /\ D.orders[r.id].status # "pending"
    <3>1. op = "place"
      BY DEF IInv, Control
    <3>2. PICK k \in 1..Len(admitted) : admitted[k] = r.id
      BY <3>1 DEF IInv, GrantedFaithful
    <3>3. r.id \in OrderIds /\ change.orders[r.id] # NoOrder
      BY <3>1, <3>2, <1>1, <1>a, <1>g DEF IInv, CompletionStaged
    <3>4. SameOrder(mem.orders[r.id], r)
      BY <3>1, <2>1 DEF IInv, GrantedFaithful
    <3>5. SameOrder(change.orders[r.id], r) /\ change.orders[r.id].status # "pending"
      BY <3>3, <3>4, <2>1, <1>f DEF SameOrder
    <3>. QED  BY <3>3, <3>5, <1>b
  <2>5. AckDurable' /\ acked' \subseteq Requests
    BY <2>1, <2>4, <1>a, <1>b DEF AckDurable, IInv, TypeOK
  <2>6. ScratchCleared /\ op' = "none" /\ pc' = "idle" /\ after' = "idle" /\ ~failed'
    BY <2>1, <1>a, <1>d DEF Return
  <2>7. \A x \in OrderIds : disk'.orders[x] # NoOrder => mem'.orders[x] # NoOrder
    BY <1>a, <1>b
  <2>. QED
    BY <1>c, <1>d, <1>e, <2>3, <2>5, <2>6, <2>7, OperationEnds
<1>2. CASE after # "return"
  <2>a. /\ pc' = after /\ after' = "idle" /\ change' = Empty /\ cur' = 1 /\ op' = op
        /\ reqs' = reqs /\ admitted' = admitted /\ granted' = granted /\ todo' = todo
        /\ target' = target /\ taker' = taker /\ results' = results /\ acked' = acked
    BY <1>2 DEF Commit
  <2>b. \/ after = "engine" /\ op = "place"
        \/ after \in {"fill", "recover"} /\ op = "recover"
    BY <1>2, <1>a DEF IInv, Control
  <2>c. ~Reserving'
    BY <2>a, <2>b DEF Reserving
  <2>d. \A x \in OrderIds : mem.orders[x] # NoOrder => mem'.orders[x] # NoOrder
    BY <1>a, <1>b
  <2>1. TypeOK'
    BY <1>a, <1>c, <1>d, <1>e, <2>a, <2>b, EmptyLedger DEF IInv, TypeOK
  <2>2. (PricesValid(mem) /\ PricesValid(disk) /\ PricesValid(change))'
    BY <1>e, <2>a, EmptyLedger DEF PricesValid
  <2>3. MemInDisk' /\ MemComplete'
    BY <1>a, <1>b, <1>e DEF MemInDisk, Covers, MemComplete
  <2>4. MarketsKnown'
    BY <1>e, <2>a, EmptyLedger DEF MarketsKnown, MarketsIn
  <2>5. Control'
    <3>1. CASE after = "engine"
      <4>1. op = "place" /\ Reserving /\ Len(admitted) >= 1
        BY <3>1, <2>b, <1>a DEF Reserving, IInv, Control
      <4>2. \A k \in 1..Len(admitted) : mem'.orders[admitted[k]] # NoOrder
        BY <4>1, <1>a, <1>b, <1>g DEF IInv, Control
      <4>. QED
        BY <3>1, <4>1, <4>2, <1>a, <1>c, <1>d, <1>h, <2>a, <2>c DEF Control, Submitted, Answered
    <3>2. CASE after = "fill"
      <4>1. /\ op = "recover" /\ Len(admitted) = 1 /\ DOMAIN results = 1..Len(admitted)
            /\ \A k \in 1..Len(admitted) : mem'.orders[admitted[k]] # NoOrder
        BY <3>2, <2>b, <2>d, <1>a, <1>g DEF Submitted, Answered, IInv, Control
      <4>2. \A x \in todo : mem'.orders[x] # NoOrder
        BY <4>1, <2>d DEF IInv, Control, TypeOK
      <4>3. granted = {}
        BY <4>1 DEF IInv, Control
      <4>4. /\ pc' = "fill" /\ cur' \in 1..Len(admitted') /\ DOMAIN results' = 1..Len(admitted')
            /\ Len(admitted') = 1 /\ op' = "recover" /\ granted' = {} /\ after' = "idle"
            /\ \A k \in 1..Len(admitted') : mem'.orders[admitted'[k]] # NoOrder
            /\ \A x \in todo' : mem'.orders[x] # NoOrder
            /\ \A e \in Engines : taker'[e] = NoTaker
        <5>1. cur' = 1 /\ admitted' = admitted /\ Len(admitted) = 1
          BY <4>1, <2>a
        <5>2. cur' \in 1..Len(admitted')
          BY <5>1
        <5>. QED  BY <3>2, <4>1, <4>2, <4>3, <5>2, <1>h, <2>a
      <4>. QED
        BY <4>4, <1>a, <1>c, <1>d, <2>c DEF Control, Submitted, Answered
    <3>3. CASE after = "recover"
      <4>1. op = "recover"
        BY <3>3, <2>b
      <4>2. \A x \in todo : mem'.orders[x] # NoOrder
        BY <4>1, <2>d DEF IInv, Control, TypeOK
      <4>3. granted = {}
        BY <4>1 DEF IInv, Control
      <4>. QED
        BY <3>3, <4>1, <4>2, <4>3, <1>a, <1>c, <1>d, <1>h, <2>a, <2>c
           DEF Control, Submitted, Answered
    <3>. QED  BY <2>b, <3>1, <3>2, <3>3
  <2>6. StagedFaithful'
    BY <2>a, EmptyLedger DEF StagedFaithful
  <2>7. CompletionStaged'
    BY <2>a, <2>b DEF CompletionStaged
  <2>8. GrantedFaithful'
    <3>1. SUFFICES ASSUME op = "place", NEW r \in granted
                   PROVE  /\ \E k \in 1..Len(admitted) : admitted[k] = r.id
                          /\ SameOrder(mem'.orders[r.id], r)
      BY <2>a, <2>c DEF GrantedFaithful
    <3>2. Reserving
      BY <3>1, <2>b, <1>a DEF Reserving
    <3>3. PICK k \in 1..Len(admitted) : admitted[k] = r.id
      BY <3>1 DEF IInv, GrantedFaithful
    <3>4. change.orders[r.id] # NoOrder /\ r.id \in OrderIds
      BY <3>2, <3>3, <1>g DEF IInv, Control
    <3>5. SameOrder(change.orders[r.id], r)
      BY <3>1, <3>2 DEF IInv, GrantedFaithful
    <3>. QED  BY <3>3, <3>4, <3>5, <1>a, <1>b
  <2>9. PendingAccounted'
    <3>1. SUFFICES ASSUME NEW x \in OrderIds, mem'.orders[x] # NoOrder,
                          mem'.orders[x].status = "pending"
                   PROVE  \/ op = "place" /\ \E k \in 1..Len(admitted) : admitted[k] = x
                          \/ op = "recover" /\ x \in todo
      BY <2>a, <2>c DEF PendingAccounted
    <3>2. CASE op = "place"
      <4>1. Reserving
        BY <3>2, <2>b, <1>a DEF Reserving
      <4>2. change.orders[x] # NoOrder
        BY <3>1, <4>1, <3>2, <1>a, <1>b, <1>d DEF IInv, PendingAccounted
      <4>. QED  BY <3>2, <4>1, <4>2 DEF IInv, Control
    <3>3. CASE op = "recover"
      <4>1. ~Reserving
        BY <3>3, <2>b, <1>a DEF Reserving
      <4>2. change.orders[x] = NoOrder /\ mem'.orders[x] = mem.orders[x]
        BY <3>1, <4>1, <1>a, <1>b, <1>f
      <4>3. \/ x \in todo
            \/ after = "fill" /\ admitted[1] = x
        BY <3>1, <3>3, <4>2, <1>a, <1>d DEF IInv, PendingAccounted
      <4>4. after = "fill" => change.orders[admitted[1]] # NoOrder
        BY <1>a DEF IInv, CompletionStaged
      <4>. QED  BY <3>3, <4>2, <4>3, <4>4
    <3>. QED  BY <2>b, <3>2, <3>3
  <2>10. AckDurable'
    BY <2>a, <1>a, <1>b DEF AckDurable
  <2>. QED
    BY <2>1, <2>2, <2>3, <2>4, <2>5, <2>6, <2>7, <2>8, <2>9, <2>10 DEF IInv
<1>. QED
  BY <1>1, <1>2

(* An engine takes an order its partition owns. *)
LEMMA EngineAcceptStep ==
  ASSUME IInv, NEW k \in 1..Len(admitted), EngineAccept(k)
  PROVE  IInv'
<1>. DEFINE e == EngineOf(k)
            o == mem.orders[admitted[k]]
            t == [k |-> k, eid |-> nextEid[e] + 1, left |-> SubmittedQty(o), trades |-> <<>>]
<1>s. Submitted
  BY DEF EngineAccept, Submitted
<1>a. k \in Nat /\ o \in Order
  BY <1>s, AdmittedKnown DEF IInv, TypeOK
<1>b. e \in Engines
  BY <1>s, AdmittedKnown
<1>c. t \in Taker /\ t # NoTaker
  <2>1. nextEid[e] + 1 \in Nat
    <3>1. nextEid[e] \in Nat
      BY <1>b DEF IInv, TypeOK
    <3>. QED  BY <3>1
  <2>2. SubmittedQty(o) \in Int
    <3>1. o.qty \in Nat /\ o.filled \in Nat
      <4>. HIDE DEF o
      <4>. QED  BY <1>a DEF Order
    <3>. HIDE DEF o
    <3>. QED  BY <3>1 DEF SubmittedQty, Remaining
  <2>. DEFINE n == nextEid[e] + 1
              left == SubmittedQty(o)
  <2>3. n \in Nat /\ left \in Int /\ k \in Nat
    BY <1>a, <2>1, <2>2
  <2>. HIDE DEF n, left
  <2>4. [k |-> k, eid |-> n, left |-> left, trades |-> <<>>] \in Taker
    BY <2>3 DEF Taker
  <2>. QED  BY <2>4, ConstantsAssumption DEF n, left
<1>d. taker' = [taker EXCEPT ![e] = t]
  BY DEF EngineAccept
<1>e. t.k = k /\ EngineOf(t.k) = e
  OBVIOUS
<1>. HIDE DEF t, e
<1>f. /\ taker' \in [Engines -> Taker \cup {NoTaker}]
      /\ \A x \in Engines : taker'[x] = IF x = e THEN t ELSE taker[x]
  BY <1>b, <1>c, <1>d DEF IInv, TypeOK
<1>g. nextEid' \in [Engines -> Nat]
  BY <1>b DEF IInv, TypeOK, EngineAccept, e
<1>1. TypeOK'
  BY <1>b, <1>e, <1>f, <1>g DEF IInv, TypeOK, EngineAccept, service, control, scratch
<1>2. (PricesValid(mem) /\ PricesValid(disk) /\ PricesValid(change))' /\ MemInDisk' /\
      MemComplete' /\ MarketsKnown' /\ AckDurable'
  BY <1>b, <1>e, <1>f, <1>g DEF IInv, PricesValid, MemInDisk, Covers, MemComplete, MarketsKnown, MarketsIn,
     AckDurable, EngineAccept, service, control, scratch
<1>3. Control'
  <2>1. \A x \in Engines : taker'[x] # NoTaker =>
          /\ taker'[x].k \in 1..Len(admitted)
          /\ taker'[x].k \notin DOMAIN results
          /\ EngineOf(taker'[x].k) = x
    <3>1. k \notin DOMAIN results
      BY DEF EngineAccept
    <3>. QED  BY <1>e, <1>f, <3>1 DEF IInv, Control, e
  <2>2. \A j : EngineOf(j)' = EngineOf(j)
    BY DEF EngineAccept, EngineOf, SymbolOf, service, scratch
  <2>. QED
    BY <2>1, <2>2 DEF IInv, Control, EngineAccept, service, control, scratch, Submitted,
       Answered, Reserving
<1>4. StagedFaithful' /\ CompletionStaged' /\ GrantedFaithful' /\ PendingAccounted'
  BY <1>b, <1>e, <1>f, <1>g DEF IInv, StagedFaithful, Reserving, CompletionStaged, Control,
     GrantedFaithful, PendingAccounted, EngineAccept, service, control, scratch
<1>. QED
  BY <1>1, <1>2, <1>3, <1>4 DEF IInv

(* A trade takes at most what both sides have. *)
LEMMA EngineMatchStep ==
  ASSUME IInv, NEW e \in Engines, EngineMatch(e)
  PROVE  IInv'
<1>. DEFINE t == taker[e]
            s == TakerSymbol(e)
<1>a. /\ t \in Taker /\ t.k \in 1..Len(admitted) /\ t.left > 0
  BY DEF EngineMatch, MoreToTrade, IInv, TypeOK, Control
<1>b. s \in Symbols
  BY <1>a, AdmittedKnown DEF EngineMatch, Submitted, TakerSymbol
<1>1a. PICK maker \in books[s] :
        LET q == Least(t.left, maker.qty)
            trade == IF TakerSide(e) = "buy"
                     THEN [buy |-> t.eid, sell |-> maker.eid, price |-> maker.price, qty |-> q]
                     ELSE [buy |-> maker.eid, sell |-> t.eid, price |-> maker.price, qty |-> q]
        IN  /\ books' = [books EXCEPT ![s] = Take(@, maker, q)]
            /\ taker' = [taker EXCEPT ![e].left = @ - q, ![e].trades = Append(@, trade)]
  BY DEF EngineMatch
<1>. DEFINE q == Least(t.left, maker.qty)
            trade == IF TakerSide(e) = "buy"
                     THEN [buy |-> t.eid, sell |-> maker.eid, price |-> maker.price, qty |-> q]
                     ELSE [buy |-> maker.eid, sell |-> t.eid, price |-> maker.price, qty |-> q]
            n == [t EXCEPT !.left = @ - q, !.trades = Append(@, trade)]
<1>c. maker \in Resting /\ books[s] \subseteq Resting
  BY <1>b DEF IInv, TypeOK
<1>d. q \in Nat /\ q <= maker.qty
  BY <1>a, <1>c DEF Least, Resting, Taker
<1>e. trade \in Trade
  BY <1>a, <1>c, <1>d DEF Trade, Taker, Resting
<1>f. n \in Taker /\ n.k = t.k /\ n # NoTaker
  <2>. DEFINE left == t.left - q
              trades == Append(t.trades, trade)
  <2>1. left \in Int
    <3>. HIDE DEF q, t
    <3>. QED  BY <1>a, <1>d DEF Taker
  <2>2. trades \in Seq(Trade)
    <3>. HIDE DEF trade, t
    <3>. QED  BY <1>a, <1>e DEF Taker
  <2>3. n = [t EXCEPT !.left = left, !.trades = trades]
    <3>. HIDE DEF q, trade, t
    <3>. QED  BY <1>a DEF Taker
  <2>. HIDE DEF left, trades, t, n
  <2>4. n \in Taker /\ n.k = t.k
    BY <1>a, <2>1, <2>2, <2>3 DEF Taker
  <2>. QED  BY <2>4, ConstantsAssumption
<1>g. taker' = [taker EXCEPT ![e] = n]
  BY <1>1a, <1>a DEF IInv, TypeOK
<1>h. Take(books[s], maker, q) \subseteq Resting
  <2>. HIDE DEF q
  <2>. QED  BY <1>c, <1>d DEF Take, Resting
<1>i. books' \in [Symbols -> SUBSET Resting]
  BY <1>b, <1>h, <1>1a DEF IInv, TypeOK
<1>. HIDE DEF n
<1>j. /\ taker' \in [Engines -> Taker \cup {NoTaker}]
      /\ \A x \in Engines : taker'[x] = IF x = e THEN n ELSE taker[x]
  BY <1>f, <1>g DEF IInv, TypeOK
<1>1. TypeOK'
  BY <1>i, <1>j DEF IInv, TypeOK, EngineMatch, service, control, scratch
<1>2. (PricesValid(mem) /\ PricesValid(disk) /\ PricesValid(change))' /\ MemInDisk' /\
      MemComplete' /\ MarketsKnown' /\ AckDurable'
  BY DEF IInv, PricesValid, MemInDisk, Covers, MemComplete, MarketsKnown, MarketsIn, AckDurable, EngineMatch,
     service, control, scratch
<1>3. Control'
  <2>1. \A x \in Engines : taker'[x] # NoTaker =>
          /\ taker'[x].k \in 1..Len(admitted)
          /\ taker'[x].k \notin DOMAIN results
          /\ EngineOf(taker'[x].k) = x
    BY <1>f, <1>j DEF IInv, Control, EngineMatch
  <2>2. \A j : EngineOf(j)' = EngineOf(j)
    BY DEF EngineMatch, EngineOf, SymbolOf, service, scratch
  <2>. QED
    BY <2>1, <2>2 DEF IInv, Control, EngineMatch, service, control, scratch, Submitted,
       Answered, Reserving
<1>4. StagedFaithful' /\ CompletionStaged' /\ GrantedFaithful' /\ PendingAccounted'
  BY DEF IInv, StagedFaithful, Reserving, CompletionStaged, Control, GrantedFaithful,
     PendingAccounted, EngineMatch, service, control, scratch
<1>. QED
  BY <1>1, <1>2, <1>3, <1>4 DEF IInv

(* The rest of a taker joins the book and its answer is recorded. *)
LEMMA EngineFinishStep ==
  ASSUME IInv, NEW e \in Engines, EngineFinish(e)
  PROVE  IInv'
<1>. DEFINE t == taker[e]
            s == TakerSymbol(e)
            rest == [eid |-> t.eid, side |-> TakerSide(e), price |-> TakerLimit(e), qty |-> t.left]
<1>a. t \in Taker /\ t.k \in 1..Len(admitted)
  BY DEF EngineFinish, IInv, TypeOK, Control
<1>b. /\ s \in Symbols /\ admitted[t.k] \in OrderIds /\ TakerOrder(e) \in Order
      /\ TakerOrder(e).price \in 1..99
  BY <1>a, AdmittedKnown DEF EngineFinish, Submitted, TakerSymbol, TakerOrder
<1>c. TakerLimit(e) \in Nat /\ TakerSide(e) \in EngineSides
  BY <1>b DEF TakerLimit, TakerSide, EnginePrice, EngineSide, EngineSides
<1>d. t.left > 0 => rest \in Resting
  BY <1>a, <1>c DEF Taker, Resting
<1>e. books' = [books EXCEPT ![s] = IF t.left > 0 THEN @ \cup {rest} ELSE @]
  BY DEF EngineFinish
<1>f. books' \in [Symbols -> SUBSET Resting]
  <2>. HIDE DEF rest, t, s
  <2>. QED  BY <1>b, <1>d, <1>e DEF IInv, TypeOK
<1>g. /\ DOMAIN results' = DOMAIN results \cup {t.k}
      /\ \A k \in DOMAIN results' : results'[k] \in Result
  <2>1. [eid |-> t.eid, trades |-> t.trades] \in Result
    BY <1>a DEF Taker, Result
  <2>. QED  BY <2>1 DEF EngineFinish, IInv, TypeOK
<1>h. /\ taker' \in [Engines -> Taker \cup {NoTaker}]
      /\ \A x \in Engines : taker'[x] = IF x = e THEN NoTaker ELSE taker[x]
  BY DEF EngineFinish, IInv, TypeOK
<1>1. TypeOK'
  BY <1>a, <1>f, <1>g, <1>h DEF IInv, TypeOK, EngineFinish, service, control, scratch
<1>2. (PricesValid(mem) /\ PricesValid(disk) /\ PricesValid(change))' /\ MemInDisk' /\
      MemComplete' /\ MarketsKnown' /\ AckDurable'
  BY DEF IInv, PricesValid, MemInDisk, Covers, MemComplete, MarketsKnown, MarketsIn, AckDurable, EngineFinish,
     service, control, scratch
<1>3. Control'
  <2>1. \A x \in Engines : taker'[x] # NoTaker =>
          /\ taker'[x].k \in 1..Len(admitted)
          /\ taker'[x].k \notin DOMAIN results'
          /\ EngineOf(taker'[x].k) = x
    BY <1>g, <1>h DEF IInv, Control, EngineFinish
  <2>2. \A j : EngineOf(j)' = EngineOf(j)
    BY DEF EngineFinish, EngineOf, SymbolOf, service, scratch
  <2>. QED
    BY <2>1, <2>2 DEF IInv, Control, EngineFinish, service, control, scratch, Submitted,
       Answered, Reserving
<1>4. StagedFaithful' /\ CompletionStaged' /\ GrantedFaithful' /\ PendingAccounted'
  BY DEF IInv, StagedFaithful, Reserving, CompletionStaged, Control, GrantedFaithful,
     PendingAccounted, EngineFinish, service, control, scratch
<1>. QED
  BY <1>1, <1>2, <1>3, <1>4 DEF IInv

(* All answers are in: completion starts at the first order. *)
LEMMA EngineDoneStep ==
  ASSUME IInv, EngineDone
  PROVE  IInv'
<1>1. TypeOK'
  BY DEF IInv, TypeOK, EngineDone, service, engine
<1>2. (PricesValid(mem) /\ PricesValid(disk) /\ PricesValid(change))' /\ MemInDisk' /\
      MemComplete' /\ MarketsKnown' /\ AckDurable'
  BY DEF IInv, PricesValid, MemInDisk, Covers, MemComplete, MarketsKnown, MarketsIn, AckDurable, EngineDone,
     service, engine
<1>3. Control'
  <2>1. \A e \in Engines : taker[e] = NoTaker
    BY DEF IInv, Control, EngineDone
  <2>2. Len(admitted) \in Nat /\ Len(admitted) >= 1
    BY DEF IInv, TypeOK, Control, Submitted, EngineDone
  <2>. QED
    BY <2>1, <2>2 DEF IInv, Control, EngineDone, service, engine, Submitted, Answered, Reserving
<1>4. StagedFaithful' /\ CompletionStaged' /\ GrantedFaithful' /\ PendingAccounted'
  BY DEF IInv, StagedFaithful, Reserving, CompletionStaged, Control, GrantedFaithful,
     PendingAccounted, EngineDone, service, engine
<1>. QED
  BY <1>1, <1>2, <1>3, <1>4 DEF IInv

(* NOT_FOUND from an engine latches a failure or, in recovery, ends the
   process. *)
LEMMA BookMissingStep ==
  ASSUME IInv, BookMissing
  PROVE  IInv'
BY OperationOver DEF BookMissing, IInv, TypeOK, Fail, Return, Exit

(* Completion stages the order with its engine id, past pending. *)
LEMMA StageOrderStep ==
  ASSUME IInv, StageOrder
  PROVE  IInv'
<1>. DEFINE id == admitted[cur]
            o == mem.orders[id]
            status == IF o.filled > 0 THEN "partial" ELSE "open"
            n == [o EXCEPT !.eid = results[cur].eid, !.status = status]
<1>a. /\ cur \in 1..Len(admitted) /\ id \in OrderIds /\ o \in Order /\ o # NoOrder
      /\ results[cur].eid \in Nat
  BY DEF IInv, TypeOK, Control, Submitted, Answered, StageOrder, LedgerType, Result
<1>b. status \in OrderStatuses \ {"pending"}
  BY DEF OrderStatuses, ActiveStatuses
<1>c. /\ n \in Order /\ n # NoOrder /\ n.status # "pending"
      /\ n.price = o.price /\ n.market = o.market /\ SameOrder(n, o)
  <2>. HIDE DEF status, o
  <2>. QED  BY <1>a, <1>b, ConstantsAssumption DEF Order, SameOrder
<1>d. change' = OrderEvent(change, id, n, 0)
  BY DEF StageOrder
<1>. HIDE DEF n
<1>e. change' \in LedgerType /\ change'.orders = [change.orders EXCEPT ![id] = n]
  BY <1>a, <1>c, <1>d, OrderEventLedger DEF IInv, TypeOK
<1>f. \A x \in OrderIds : change'.orders[x] = IF x = id THEN n ELSE change.orders[x]
  BY <1>e DEF IInv, TypeOK, LedgerType
<1>g. mem.markets[n.market] # NoMarket /\ n.price \in 1..99
  BY <1>a, <1>c DEF IInv, MarketsKnown, MarketsIn, PricesValid
<1>h. \A j \in 1..Len(admitted) : admitted[j] \in OrderIds
  BY DEF IInv, TypeOK
<1>1. TypeOK'
  BY <1>a, <1>c, <1>e, <1>f DEF IInv, TypeOK, StageOrder, service, engine
<1>2. (PricesValid(mem) /\ PricesValid(disk) /\ PricesValid(change))'
  BY ZenonT(30), <1>a, <1>c, <1>e, <1>f DEF IInv, PricesValid, StageOrder, service, engine
<1>3. MemInDisk'
  BY <1>a, <1>c, <1>e, <1>f DEF IInv, MemInDisk, Covers, StageOrder, service, engine
<1>4. MemComplete'
  BY <1>a, <1>c, <1>e, <1>f DEF IInv, MemComplete, StageOrder, service, engine
<1>5. MarketsKnown'
  BY ZenonT(30), <1>a, <1>c, <1>e, <1>f, <1>g DEF IInv, MarketsKnown, MarketsIn, StageOrder, service, engine
<1>6. Control'
  BY <1>a, <1>c, <1>e, <1>f DEF IInv, Control, Reserving, Submitted, Answered, StageOrder,
     service, engine
<1>7. StagedFaithful'
  BY <1>a, <1>c, <1>e, <1>f DEF IInv, StagedFaithful, Reserving, StageOrder, service, engine
<1>8. CompletionStaged'
  <2>1. admitted' = admitted /\ cur' = cur /\ op' = op
    BY DEF StageOrder
  <2>2. CASE op = "recover"
    <3>1. Len(admitted) = 1
      BY <2>2 DEF IInv, Control, Submitted, StageOrder
    <3>2. cur = 1 /\ pc' = "commit" /\ after' = "fill"
      BY <1>a, <2>2, <3>1 DEF StageOrder
    <3>. QED  BY <1>a, <1>c, <1>f, <2>1, <2>2, <3>2 DEF CompletionStaged
  <2>3. CASE op = "place"
    <3>1. pc' = "fill"
      BY <2>3 DEF StageOrder
    <3>2. \A j \in 1..(cur - 1) : change.orders[admitted[j]] # NoOrder
      BY <2>3 DEF IInv, CompletionStaged, StageOrder
    <3>3. ASSUME NEW j \in 1..cur
          PROVE  change'.orders[admitted[j]] # NoOrder
      <4>1. Len(admitted) \in Nat /\ cur \in Nat
        BY DEF IInv, TypeOK
      <4>2. j \in 1..Len(admitted) /\ (j = cur \/ j \in 1..(cur - 1))
        BY <1>a, <4>1
      <4>. QED  BY <1>a, <1>c, <1>f, <1>h, <3>2, <4>2
    <3>. QED  BY <2>1, <2>3, <3>1, <3>3 DEF CompletionStaged
  <2>. QED
    BY <2>2, <2>3 DEF IInv, Control, StageOrder
<1>9. GrantedFaithful'
  BY <1>a, <1>c, <1>e, <1>f DEF IInv, GrantedFaithful, Reserving, Control, StageOrder,
     service, engine
<1>10. PendingAccounted'
  BY <1>a, <1>c, <1>e, <1>f DEF IInv, PendingAccounted, Reserving, Control, StageOrder,
     service, engine
<1>11. AckDurable'
  BY <1>a, <1>c, <1>e, <1>f DEF IInv, AckDurable, StageOrder, service, engine
<1>. QED
  BY <1>1, <1>2, <1>3, <1>4, <1>5, <1>6, <1>7, <1>8, <1>9, <1>10, <1>11 DEF IInv

(* Fills move known orders forward and drop nothing that was staged. *)
LEMMA StageFillStep ==
  ASSUME IInv, StageFill
  PROVE  IInv'
<1>. DEFINE t == Head(results[cur].trades)
            m == mem.orders[admitted[cur]].market
            buyers == Lookup(m, t.buy)
            sellers == Lookup(m, t.sell)
<1>a. /\ cur \in 1..Len(admitted) /\ cur \in DOMAIN results /\ results[cur] \in Result
      /\ results[cur].trades # <<>> /\ results[cur].trades \in Seq(Trade)
  BY DEF StageFill, IInv, TypeOK, Control, Answered, Result
<1>b. t.qty \in Nat /\ t.price \in Nat
  <2>1. t \in Trade
    BY <1>a
  <2>. QED  BY <2>1 DEF Trade
<1>c. ASSUME NEW eid, NEW id \in Lookup(m, eid)
      PROVE  id \in OrderIds /\ mem.orders[id] # NoOrder
  <2>1. \A x \in engineOrders : x[3] \in OrderIds /\ mem.orders[x[3]] # NoOrder
    BY DEF IInv, TypeOK, Control
  <2>2. Len(admitted) \in Nat /\ \A j \in 1..cur : j \in 1..Len(admitted)
    BY <1>a DEF IInv, TypeOK
  <2>3. \A j \in 1..cur : admitted[j] \in OrderIds /\ mem.orders[admitted[j]] # NoOrder
    BY <2>2, AdmittedKnown DEF StageFill, Submitted
  <2>4. \A x \in OwnIndex : x[3] \in OrderIds /\ mem.orders[x[3]] # NoOrder
    BY <2>3 DEF OwnIndex
  <2>. QED  BY <2>1, <2>4 DEF Lookup
<1>d. ~Reserving /\ Forward(change)
  BY DEF StageFill, Reserving, Forward, IInv, TypeOK, StagedFaithful
<1>e. Forward(change')
  <2>1. CASE UNCHANGED change
    BY <2>1, <1>d
  <2>2. CASE \E b \in buyers, s \in sellers :
               LET half == FillEvents(change, b, Staged(b), t.qty, t.price)
                   seller == IF half.orders[s] # NoOrder
                             THEN half.orders[s] ELSE mem.orders[s]
               IN  change' = FillEvents(half, s, seller, t.qty, t.price)
    <3>1. PICK b \in buyers, s \in sellers :
               LET half == FillEvents(change, b, Staged(b), t.qty, t.price)
                   seller == IF half.orders[s] # NoOrder
                             THEN half.orders[s] ELSE mem.orders[s]
               IN  change' = FillEvents(half, s, seller, t.qty, t.price)
      BY <2>2
    <3>. DEFINE half == FillEvents(change, b, Staged(b), t.qty, t.price)
                seller == IF half.orders[s] # NoOrder THEN half.orders[s] ELSE mem.orders[s]
    <3>2. /\ b \in OrderIds /\ mem.orders[b] # NoOrder
          /\ s \in OrderIds /\ mem.orders[s] # NoOrder
      BY <1>c
    <3>3. Forward(half)
      <4>. HIDE DEF t
      <4>. QED  BY <1>b, <1>d, <3>2, FillForward DEF Staged
    <3>4. Forward(FillEvents(half, s, seller, t.qty, t.price))
      <4>. HIDE DEF t, half
      <4>. QED  BY <1>b, <3>2, <3>3, FillForward
    <3>. QED  BY <3>1, <3>4
  <2>. QED  BY <2>1, <2>2 DEF StageFill
<1>f. /\ change' \in LedgerType /\ PricesValid(change')
      /\ \A id \in OrderIds : change'.orders[id] # NoOrder =>
           /\ mem.orders[id] # NoOrder
           /\ SameOrder(change'.orders[id], mem.orders[id])
           /\ change'.orders[id].status # "pending"
      /\ \A id \in OrderIds : change.orders[id] # NoOrder => change'.orders[id] # NoOrder
  BY <1>e DEF Forward
<1>g. /\ DOMAIN results' = DOMAIN results
      /\ \A k \in DOMAIN results' : results'[k] \in Result
  <2>. DEFINE n == [results[cur] EXCEPT !.trades = Tail(@)]
  <2>1. n \in Result
    <3>. DEFINE rest == Tail(results[cur].trades)
    <3>1. rest \in Seq(Trade)
      BY <1>a
    <3>2. n = [results[cur] EXCEPT !.trades = rest]
      OBVIOUS
    <3>. HIDE DEF rest, n
    <3>. QED  BY <1>a, <3>1, <3>2 DEF Result
  <2>2. results' = [results EXCEPT ![cur] = n]
    BY DEF StageFill
  <2>. HIDE DEF n
  <2>. QED  BY <2>1, <2>2, <1>a DEF IInv, TypeOK
<1>h. \A j \in 1..Len(admitted) : admitted[j] \in OrderIds
  BY DEF IInv, TypeOK
<1>i. \A j \in 1..cur : j \in 1..Len(admitted)
  <2>1. Len(admitted) \in Nat
    BY DEF IInv, TypeOK
  <2>. QED  BY <1>a, <2>1
<1>1. TypeOK'
  BY <1>a, <1>f, <1>g DEF IInv, TypeOK, StageFill, service, control
<1>2. (PricesValid(mem) /\ PricesValid(disk) /\ PricesValid(change))' /\ MemInDisk' /\
      MemComplete' /\ AckDurable'
  BY <1>a, <1>f, <1>g DEF IInv, PricesValid, MemInDisk, Covers, MemComplete, AckDurable, StageFill,
     service, control
<1>3. MarketsKnown'
  BY <1>a, <1>f, <1>g DEF IInv, MarketsKnown, MarketsIn, StageFill, service, control, SameOrder
<1>4. Control'
  BY <1>a, <1>f, <1>g DEF IInv, Control, Reserving, Submitted, Answered, StageFill, service,
     control, TypeOK
<1>5. StagedFaithful' /\ GrantedFaithful' /\ PendingAccounted'
  BY <1>a, <1>f, <1>g DEF IInv, StagedFaithful, Reserving, GrantedFaithful, Control,
     PendingAccounted, StageFill, service, control
<1>6. CompletionStaged'
  BY <1>a, <1>f, <1>g, <1>h, <1>i DEF IInv, CompletionStaged, Control, StageFill, service,
     control
<1>. QED
  BY <1>1, <1>2, <1>3, <1>4, <1>5, <1>6 DEF IInv

(* Completion goes on to the next order or to the commit. *)
LEMMA FillsDoneStep ==
  ASSUME IInv, FillsDone
  PROVE  IInv'
<1>1. TypeOK'
  BY DEF IInv, TypeOK, FillsDone, service, engine
<1>2. (PricesValid(mem) /\ PricesValid(disk) /\ PricesValid(change))' /\ MemInDisk' /\
      MemComplete' /\ MarketsKnown' /\ AckDurable'
  BY DEF IInv, PricesValid, MemInDisk, Covers, MemComplete, MarketsKnown, MarketsIn, AckDurable, FillsDone,
     service, engine
<1>3. Control'
  <2>1. /\ op \in {"place", "recover"} /\ cur \in 1..Len(admitted) /\ Len(admitted) \in Nat
        /\ DOMAIN results = 1..Len(admitted) /\ op' = op /\ cur' \in 1..Len(admitted)
        /\ \A e \in Engines : taker[e] = NoTaker
    BY DEF FillsDone, IInv, TypeOK, Control, Answered
  <2>2. \/ pc' = "stage"
        \/ op = "recover" /\ change = Empty /\ pc' = "recover"
        \/ op = "recover" /\ pc' = "commit" /\ after' = "recover"
        \/ op = "place" /\ pc' = "commit" /\ after' = "return"
    BY <2>1 DEF FillsDone
  <2>. QED
    BY <2>1, <2>2 DEF FillsDone, IInv, Control, Submitted, Answered, Reserving, service, engine
<1>4. StagedFaithful' /\ GrantedFaithful' /\ PendingAccounted'
  BY DEF IInv, StagedFaithful, Reserving, GrantedFaithful, Control, PendingAccounted,
     FillsDone, service, engine
<1>5. CompletionStaged'
  BY DEF IInv, CompletionStaged, Control, FillsDone, service, engine, TypeOK, Answered
<1>. QED
  BY <1>1, <1>2, <1>3, <1>4, <1>5 DEF IInv

(* An order taken off the book is staged as cancelled. *)
LEMMA RemoveOrderStep ==
  ASSUME IInv, NEW id \in todo, RemoveOrder(id)
  PROVE  IInv'
<1>a. id \in OrderIds /\ mem.orders[id] \in Order /\ mem.orders[id] # NoOrder
  BY DEF IInv, TypeOK, Control, RemoveOrder, OnBook, LedgerType
<1>. DEFINE closed == [mem.orders[id] EXCEPT !.status = "cancelled"]
<1>b. /\ change' \in LedgerType
      /\ change'.orders = [change.orders EXCEPT ![id] = closed]
  <2>1. change \in LedgerType /\ change' = ReleaseEvents(change, id, mem.orders[id])
    BY DEF IInv, TypeOK, RemoveOrder
  <2>2. /\ ReleaseEvents(change, id, mem.orders[id]) \in LedgerType
        /\ ReleaseEvents(change, id, mem.orders[id]).orders = [change.orders EXCEPT ![id] = closed]
    BY <1>a, <2>1, ReleaseLedger
  <2>. QED  BY <2>1, <2>2
<1>c. /\ closed \in Order /\ closed # NoOrder /\ closed.status = "cancelled"
      /\ closed.price = mem.orders[id].price /\ closed.market = mem.orders[id].market
      /\ SameOrder(closed, mem.orders[id])
  BY <1>a, ConstantsAssumption DEF Order, OrderStatuses, SameOrder
<1>. HIDE DEF closed
<1>d. \A x \in OrderIds : change'.orders[x] = IF x = id THEN closed ELSE change.orders[x]
  BY <1>b DEF IInv, TypeOK, LedgerType
<1>e. books' \in [Symbols -> SUBSET Resting]
  BY DEF IInv, TypeOK, RemoveOrder, OnEngine
<1>1. TypeOK'
  BY <1>a, <1>b, <1>c, <1>d, <1>e DEF IInv, TypeOK, RemoveOrder, service, control
<1>2. (PricesValid(mem) /\ PricesValid(disk) /\ PricesValid(change))' /\ MemInDisk' /\
      MemComplete' /\ MarketsKnown' /\ AckDurable'
  <2>1. (PricesValid(mem) /\ PricesValid(disk) /\ PricesValid(change))'
    BY <1>a, <1>b, <1>c, <1>d DEF IInv, PricesValid, RemoveOrder, service, control
  <2>2. MemInDisk' /\ MemComplete' /\ AckDurable'
    BY DEF IInv, MemInDisk, Covers, MemComplete, AckDurable, RemoveOrder, service, control
  <2>3. MarketsKnown'
    BY <1>a, <1>b, <1>c, <1>d DEF IInv, MarketsKnown, MarketsIn, RemoveOrder, service, control
  <2>. QED  BY <2>1, <2>2, <2>3
<1>3. Control'
  BY <1>a, <1>b, <1>c, <1>d DEF IInv, Control, Reserving, Submitted, Answered, RemoveOrder,
     service, control
<1>4. StagedFaithful' /\ CompletionStaged' /\ GrantedFaithful' /\ PendingAccounted'
  BY <1>a, <1>b, <1>c, <1>d DEF IInv, StagedFaithful, Reserving, CompletionStaged, Control,
     GrantedFaithful, PendingAccounted, RemoveOrder, service, control
<1>. QED
  BY <1>1, <1>2, <1>3, <1>4 DEF IInv

(* A rejected removal ends the operation with the ledgers as they were. *)
LEMMA RemoveRejectedStep ==
  ASSUME IInv, NEW id \in todo, RemoveRejected(id)
  PROVE  IInv'
<1>1. \A x \in OrderIds : mem.orders[x] # NoOrder => mem.orders[x].status # "pending"
  BY DEF IInv, PendingAccounted, Control, RemoveRejected
<1>. QED
  BY <1>1, OperationOver DEF RemoveRejected, IInv, TypeOK, Control, Return, service

(* Settlement adds payouts and the market; no order changes. *)
LEMMA RemoveDoneStep ==
  ASSUME IInv, RemoveDone
  PROVE  IInv'
<1>. DEFINE m == target.market
            status == IF target.outcome = "yes" THEN "resolved_yes" ELSE "resolved_no"
            market == [mem.markets[m] EXCEPT !.status = status]
            paid == PayoutEvents(change, mem, m, target.outcome)
<1>a. /\ change' \in LedgerType /\ change'.orders = change.orders
  <2>1. CASE op = "resolve"
    <3>1. m \in Markets /\ mem.markets[m] \in Market /\ target.outcome \in Outcomes
      BY <2>1 DEF IInv, TypeOK, Control, RemoveDone, LedgerType
    <3>2. market \in Market
      <4>1. status \in MarketStatuses
        BY DEF MarketStatuses
      <4>. HIDE DEF status, m
      <4>. QED  BY <3>1, <4>1 DEF Market
    <3>3. paid \in LedgerType /\ paid.orders = change.orders
      BY <3>1, PayoutLedger DEF IInv, TypeOK
    <3>4. change' = MarketEvent(paid, m, market)
      BY <2>1 DEF RemoveDone
    <3>. HIDE DEF paid, market, m
    <3>. QED  BY <3>1, <3>2, <3>3, <3>4, MarketEventLedger
  <2>2. CASE op # "resolve"
    BY <2>2 DEF RemoveDone, IInv, TypeOK
  <2>. QED  BY <2>1, <2>2
<1>1. TypeOK'
  BY <1>a DEF IInv, TypeOK, RemoveDone, service, engine
<1>2. (PricesValid(mem) /\ PricesValid(disk) /\ PricesValid(change))' /\ MemInDisk' /\
      MemComplete' /\ MarketsKnown' /\ AckDurable'
  BY <1>a DEF IInv, PricesValid, MemInDisk, Covers, MemComplete, MarketsKnown, MarketsIn, AckDurable,
     RemoveDone, service, engine
<1>3. Control'
  BY <1>a DEF IInv, Control, Reserving, Submitted, Answered, RemoveDone, service, engine
<1>4. StagedFaithful' /\ CompletionStaged' /\ GrantedFaithful' /\ PendingAccounted'
  BY <1>a DEF IInv, StagedFaithful, Reserving, CompletionStaged, Control, GrantedFaithful,
     PendingAccounted, RemoveDone, service, engine
<1>. QED
  BY <1>1, <1>2, <1>3, <1>4 DEF IInv

(* Recovery hands one known order to the engine. *)
LEMMA RecoverNextStep ==
  ASSUME IInv, NEW id \in todo, RecoverNext(id)
  PROVE  IInv'
<1>1. TypeOK'
  BY DEF IInv, TypeOK, RecoverNext, service
<1>2. (PricesValid(mem) /\ PricesValid(disk) /\ PricesValid(change))' /\ MemInDisk' /\
      MemComplete' /\ MarketsKnown' /\ AckDurable'
  BY DEF IInv, PricesValid, MemInDisk, Covers, MemComplete, MarketsKnown, MarketsIn, AckDurable, RecoverNext,
     service
<1>3. Control'
  <2>1. /\ admitted' = <<id>> /\ Len(admitted') = 1 /\ admitted'[1] = id
        /\ mem.orders[id] # NoOrder /\ taker = [e \in Engines |-> NoTaker]
    BY DEF IInv, TypeOK, Control, RecoverNext, Active
  <2>. QED
    BY <2>1 DEF IInv, Control, RecoverNext, service, Submitted, Answered, Reserving
<1>4. StagedFaithful' /\ CompletionStaged' /\ GrantedFaithful' /\ PendingAccounted'
  BY DEF IInv, StagedFaithful, Reserving, CompletionStaged, Control, GrantedFaithful,
     PendingAccounted, RecoverNext, service
<1>. QED
  BY <1>1, <1>2, <1>3, <1>4 DEF IInv

(* Recovery ends with no order left pending. *)
LEMMA RecoverDoneStep ==
  ASSUME IInv, RecoverDone
  PROVE  IInv'
<1>1. \A x \in OrderIds : mem.orders[x] # NoOrder => mem.orders[x].status # "pending"
  BY DEF IInv, PendingAccounted, Control, RecoverDone
<1>. QED
  BY <1>1, OperationOver DEF RecoverDone, IInv, TypeOK, Control, Return, service

(* A failed commit may have reached the disk: what it staged never takes back
   an acknowledged order. *)
LEMMA CommitFailsStep ==
  ASSUME IInv, CommitFails
  PROVE  IInv'
<1>. DEFINE M == Apply(mem, change)
            D == Apply(disk, change)
<1>1. pc = "commit" /\ (disk' = disk \/ disk' = D)
  BY DEF CommitFails, Logged
<1>2. /\ faults' \in 0..MaxFaults /\ mem' = mem /\ engineOrders' = engineOrders
      /\ listed' = listed /\ books' = books /\ nextEid' = nextEid /\ acked' = acked
  BY ConstantsAssumption DEF IInv, TypeOK, CommitFails, Fault
<1>3. /\ ScratchCleared /\ op' = "none" /\ after' = "idle" /\ failed' \in BOOLEAN
      /\ (pc' = "down" /\ failed' = FALSE) \/ (pc' = "idle" /\ failed' = TRUE)
  <2>1. CASE op = "recover"
    BY <2>1 DEF CommitFails, Fail, Exit
  <2>2. CASE op # "recover"
    BY <2>2 DEF CommitFails, Fail, Return
  <2>. QED  BY <2>1, <2>2
<1>4. CASE disk' = disk
  BY <1>2, <1>3, <1>4, OperationOver
<1>5. CASE disk' = D
  <2>1. /\ D \in LedgerType /\ PricesValid(D) /\ MarketsIn(D) /\ Covers(D, mem)
        /\ \A r \in acked :
              /\ D.orders[r.id] # NoOrder
              /\ SameOrder(D.orders[r.id], r)
              /\ D.orders[r.id].status # "pending"
    BY <1>1, CommitLedgers
  <2>. HIDE DEF D
  <2>2. AckDurable'
    BY <1>2, <1>5, <2>1 DEF AckDurable
  <2>3. /\ mem' \in LedgerType /\ acked' \subseteq Requests
        /\ engineOrders' \subseteq Markets \X Nat \X OrderIds
        /\ listed' \subseteq Symbols /\ books' \in [Symbols -> SUBSET Resting]
        /\ nextEid' \in [Engines -> Nat]
    BY <1>2 DEF IInv, TypeOK
  <2>4. /\ PricesValid(mem') /\ MarketsIn(mem')
        /\ \A e \in engineOrders' : mem'.orders[e[3]] # NoOrder
    BY <1>2 DEF IInv, MarketsKnown, MarketsIn, Control
  <2>5. PricesValid(disk') /\ MarketsIn(disk') /\ Covers(disk', mem')
    BY <1>2, <1>5, <2>1
  <2>6. disk' \in LedgerType
    BY <1>5, <2>1
  <2>. QED
    BY <1>2, <1>3, <2>2, <2>3, <2>4, <2>5, <2>6, OperationEnds
<1>. QED
  BY <1>1, <1>4, <1>5

(* A failed engine call ends the operation and changes no ledger. *)
LEMMA EngineErrorStep ==
  ASSUME IInv, EngineError
  PROVE  IInv'
<1>1. faults' \in 0..MaxFaults
  BY ConstantsAssumption DEF IInv, TypeOK, EngineError, Fault
<1>. QED
  BY <1>1, OperationOver DEF EngineError, IInv, TypeOK, Fail, Return, Exit

(* A crash changes no ledger. *)
LEMMA CrashStep ==
  ASSUME IInv, Crash
  PROVE  IInv'
<1>1. faults' \in 0..MaxFaults
  BY ConstantsAssumption DEF IInv, TypeOK, Crash, Fault
<1>. QED
  BY <1>1, OperationOver DEF Crash, IInv, TypeOK, Fail, Return, Exit

(* An engine that restarts alone loses its own books only. *)
LEMMA EngineRestartStep ==
  ASSUME IInv, NEW e \in Engines, EngineRestart(e)
  PROVE  IInv'
<1>a. faults' \in 0..MaxFaults
  BY ConstantsAssumption DEF IInv, TypeOK, EngineRestart, Fault
<1>b. books' \in [Symbols -> SUBSET Resting]
  BY DEF IInv, TypeOK, EngineRestart
<1>1. TypeOK'
  BY <1>a, <1>b DEF IInv, TypeOK, EngineRestart, Fault, service, control, scratch
<1>2. (PricesValid(mem) /\ PricesValid(disk) /\ PricesValid(change))' /\ MemInDisk' /\
      MemComplete' /\ MarketsKnown' /\ AckDurable'
  BY DEF IInv, PricesValid, MemInDisk, Covers, MemComplete, MarketsKnown, MarketsIn, AckDurable, EngineRestart,
     Fault, service, control, scratch
<1>3. Control'
  BY DEF IInv, Control, Reserving, Submitted, Answered, EngineRestart, Fault, service,
     control, scratch, TypeOK, EngineOf, SymbolOf
<1>4. StagedFaithful' /\ CompletionStaged' /\ GrantedFaithful' /\ PendingAccounted'
  BY DEF IInv, StagedFaithful, Reserving, CompletionStaged, Control, GrantedFaithful,
     PendingAccounted, EngineRestart, Fault, service, control, scratch
<1>. QED
  BY <1>1, <1>2, <1>3, <1>4 DEF IInv

(* The operator stops a failed service; no ledger changes. *)
LEMMA StopStep ==
  ASSUME IInv, Stop
  PROVE  IInv'
BY OperationOver DEF Stop, IInv, TypeOK, Exit

(* Replay: memory becomes what the disk knows, and every pending order is on
   the list recovery works through. *)
LEMMA StartStep ==
  ASSUME IInv, Start
  PROVE  IInv'
<1>a. /\ mem'.markets = disk.markets /\ mem' \in LedgerType
      /\ \A x \in OrderIds :
           IF Active(disk.orders[x])
           THEN /\ mem'.orders[x] \in Order
                /\ mem'.orders[x].status = disk.orders[x].status
                /\ mem'.orders[x].market = disk.orders[x].market
                /\ mem'.orders[x].price = disk.orders[x].price
                /\ SameOrder(disk.orders[x], mem'.orders[x])
           ELSE mem'.orders[x] = disk.orders[x]
  <2>. DEFINE again == [x \in OrderIds |-> IF x \in RecoverableOrders(disk)
                                            THEN [disk.orders[x] EXCEPT !.eid = 0]
                                            ELSE disk.orders[x]]
  <2>1. mem' = [disk EXCEPT !.orders = again]
    BY DEF Start
  <2>2. \A x \in OrderIds : x \in RecoverableOrders(disk) <=> Active(disk.orders[x])
    BY DEF RecoverableOrders
  <2>3. ASSUME NEW x \in OrderIds, Active(disk.orders[x])
        PROVE  disk.orders[x] \in Order /\ [disk.orders[x] EXCEPT !.eid = 0] \in Order
    <3>1. disk.orders[x] \in Order
      BY <2>3 DEF IInv, TypeOK, LedgerType, Active
    <3>. DEFINE o == disk.orders[x]
    <3>2. [o EXCEPT !.eid = 0] \in Order
      <4>. HIDE DEF o
      <4>. QED  BY <3>1 DEF Order, o
    <3>. QED  BY <3>1, <3>2
  <2>4. again \in [OrderIds -> Order \cup {NoOrder}]
    BY <2>2, <2>3 DEF IInv, TypeOK, LedgerType
  <2>5. ASSUME NEW x \in OrderIds, Active(disk.orders[x])
        PROVE  /\ again[x] \in Order
               /\ again[x].status = disk.orders[x].status
               /\ again[x].market = disk.orders[x].market
               /\ again[x].price = disk.orders[x].price
               /\ SameOrder(disk.orders[x], again[x])
    BY <2>2, <2>3, <2>5 DEF Order, SameOrder
  <2>6. \A x \in OrderIds : ~Active(disk.orders[x]) => again[x] = disk.orders[x]
    BY <2>2
  <2>. HIDE DEF again
  <2>7. mem'.orders = again /\ mem'.markets = disk.markets /\ mem' \in LedgerType
    BY <2>1, <2>4 DEF IInv, TypeOK, LedgerType
  <2>. QED  BY <2>5, <2>6, <2>7
<1>b. /\ listed' \subseteq Symbols /\ books' \in [Symbols -> SUBSET Resting]
      /\ nextEid' \in [Engines -> Nat] /\ todo' \subseteq OrderIds
  BY DEF Start, IInv, TypeOK, LedgerType, Market, RecoverableOrders
<1>c. \A x \in OrderIds : mem'.orders[x] # NoOrder <=> disk.orders[x] # NoOrder
  BY <1>a, ConstantsAssumption DEF Active
<1>d. \A x \in todo' : Active(mem'.orders[x])
  BY <1>a, ConstantsAssumption DEF Start, RecoverableOrders, Active
<1>e. \A x \in OrderIds : mem'.orders[x] # NoOrder =>
        /\ mem'.orders[x].status = disk.orders[x].status
        /\ mem'.orders[x].market = disk.orders[x].market
        /\ mem'.orders[x].price = disk.orders[x].price
        /\ SameOrder(disk.orders[x], mem'.orders[x])
  BY <1>a DEF SameOrder
<1>f. \A x \in OrderIds : disk.orders[x] # NoOrder /\ disk.orders[x].status = "pending" => x \in todo'
  BY DEF Start, RecoverableOrders, Active, ActiveStatuses
<1>1. TypeOK'
  BY <1>c, <1>e, <1>a, <1>b DEF IInv, TypeOK, Start
<1>2. (PricesValid(mem) /\ PricesValid(disk) /\ PricesValid(change))' /\ MemInDisk' /\
      MemComplete' /\ AckDurable'
  BY SMTT(30), <1>c, <1>e DEF IInv, PricesValid, MemInDisk, Covers, MemComplete, AckDurable, Start
<1>3. MarketsKnown'
  BY <1>c, <1>e, <1>a, EmptyLedger DEF IInv, MarketsKnown, MarketsIn, Start, Control
<1>4. Control'
  BY <1>c, <1>e, <1>d DEF IInv, Control, Reserving, Submitted, Answered, Start, Active
<1>5. StagedFaithful'
  BY <1>c, <1>e, EmptyLedger DEF IInv, StagedFaithful, Reserving, Start, Control
<1>6. CompletionStaged' /\ GrantedFaithful'
  BY <1>c, <1>e DEF IInv, CompletionStaged, Control, GrantedFaithful, Reserving, Start
<1>7. PendingAccounted'
  BY <1>c, <1>e, <1>f DEF IInv, PendingAccounted, Reserving, Control, Start
<1>. QED
  BY <1>1, <1>2, <1>3, <1>4, <1>5, <1>6, <1>7 DEF IInv

-----------------------------------------------------------------------------
(* The empty service NewWithConfig starts from satisfies the invariant. *)
LEMMA InitIInv == Init => IInv
<1>1. SUFFICES ASSUME Init PROVE IInv
  OBVIOUS
<1>2. NoTarget \in [market : Markets \cup {NoMarket}, outcome : Outcomes]
  BY DEF NoTarget, Outcomes
<1>3. TypeOK
  <2>1. books \in [Symbols -> SUBSET Resting] /\ nextEid \in [Engines -> Nat]
        /\ taker \in [Engines -> Taker \cup {NoTaker}]
    BY <1>1 DEF Init
  <2>2. DOMAIN results = {} /\ Len(admitted) = 0 /\ reqs \in Seq(Requests) /\ admitted \in Seq(OrderIds)
    BY <1>1 DEF Init
  <2>3. faults \in 0..MaxFaults
    BY <1>1, ConstantsAssumption DEF Init
  <2>4. /\ mem = Empty /\ disk = Empty /\ change = Empty /\ engineOrders = {}
        /\ failed \in BOOLEAN /\ op = "none" /\ pc = "idle" /\ after = "idle" /\ cur = 1
        /\ granted = {} /\ todo = {} /\ target = NoTarget /\ listed = {} /\ acked = {}
    BY <1>1 DEF Init
  <2>. QED
    BY <1>2, <2>1, <2>2, <2>3, <2>4, EmptyLedger DEF TypeOK
<1>4. PricesValid(mem) /\ PricesValid(disk) /\ PricesValid(change)
  BY <1>1, EmptyLedger DEF Init, PricesValid
<1>5. MemInDisk /\ MemComplete /\ MarketsKnown
  BY <1>1, EmptyLedger DEF Init, MemInDisk, Covers, MemComplete, MarketsKnown, MarketsIn
<1>6. Control
  BY <1>1 DEF Init, Control, Submitted, Answered, Reserving
<1>7. StagedFaithful /\ CompletionStaged /\ GrantedFaithful /\ PendingAccounted /\ AckDurable
  BY <1>1, EmptyLedger DEF Init, StagedFaithful, CompletionStaged, GrantedFaithful,
     PendingAccounted, AckDurable
<1>. QED
  BY <1>3, <1>4, <1>5, <1>6, <1>7 DEF IInv

(* Every step of the service, its engines and their faults keeps it. *)
LEMMA NextIInv == IInv /\ [Next]_vars => IInv'
<1>1. SUFFICES ASSUME IInv, [Next]_vars PROVE IInv'
  OBVIOUS
<1>2. CASE Client
  BY <1>1, <1>2, CreateMarketForStep, DepositStep, PlaceStep, CancelStep, ResolveForStep DEF Client
<1>3. CASE Progress
  <2>1. CASE AdmitNext \/ AdmissionDone \/ Commit \/ EngineDone \/ BookMissing \/ StageOrder
             \/ StageFill \/ FillsDone \/ RemoveDone \/ RecoverDone
    BY <1>1, <2>1, AdmitNextStep, AdmissionDoneStep, CommitStep, EngineDoneStep, BookMissingStep,
       StageOrderStep, StageFillStep, FillsDoneStep, RemoveDoneStep, RecoverDoneStep
  <2>2. CASE \E k \in 1..Len(admitted) : EngineAccept(k)
    BY <1>1, <2>2, EngineAcceptStep
  <2>3. CASE \E e \in Engines : EngineMatch(e) \/ EngineFinish(e)
    BY <1>1, <2>3, EngineMatchStep, EngineFinishStep
  <2>4. CASE \E id \in todo : RemoveOrder(id) \/ RemoveRejected(id) \/ RecoverNext(id)
    BY <1>1, <2>4, RemoveOrderStep, RemoveRejectedStep, RecoverNextStep
  <2>. QED  BY <1>3, <2>1, <2>2, <2>3, <2>4 DEF Progress
<1>4. CASE Faults
  BY <1>1, <1>4, AddBookUncertainStep, CommitFailsStep, EngineErrorStep, CrashStep,
     EngineRestartStep DEF Faults
<1>5. CASE Stop \/ Start
  BY <1>1, <1>5, StopStep, StartStep
<1>6. CASE UNCHANGED vars
  <2>. USE <1>1, <1>6 DEF vars, service, control, scratch, engine
  <2>1. TypeOK'
    BY DEF IInv, TypeOK
  <2>2. (PricesValid(mem) /\ PricesValid(disk) /\ PricesValid(change))'
    BY DEF IInv, PricesValid
  <2>3. MemInDisk' /\ MemComplete' /\ MarketsKnown'
    BY DEF IInv, MemInDisk, Covers, MemComplete, MarketsKnown, MarketsIn
  <2>4. Control'
    BY DEF IInv, Control, Submitted, Answered, Reserving, EngineOf, SymbolOf
  <2>5. StagedFaithful' /\ CompletionStaged' /\ GrantedFaithful' /\ PendingAccounted' /\ AckDurable'
    BY DEF IInv, StagedFaithful, CompletionStaged, GrantedFaithful, PendingAccounted, AckDurable,
       Reserving
  <2>. QED  BY <2>1, <2>2, <2>3, <2>4, <2>5 DEF IInv
<1>. QED
  BY <1>1, <1>2, <1>3, <1>4, <1>5, <1>6 DEF Next

(* The inductive invariant holds in every reachable state. *)
LEMMA Invariance == Spec => []IInv
BY InitIInv, NextIInv, PTL DEF Spec

(* Every variable keeps its type: in particular no quantity of a trade, a
   resting order or an order ever goes below zero, where the code's unsigned types
   would wrap. *)
THEOREM TypeCorrect == Spec => []TypeOK
<1>1. IInv => TypeOK
  BY DEF IInv
<1>. QED  BY <1>1, Invariance, PTL

(* A client that was told its order succeeded finds that order on disk, past
   pending, whatever failed, crashed or was retried since (placeBatchWithQuotes,
   commitMany, RecoverEngine). *)
THEOREM AcknowledgedOrdersSurvive == Spec => []AckDurable
<1>1. IInv => AckDurable
  BY DEF IInv
<1>. QED  BY <1>1, Invariance, PTL

-----------------------------------------------------------------------------
(***************************************************************************)
(* What SInv says on top of IInv: memory against disk, the engines against *)
(* the disk, and the durable history.                                      *)
(***************************************************************************)
(* No share is touched outside market m. *)
OnlyShares(c, d, m) == \A h \in Holdings : d.pos[h] # c.pos[h] => h[2] = m

(* A service without history holds no share. *)
LEMMA EmptyShares == \A h \in Holdings : Empty.pos[h] = 0
BY DEF Empty

(* An order event moves no share, a position event only its own. *)
LEMMA EventShares ==
  ASSUME NEW c \in LedgerType
  PROVE  /\ \A id \in OrderIds, o \in Order, a \in Int : OrderEvent(c, id, o, a).pos = c.pos
         /\ \A m \in Markets, market \in Market : MarketEvent(c, m, market).pos = c.pos
         /\ \A u \in Users, a \in Int : BalanceEvent(c, u, a).pos = c.pos
         /\ \A u \in Users, m \in Markets, x \in Outcomes, n \in Int, a \in Int :
              OnlyShares(c, PositionEvent(c, u, m, x, n, a), m)
<1>1. \A id \in OrderIds, o \in Order, a \in Int : OrderEvent(c, id, o, a).pos = c.pos
  BY DEF OrderEvent, LedgerType
<1>2. \A m \in Markets, market \in Market : MarketEvent(c, m, market).pos = c.pos
  BY DEF MarketEvent, LedgerType
<1>3. \A u \in Users, a \in Int : BalanceEvent(c, u, a).pos = c.pos
  BY DEF BalanceEvent, LedgerType
<1>4. ASSUME NEW u \in Users, NEW m \in Markets, NEW x \in Outcomes, NEW n \in Int, NEW a \in Int
      PROVE  OnlyShares(c, PositionEvent(c, u, m, x, n, a), m)
  <2>. DEFINE pos == [c.pos EXCEPT ![<<u, m, x>>] = @ + n]
              d == PositionEvent(c, u, m, x, n, a)
  <2>1. d.pos = pos
    BY DEF PositionEvent, LedgerType
  <2>2. ASSUME NEW h \in Holdings, pos[h] # c.pos[h] PROVE h[2] = m
    <3>1. c.pos \in [Holdings -> Int]
      BY DEF LedgerType
    <3>2. h = <<u, m, x>>
      BY <2>2, <3>1
    <3>. QED  BY <3>2
  <2>. HIDE DEF pos, d
  <2>. QED  BY <2>1, <2>2 DEF OnlyShares, d
<1>. QED  BY <1>1, <1>2, <1>3, <1>4

(* Reserving, releasing and filling touch the shares of the order's market. *)
LEMMA OrderShares ==
  ASSUME NEW c \in LedgerType, NEW id \in OrderIds, NEW o \in Order
  PROVE  /\ OnlyShares(c, ReserveEvents(c, id, o), o.market)
         /\ OnlyShares(c, ReleaseEvents(c, id, o), o.market)
         /\ \A q \in Nat, p \in Nat : OnlyShares(c, FillEvents(c, id, o, q, p), o.market)
<1>1. /\ OutcomeOf(o.side) \in Outcomes /\ o.user \in Users /\ o.market \in Markets
      /\ o.qty \in Int /\ o.price \in Int /\ Remaining(o) \in Int
  BY DEF OutcomeOf, Outcomes, Order, Remaining
<1>2. ASSUME NEW n \in Order, NEW a \in Int, NEW k \in Int, NEW b \in Int
      PROVE  /\ OnlyShares(c, OrderEvent(c, id, n, a), o.market)
             /\ OnlyShares(c, PositionEvent(OrderEvent(c, id, n, a),
                                o.user, o.market, OutcomeOf(o.side), k, b), o.market)
  <2>. DEFINE d == OrderEvent(c, id, n, a)
              e == PositionEvent(d, o.user, o.market, OutcomeOf(o.side), k, b)
  <2>1. d \in LedgerType /\ d.pos = c.pos
    <3>1. d \in LedgerType  BY OrderEventLedger
    <3>2. d.pos = c.pos  BY EventShares, Zenon
    <3>. QED  BY <3>1, <3>2
  <2>2. OnlyShares(d, e, o.market)
    <3>. HIDE DEF d
    <3>. QED  BY <1>1, <2>1, EventShares
  <2>. HIDE DEF d, e
  <2>3. OnlyShares(c, d, o.market) /\ OnlyShares(c, e, o.market)
    BY <2>1, <2>2 DEF OnlyShares
  <2>. QED  BY <2>3 DEF d, e
<1>3. OnlyShares(c, ReserveEvents(c, id, o), o.market)
  <2>1. -(o.price * o.qty) \in Int /\ -o.qty \in Int  BY <1>1
  <2>. QED  BY <1>2, <2>1 DEF ReserveEvents
<1>4. OnlyShares(c, ReleaseEvents(c, id, o), o.market)
  <2>1. [o EXCEPT !.status = "cancelled"] \in Order
    BY DEF Order, OrderStatuses
  <2>2. Remaining(o) * o.price \in Int  BY <1>1
  <2>. QED  BY <1>1, <1>2, <2>1, <2>2 DEF ReleaseEvents
<1>5. ASSUME NEW q \in Nat, NEW p \in Nat
      PROVE  OnlyShares(c, FillEvents(c, id, o, q, p), o.market)
  <2>. DEFINE shares == IF IsBuy(o.side) THEN q ELSE 0
              credit == FillCredit(o, q, p)
  <2>1. FilledOrder(o, q) \in Order  BY FilledOrderKept
  <2>2. shares \in Int  OBVIOUS
  <2>3. credit \in Int
    BY <1>1 DEF FillCredit, Order, Sides
  <2>4. FillEvents(c, id, o, q, p) =
          PositionEvent(OrderEvent(c, id, FilledOrder(o, q), 0),
                        o.user, o.market, OutcomeOf(o.side), shares, credit)
    BY DEF FillEvents
  <2>. HIDE DEF shares, credit
  <2>. QED  BY <1>2, <2>1, <2>2, <2>3, <2>4
<1>. QED  BY <1>3, <1>4, <1>5

(* A payout touches only the shares of its market. *)
LEMMA PayoutShares ==
  ASSUME NEW c \in LedgerType, NEW l \in LedgerType, NEW m \in Markets, NEW x \in Outcomes
  PROVE  OnlyShares(c, PayoutEvents(c, l, m, x), m)
<1>. DEFINE pos == [h \in Holdings |-> c.pos[h] - (IF h[2] = m THEN l.pos[h] ELSE 0)]
<1>1. PayoutEvents(c, l, m, x).pos = pos
  BY DEF PayoutEvents, LedgerType
<1>2. \A h \in Holdings : c.pos[h] \in Int
  BY DEF LedgerType
<1>. QED  BY <1>1, <1>2 DEF OnlyShares

(* A fill keeps an order's place in the queue, its engine id and its fills. *)
LEMMA FilledOrderAdvances ==
  ASSUME NEW o \in Order, NEW q \in Nat
  PROVE  /\ FilledOrder(o, q).seq = o.seq /\ FilledOrder(o, q).eid = o.eid
         /\ FilledOrder(o, q).filled >= o.filled
<1>. DEFINE status == IF o.filled + q >= o.qty THEN "filled" ELSE "partial"
            filled == o.filled + q
<1>1. filled \in Nat /\ filled >= o.filled
  BY DEF Order
<1>2. FilledOrder(o, q) = [o EXCEPT !.filled = filled, !.status = status]
  BY DEF FilledOrder
<1>. HIDE DEF status, filled
<1>. QED  BY <1>1, <1>2 DEF Order

-----------------------------------------------------------------------------
(* An operation that is over leaves nothing staged and nothing in an engine's
   hands: what remains to be known is about the ledgers and the index. *)
LEMMA SEnds ==
  ASSUME IInv', ScratchCleared, op' = "none", pc' \in {"idle", "down"},
         MemIsDisk', IndexKeys', ActiveInOpen(mem)', ActiveInOpen(disk)'
  PROVE  SInv'
<1>1. /\ \A id \in OrderIds : change'.orders[id] = NoOrder
      /\ \A m \in Markets : change'.markets[m] = NoMarket
      /\ \A h \in Holdings : change'.pos[h] = 0
      /\ \A e \in Engines : taker'[e] = NoTaker
      /\ Len(admitted') = 0
  BY EmptyLedger, EmptyShares DEF ScratchCleared
<1>2. AwaitingRecovery' /\ StagedAdvances' /\ StagedOpen' /\ SettlementInv'
  BY <1>1 DEF AwaitingRecovery, StagedAdvances, StagedOpen, SettlementInv
<1>3. InEngineActive'
  BY <1>1 DEF InEngineActive, Reserving, Submitted
<1>. QED  BY <1>2, <1>3 DEF SInv

(* The same for an operation that has not touched the ledgers: unless it
   latches a failure or ends the process, no order is being recovered. *)
LEMMA SOver ==
  ASSUME SInv, IInv', ScratchCleared, op' = "none", pc' \in {"idle", "down"},
         mem' = mem, disk' = disk, engineOrders' = engineOrders,
         pc' = "idle" /\ ~failed' =>
           pc # "down" /\ ~failed /\ \A id \in OrderIds : ~Recovering(id)
  PROVE  SInv'
<1>1. \A id \in OrderIds : ~Recovering(id)'
  BY DEF Recovering
<1>2. MemIsDisk'
  BY <1>1 DEF SInv, MemIsDisk
<1>3. IndexKeys' /\ ActiveInOpen(mem)' /\ ActiveInOpen(disk)'
  BY DEF SInv, IndexKeys, ActiveInOpen, IsOpen
<1>. QED  BY <1>2, <1>3, SEnds

(* A failure, an exit, a refused removal, an empty batch, the end of recovery. *)
LEMMA SQuits ==
  ASSUME SInv, IInv',
         \/ BookMissing \/ EngineError \/ Crash \/ Stop
         \/ \E id \in todo : RemoveRejected(id)
         \/ RecoverDone
         \/ AdmissionDone /\ admitted = <<>>
  PROVE  SInv'
<1>1. /\ ScratchCleared /\ op' = "none" /\ pc' \in {"idle", "down"}
      /\ mem' = mem /\ disk' = disk /\ engineOrders' = engineOrders
  BY DEF BookMissing, EngineError, Crash, Stop, RemoveRejected, RecoverDone, AdmissionDone,
         Fail, Return, Exit, service
<1>2. ASSUME pc' = "idle" /\ ~failed'
      PROVE  pc # "down" /\ ~failed /\ \A id \in OrderIds : ~Recovering(id)
  <2>1. CASE BookMissing \/ EngineError \/ Crash \/ Stop
    BY <1>2, <2>1 DEF BookMissing, EngineError, Crash, Stop, Fail, Return, Exit
  <2>2. CASE \E id \in todo : RemoveRejected(id)
    BY <1>2, <2>2 DEF RemoveRejected, service, Recovering, SInv, IInv, Control
  <2>3. CASE RecoverDone
    BY <1>2, <2>3 DEF RecoverDone, service, Recovering
  <2>4. CASE AdmissionDone
    BY <1>2, <2>4 DEF AdmissionDone, service, Recovering, SInv, IInv, Control
  <2>. QED  BY <2>1, <2>2, <2>3, <2>4
<1>. QED  BY <1>1, <1>2, SOver

(* Steps that leave the ledgers alone keep what is known about them. *)
LEMMA SLedgersKept ==
  ASSUME SInv, mem' = mem, disk' = disk, engineOrders' = engineOrders
  PROVE  IndexKeys' /\ ActiveInOpen(mem)' /\ ActiveInOpen(disk)'
BY DEF SInv, IndexKeys, ActiveInOpen, IsOpen

(* They keep memory and disk together as long as recovery is where it was. *)
LEMMA SMemKept ==
  ASSUME SInv, mem' = mem, disk' = disk, failed' = failed, pc # "down",
         \A id \in OrderIds : Recovering(id)' <=> Recovering(id)
  PROVE  MemIsDisk'
BY DEF SInv, MemIsDisk

(* At rest nothing is staged, no order is being recovered or pending. *)
LEMMA SAtRest ==
  ASSUME SInv, Ready
  PROVE  /\ change = Empty /\ op = "none" /\ admitted = <<>> /\ Len(admitted) = 0
         /\ \A id \in OrderIds : change.orders[id] = NoOrder
         /\ \A m \in Markets : change.markets[m] = NoMarket
         /\ \A h \in Holdings : change.pos[h] = 0
         /\ \A id \in OrderIds : ~Recovering(id)
         /\ \A e \in Engines : taker[e] = NoTaker
         /\ \A id \in OrderIds : Active(mem.orders[id]) => OnBook(mem.orders[id])
<1>1. change = Empty /\ op = "none" /\ admitted = <<>> /\ \A e \in Engines : taker[e] = NoTaker
  BY DEF SInv, IInv, Control, Ready
<1>2. \A id \in OrderIds : ~Recovering(id)
  BY <1>1 DEF Recovering
<1>3. \A id \in OrderIds : Active(mem.orders[id]) => OnBook(mem.orders[id])
  BY <1>1 DEF SInv, IInv, PendingAccounted, Ready, Active, OnBook, ActiveStatuses
<1>. QED  BY <1>1, <1>2, <1>3, EmptyLedger, EmptyShares

(* A new market is staged where there was none; no order belongs to it. *)
LEMMA SCreateMarketFor ==
  ASSUME SInv, IInv', NEW c \in Creations, CreateMarketFor(c)
  PROVE  SInv'
<1>a. c.id \in Markets /\ c.symbol \in Symbols /\ c.owner \in Users
  BY ConstantsAssumption
<1>. DEFINE market == [symbol |-> c.symbol, owner |-> c.owner, status |-> "open"]
<1>b. market \in Market /\ market.status = "open"
  BY <1>a DEF Market, MarketStatuses
<1>c. change \in LedgerType /\ change' = MarketEvent(change, c.id, market)
  BY DEF SInv, IInv, TypeOK, CreateMarketFor
<1>. HIDE DEF market
<1>d. change'.orders = change.orders /\ change'.pos = change.pos
      /\ change'.markets = [change.markets EXCEPT ![c.id] = market]
  BY <1>a, <1>b, <1>c, MarketEventLedger, EventShares
<1>e. \A m \in Markets : change'.markets[m] = IF m = c.id THEN market ELSE change.markets[m]
  BY <1>a, <1>c, <1>d DEF LedgerType
<1>f. /\ mem' = mem /\ disk' = disk /\ engineOrders' = engineOrders /\ failed' = failed
      /\ pc' = "commit" /\ after' = "return" /\ op' = "create" /\ admitted' = admitted
      /\ taker' = taker /\ Ready /\ mem.markets[c.id] = NoMarket
  BY DEF CreateMarketFor, service, NewMarket
<1>g. /\ Len(admitted) = 0 /\ \A id \in OrderIds : change.orders[id] = NoOrder
      /\ \A m \in Markets : change.markets[m] = NoMarket
      /\ \A h \in Holdings : change.pos[h] = 0
      /\ \A id \in OrderIds : ~Recovering(id)
      /\ \A e \in Engines : taker[e] = NoTaker
  BY <1>f, SAtRest
<1>1. IndexKeys' /\ ActiveInOpen(mem)' /\ ActiveInOpen(disk)'
  BY <1>f, SLedgersKept
<1>2. MemIsDisk'
  <2>1. \A id \in OrderIds : ~Recovering(id)'
    BY <1>f DEF Recovering
  <2>. QED  BY <1>f, <1>g, <2>1, SMemKept DEF Ready
<1>3. AwaitingRecovery' /\ InEngineActive'
  BY <1>f, <1>g DEF AwaitingRecovery, InEngineActive, Reserving, Submitted
<1>4. StagedAdvances' /\ StagedOpen' /\ SettlementInv'
  BY <1>b, <1>d, <1>e, <1>f, <1>g DEF StagedAdvances, StagedOpen, SettlementInv
<1>. QED  BY <1>1, <1>2, <1>3, <1>4 DEF SInv

(* A deposit, a batch, a cancellation and a settlement begin with nothing
   staged for an order or a market. *)
LEMMA SBegins ==
  ASSUME SInv, IInv', Ready, mem' = mem, disk' = disk, engineOrders' = engineOrders,
         failed' = failed, op' \in {"deposit", "place", "cancel"}, pc' \in {"commit", "admit", "remove"},
         pc' = "commit" => after' = "return",
         admitted' = admitted, taker' = taker, change'.orders = change.orders,
         change'.markets = change.markets, change'.pos = change.pos
  PROVE  SInv'
<1>g. /\ Len(admitted) = 0 /\ \A id \in OrderIds : change.orders[id] = NoOrder
      /\ \A m \in Markets : change.markets[m] = NoMarket
      /\ \A h \in Holdings : change.pos[h] = 0
      /\ \A id \in OrderIds : ~Recovering(id)
      /\ \A e \in Engines : taker[e] = NoTaker
  BY SAtRest
<1>1. IndexKeys' /\ ActiveInOpen(mem)' /\ ActiveInOpen(disk)'
  BY SLedgersKept
<1>2. MemIsDisk'
  <2>1. \A id \in OrderIds : ~Recovering(id)'
    BY DEF Recovering
  <2>. QED  BY <1>g, <2>1, SMemKept DEF Ready
<1>3. AwaitingRecovery' /\ InEngineActive'
  BY <1>g DEF AwaitingRecovery, InEngineActive, Reserving, Submitted
<1>4. StagedAdvances' /\ StagedOpen' /\ SettlementInv'
  BY <1>g DEF StagedAdvances, StagedOpen, SettlementInv
<1>. QED  BY <1>1, <1>2, <1>3, <1>4 DEF SInv

(* A deposit stages cash only. *)
LEMMA SDeposit ==
  ASSUME SInv, IInv', NEW u \in Users, NEW cents \in DepositSizes, Deposit(u, cents)
  PROVE  SInv'
<1>1. cents \in Int /\ change \in LedgerType /\ change' = BalanceEvent(change, u, cents)
  BY ConstantsAssumption DEF SInv, IInv, TypeOK, Deposit
<1>2. change'.orders = change.orders /\ change'.markets = change.markets /\ change'.pos = change.pos
  BY <1>1, BalanceEventLedger, EventShares
<1>3. Ready /\ mem' = mem /\ disk' = disk /\ engineOrders' = engineOrders
      /\ failed' = failed /\ op' = "deposit" /\ pc' = "commit" /\ after' = "return"
      /\ admitted' = admitted /\ taker' = taker
  BY DEF Deposit, service, engine
<1>. QED  BY <1>2, <1>3, SBegins

(* A batch and a cancellation begin with nothing staged. *)
LEMMA SPlaceOrCancel ==
  ASSUME SInv, IInv', (\E b \in Batches : Place(b)) \/ (\E id \in OrderIds : Cancel(id))
  PROVE  SInv'
<1>1. Ready /\ mem' = mem /\ disk' = disk /\ engineOrders' = engineOrders
      /\ failed' = failed /\ op' \in {"place", "cancel"} /\ pc' \in {"admit", "remove"}
      /\ admitted' = admitted /\ taker' = taker /\ change' = change
  BY DEF Place, Cancel, service, engine
<1>. QED  BY <1>1, SBegins

(* Settlement begins with every active order of its market still to remove. *)
LEMMA SResolveFor ==
  ASSUME SInv, IInv', NEW m \in Markets, NEW x \in Outcomes, NEW u \in Users, ResolveFor(m, x, u)
  PROVE  SInv'
<1>f. /\ mem' = mem /\ disk' = disk /\ engineOrders' = engineOrders /\ failed' = failed
      /\ pc' = "remove" /\ op' = "resolve" /\ admitted' = admitted
      /\ taker' = taker /\ Ready /\ change' = change /\ MarketOpen(m)
      /\ target'.market = m
      /\ todo' = {id \in OrderIds : OnBook(mem.orders[id]) /\ mem.orders[id].market = m}
  BY DEF ResolveFor, service, engine
<1>g. /\ Len(admitted) = 0 /\ \A id \in OrderIds : change.orders[id] = NoOrder
      /\ \A y \in Markets : change.markets[y] = NoMarket
      /\ \A h \in Holdings : change.pos[h] = 0
      /\ \A id \in OrderIds : ~Recovering(id)
      /\ \A e \in Engines : taker[e] = NoTaker
      /\ \A id \in OrderIds : Active(mem.orders[id]) => OnBook(mem.orders[id])
  BY <1>f, SAtRest
<1>1. IndexKeys' /\ ActiveInOpen(mem)' /\ ActiveInOpen(disk)'
  BY <1>f, SLedgersKept
<1>2. MemIsDisk'
  <2>1. \A id \in OrderIds : ~Recovering(id)'
    BY <1>f DEF Recovering
  <2>. QED  BY <1>f, <1>g, <2>1, SMemKept DEF Ready
<1>3. AwaitingRecovery' /\ InEngineActive'
  BY <1>f, <1>g DEF AwaitingRecovery, InEngineActive, Reserving, Submitted
<1>4. StagedAdvances' /\ StagedOpen'
  BY <1>f, <1>g DEF StagedAdvances, StagedOpen
<1>5. SettlementInv'
  BY <1>f, <1>g DEF SettlementInv, Closing, IsOpen, MarketOpen
<1>. QED  BY <1>1, <1>2, <1>3, <1>4, <1>5 DEF SInv

-----------------------------------------------------------------------------
(* Steps of the engines: neither the ledgers nor what is staged changes. *)
LEMMA SEngineSteps ==
  ASSUME SInv, IInv', mem' = mem, disk' = disk, engineOrders' = engineOrders, failed' = failed,
         op' = op, pc' = pc, after' = after, change' = change, todo' = todo,
         admitted' = admitted, target' = target,
         \A e \in Engines : taker'[e] # NoTaker =>
           taker'[e].left <= mem.orders[admitted[taker'[e].k]].qty
  PROVE  SInv'
<1>1. IndexKeys' /\ ActiveInOpen(mem)' /\ ActiveInOpen(disk)'
  BY SLedgersKept
<1>2. MemIsDisk'
  BY DEF SInv, MemIsDisk, Recovering
<1>3. AwaitingRecovery' /\ StagedAdvances' /\ StagedOpen'
  BY DEF SInv, AwaitingRecovery, StagedAdvances, StagedOpen, Submitted, IsOpen
<1>4. InEngineActive'
  BY DEF SInv, InEngineActive, Reserving, Submitted
<1>5. SettlementInv'
  BY DEF SInv, SettlementInv, Closing, IsOpen
<1>. QED  BY <1>1, <1>2, <1>3, <1>4, <1>5 DEF SInv

(* A book that was added without an answer concerns no order. *)
LEMMA SAddBookUncertain ==
  ASSUME SInv, IInv', NEW c \in Creations, AddBookUncertain(c)
  PROVE  SInv'
BY SEngineSteps DEF AddBookUncertain, service, control, scratch, SInv, InEngineActive

(* A lone restart of an engine drops its taker. *)
LEMMA SEngineRestart ==
  ASSUME SInv, IInv', NEW e \in Engines, EngineRestart(e)
  PROVE  SInv'
<1>1. \A x \in Engines : taker'[x] # NoTaker => taker'[x] = taker[x]
  BY DEF EngineRestart, SInv, IInv, TypeOK
<1>. QED  BY <1>1, SEngineSteps DEF EngineRestart, service, control, scratch, SInv, InEngineActive

(* An order is submitted for what is unfilled of it. *)
LEMMA SEngineAccept ==
  ASSUME SInv, IInv', NEW k \in 1..Len(admitted), EngineAccept(k)
  PROVE  SInv'
<1>. DEFINE e == EngineOf(k)
            o == mem.orders[admitted[k]]
<1>1. o \in Order /\ e \in Engines
  BY AdmittedKnown DEF EngineAccept, Submitted, SInv
<1>2. SubmittedQty(o) <= o.qty
  <2>. HIDE DEF o
  <2>. QED  BY <1>1 DEF SubmittedQty, Remaining, Order
<1>3. \A x \in Engines : IF x = e THEN taker'[x].left = SubmittedQty(o) /\ taker'[x].k = k
                         ELSE taker'[x] = taker[x]
  <2>. HIDE DEF e, o
  <2>1. taker' = [taker EXCEPT ![e] = [k |-> k, eid |-> nextEid[e] + 1,
                                       left |-> SubmittedQty(o), trades |-> <<>>]]
    BY DEF EngineAccept, e, o
  <2>. QED  BY <1>1, <2>1 DEF SInv, IInv, TypeOK
<1>4. \A x \in Engines : taker'[x] # NoTaker =>
        taker'[x].left <= mem.orders[admitted[taker'[x].k]].qty
  BY <1>2, <1>3 DEF SInv, InEngineActive
<1>. QED  BY <1>4, SEngineSteps DEF EngineAccept, service, control, scratch

(* A trade takes from what is left. *)
LEMMA SEngineMatch ==
  ASSUME SInv, IInv', NEW e \in Engines, EngineMatch(e)
  PROVE  SInv'
<1>1. PICK q : /\ q \in Nat
               /\ \E trade : taker' = [taker EXCEPT ![e].left = @ - q, ![e].trades = Append(@, trade)]
  <2>1. PICK maker \in books[TakerSymbol(e)] :
          \E trade : taker' = [taker EXCEPT ![e].left = @ - Least(taker[e].left, maker.qty),
                                             ![e].trades = Append(@, trade)]
    BY DEF EngineMatch
  <2>2. taker[e] \in Taker /\ taker[e].left > 0
    BY DEF EngineMatch, MoreToTrade, SInv, IInv, TypeOK
  <2>3. TakerSymbol(e) \in Symbols
    <3>1. Submitted /\ taker[e].k \in 1..Len(admitted)
      BY DEF EngineMatch, SInv, IInv, Control, Submitted
    <3>. QED  BY <3>1, AdmittedKnown DEF TakerSymbol, SInv
  <2>4. maker.qty \in Nat
    BY <2>3 DEF SInv, IInv, TypeOK, Resting
  <2>5. Least(taker[e].left, maker.qty) \in Nat
    BY <2>2, <2>4 DEF Least, Taker
  <2>. QED  BY <2>1, <2>5
<1>2. taker[e] \in Taker
  BY DEF EngineMatch, SInv, IInv, TypeOK
<1>3. \A x \in Engines : IF x = e THEN taker'[x].left = taker[e].left - q /\ taker'[x].k = taker[e].k
                         ELSE taker'[x] = taker[x]
  <2>1. PICK trade : taker' = [taker EXCEPT ![e].left = @ - q, ![e].trades = Append(@, trade)]
    BY <1>1
  <2>2. taker \in [Engines -> Taker \cup {NoTaker}]
    BY DEF SInv, IInv, TypeOK
  <2>. QED  BY <1>2, <2>1, <2>2 DEF Taker
<1>4. \A x \in Engines : taker'[x] # NoTaker =>
        taker'[x].left <= mem.orders[admitted[taker'[x].k]].qty
  <2>1. taker[e].left <= mem.orders[admitted[taker[e].k]].qty
    BY DEF SInv, InEngineActive, EngineMatch
  <2>2. mem.orders[admitted[taker[e].k]].qty \in Nat /\ taker[e].left \in Int
    <3>1. Submitted /\ taker[e].k \in 1..Len(admitted)
      BY DEF EngineMatch, SInv, IInv, Control, Submitted
    <3>. QED  BY <1>2, <3>1, AdmittedKnown DEF SInv, Order, Taker
  <2>3. taker[e].left - q <= mem.orders[admitted[taker[e].k]].qty
    BY <1>1, <2>1, <2>2
  <2>. QED  BY <1>3, <2>3 DEF SInv, InEngineActive
<1>. QED  BY <1>4, SEngineSteps DEF EngineMatch, service, control, scratch

(* An answer takes the order out of the engine's hands. *)
LEMMA SEngineFinish ==
  ASSUME SInv, IInv', NEW e \in Engines, EngineFinish(e)
  PROVE  SInv'
<1>1. \A x \in Engines : taker'[x] # NoTaker => taker'[x] = taker[x]
  BY DEF EngineFinish, SInv, IInv, TypeOK
<1>. QED  BY <1>1, SEngineSteps DEF EngineFinish, service, control, scratch, SInv, InEngineActive

(* Steps that only move on. *)
LEMMA SMovesOn ==
  ASSUME SInv, IInv', mem' = mem, disk' = disk, engineOrders' = engineOrders, failed' = failed,
         op' = op, change' = change, todo' = todo, admitted' = admitted, target' = target,
         taker' = taker, pc # "down", pc' # "remove",
         \A id \in OrderIds : Recovering(id)' <=> Recovering(id),
         Reserving' => Reserving, Submitted' => Submitted,
         pc' = "commit" /\ after' = "fill" => Active(change.orders[admitted[1]])
  PROVE  SInv'
<1>1. IndexKeys' /\ ActiveInOpen(mem)' /\ ActiveInOpen(disk)' /\ MemIsDisk'
  BY SLedgersKept, SMemKept
<1>2. AwaitingRecovery' /\ StagedAdvances' /\ StagedOpen'
  BY DEF SInv, AwaitingRecovery, StagedAdvances, StagedOpen, IsOpen
<1>3. InEngineActive'
  BY DEF SInv, InEngineActive
<1>4. SettlementInv'
  BY DEF SInv, SettlementInv, Closing
<1>. QED  BY <1>1, <1>2, <1>3, <1>4 DEF SInv

(* All answers are in. *)
LEMMA SEngineDone ==
  ASSUME SInv, IInv', EngineDone
  PROVE  SInv'
<1>1. \A id \in OrderIds : Recovering(id)' <=> Recovering(id)
  BY DEF EngineDone, Recovering
<1>. QED  BY <1>1, SMovesOn DEF EngineDone, service, engine, Reserving, Submitted

(* Completion goes on to the next order or to the commit; recovery, which
   submits one order at a time, has no next one. *)
LEMMA SFillsDone ==
  ASSUME SInv, IInv', FillsDone
  PROVE  SInv'
<1>1. pc = "fill" /\ op' = op /\ (op = "recover" => pc' # "stage")
      /\ ~(pc' = "commit" /\ after' = "fill") /\ ~(pc' = "commit" /\ after' = "engine")
      /\ pc' \in {"stage", "recover", "commit"} /\ todo' = todo
  <2>1. /\ cur \in 1..Len(admitted) /\ op \in {"place", "recover"}
        /\ op = "recover" => Len(admitted) = 1
    BY DEF FillsDone, SInv, IInv, Control, Submitted, Answered
  <2>2. ASSUME op = "recover" PROVE ~(cur < Len(admitted))
    <3>1. cur \in Nat /\ cur \in 1..1 /\ Len(admitted) = 1
      BY <2>1, <2>2 DEF SInv, IInv, TypeOK
    <3>. QED  BY <3>1
  <2>. QED  BY <2>1, <2>2 DEF FillsDone
<1>2. \A id \in OrderIds : Recovering(id)' <=> Recovering(id)
  BY <1>1 DEF Recovering
<1>3. ~Reserving' /\ (Submitted' => Submitted)
  BY <1>1 DEF Reserving, Submitted
<1>. QED  BY <1>1, <1>2, <1>3, SMovesOn DEF FillsDone, service, engine

(* The admission loop ends in the commit of the reservations, or in nothing. *)
LEMMA SAdmissionDone ==
  ASSUME SInv, IInv', AdmissionDone
  PROVE  SInv'
<1>1. CASE admitted = <<>>
  BY <1>1, SQuits
<1>2. CASE admitted # <<>>
  <2>1. /\ pc = "admit" /\ pc' = "commit" /\ after' = "engine" /\ op' = op /\ op = "place"
    BY <1>2 DEF AdmissionDone, SInv, IInv, Control
  <2>2. \A id \in OrderIds : Recovering(id)' <=> Recovering(id)
    BY <2>1 DEF Recovering
  <2>3. Reserving /\ ~Submitted'
    BY <2>1 DEF Reserving, Submitted
  <2>. QED  BY <1>2, <2>1, <2>2, <2>3, SMovesOn DEF AdmissionDone, service, scratch
<1>. QED  BY <1>1, <1>2

(* The next order in recovery goes from the list into the engine's hands. *)
LEMMA SRecoverNext ==
  ASSUME SInv, IInv', NEW id \in todo, RecoverNext(id)
  PROVE  SInv'
<1>a. /\ mem' = mem /\ disk' = disk /\ engineOrders' = engineOrders /\ failed' = failed
      /\ op' = op /\ change' = change /\ todo' = todo \ {id} /\ taker' = taker /\ target' = target
      /\ pc = "recover" /\ pc' = "engine" /\ admitted' = <<id>>
  BY DEF RecoverNext, service
<1>b. op = "recover" /\ Len(admitted') = 1 /\ admitted'[1] = id /\ change = Empty
      /\ \A e \in Engines : taker[e] = NoTaker
  BY <1>a DEF SInv, IInv, Control
<1>c. \A x \in OrderIds : Recovering(x)' <=> Recovering(x)
  BY <1>a, <1>b DEF Recovering
<1>1. IndexKeys' /\ ActiveInOpen(mem)' /\ ActiveInOpen(disk)' /\ MemIsDisk'
  BY <1>a, <1>c, SLedgersKept, SMemKept
<1>2. AwaitingRecovery'
  BY <1>a, <1>b DEF SInv, AwaitingRecovery
<1>3. InEngineActive'
  <2>1. Active(mem.orders[id])
    BY <1>b DEF SInv, AwaitingRecovery
  <2>2. ~Reserving'
    BY <1>a DEF Reserving
  <2>. QED  BY <1>a, <1>b, <2>1, <2>2 DEF InEngineActive
<1>4. StagedAdvances' /\ StagedOpen' /\ SettlementInv'
  BY <1>a, <1>b, EmptyLedger, EmptyShares DEF StagedAdvances, StagedOpen, SettlementInv
<1>. QED  BY <1>1, <1>2, <1>3, <1>4 DEF SInv

-----------------------------------------------------------------------------
(* Steps that stage something leave ledgers and control of recovery alone. *)

(* One iteration of the admission loop stages a pending order of an open
   market, or nothing. *)
LEMMA SAdmitNext ==
  ASSUME SInv, IInv', AdmitNext
  PROVE  SInv'
<1>. DEFINE r == reqs[cur]
            n == AdmittedOrder(r)
<1>a. /\ mem' = mem /\ disk' = disk /\ engineOrders' = engineOrders /\ failed' = failed
      /\ op' = op /\ pc' = pc /\ pc = "admit" /\ after' = after /\ todo' = todo
      /\ taker' = taker /\ target' = target /\ op = "place"
      /\ r \in Request /\ r.id \in OrderIds
  BY ConstantsAssumption DEF AdmitNext, service, control, engine, SInv, IInv, TypeOK, Control, Request
<1>b. \A id \in OrderIds : ~Recovering(id) /\ ~Recovering(id)'
  BY <1>a DEF Recovering
<1>c. ~Submitted /\ ~Submitted' /\ Reserving
  BY <1>a DEF Submitted, Reserving
<1>d. \A e \in Engines : taker[e] = NoTaker
  BY <1>a DEF SInv, IInv, Control
<1>1. IndexKeys' /\ ActiveInOpen(mem)' /\ ActiveInOpen(disk)' /\ MemIsDisk'
  BY <1>a, <1>b, SLedgersKept, SMemKept
<1>2. AwaitingRecovery'
  BY <1>a DEF AwaitingRecovery
<1>3. CASE change' = change /\ admitted' = admitted
  <2>1. InEngineActive'
    BY <1>3, <1>a, <1>c, <1>d DEF SInv, InEngineActive
  <2>2. StagedAdvances' /\ StagedOpen' /\ SettlementInv'
    BY <1>3, <1>a DEF SInv, StagedAdvances, StagedOpen, SettlementInv, IsOpen, Closing
  <2>. QED  BY <1>1, <1>2, <2>1, <2>2 DEF SInv
<1>4. CASE /\ change.orders[r.id] = NoOrder /\ mem.orders[r.id] = NoOrder /\ Admissible(r)
           /\ change' = [ReserveEvents(change, r.id, n) EXCEPT !.sequence = @ + 1]
           /\ admitted' = Append(admitted, r.id)
  <2>1. n \in Order /\ n.status = "pending" /\ IsOpen(mem, n.market)
    <3>1. AdmissionSequence \in Nat
      <4>1. mem.sequence \in Nat /\ Len(admitted) \in Nat
        BY DEF SInv, IInv, TypeOK, LedgerType
      <4>. QED  BY <4>1 DEF AdmissionSequence
    <3>2. IsOpen(mem, r.market)
      BY <1>4 DEF Admissible, MarketOpen, IsOpen
    <3>3. "pending" \in OrderStatuses
      BY DEF OrderStatuses, ActiveStatuses
    <3>. HIDE DEF r
    <3>. QED  BY <1>a, <3>1, <3>2, <3>3 DEF AdmittedOrder, Order, Request
  <2>. HIDE DEF n
  <2>2. /\ change'.orders = [change.orders EXCEPT ![r.id] = n]
        /\ change'.markets = change.markets
        /\ OnlyShares(change, change', n.market)
    <3>. DEFINE d == ReserveEvents(change, r.id, n)
    <3>1. change \in LedgerType
      BY DEF SInv, IInv, TypeOK
    <3>2. /\ d \in LedgerType /\ d.orders = [change.orders EXCEPT ![r.id] = n]
          /\ d.markets = change.markets
      BY <1>a, <2>1, <3>1, ReserveLedger
    <3>3. OnlyShares(change, d, n.market)
      BY <1>a, <2>1, <3>1, OrderShares
    <3>4. change' = [d EXCEPT !.sequence = @ + 1]
      BY <1>4
    <3>. HIDE DEF d
    <3>5. change'.orders = d.orders /\ change'.markets = d.markets /\ change'.pos = d.pos
      BY <3>2, <3>4 DEF LedgerType
    <3>. QED  BY <3>2, <3>3, <3>5 DEF OnlyShares
  <2>3. \A x \in OrderIds : change'.orders[x] = IF x = r.id THEN n ELSE change.orders[x]
    BY <1>a, <2>2 DEF SInv, IInv, TypeOK, LedgerType
  <2>4. /\ Len(admitted') = Len(admitted) + 1 /\ Len(admitted) \in Nat
        /\ admitted'[Len(admitted) + 1] = r.id
        /\ \A k \in 1..Len(admitted) : admitted'[k] = admitted[k] /\ admitted[k] \in OrderIds
    <3>. HIDE DEF r
    <3>. QED  BY <1>4, <1>a DEF SInv, IInv, TypeOK
  <2>5. InEngineActive'
    <3>1. ASSUME NEW k \in 1..Len(admitted') PROVE change'.orders[admitted'[k]].status = "pending"
      <4>1. k = Len(admitted) + 1 \/ k \in 1..Len(admitted)
        BY <2>4
      <4>2. CASE k = Len(admitted) + 1
        BY <4>2, <1>a, <2>1, <2>3, <2>4
      <4>3. CASE k \in 1..Len(admitted)
        <5>1. change.orders[admitted[k]] # NoOrder /\ change.orders[admitted[k]].status = "pending"
          BY <4>3, <1>c DEF SInv, IInv, Control, InEngineActive
        <5>2. admitted[k] # r.id
          BY <5>1, <1>4
        <5>. QED  BY <4>3, <5>1, <5>2, <2>3, <2>4
      <4>. QED  BY <4>1, <4>2, <4>3
    <3>. QED  BY <3>1, <1>a, <1>c, <1>d DEF InEngineActive
  <2>6. StagedAdvances'
    BY <1>4, <1>a, <2>3 DEF SInv, StagedAdvances
  <2>7. StagedOpen'
    BY <1>a, <2>1, <2>2, <2>3 DEF SInv, StagedOpen, OnlyShares, IsOpen
  <2>8. SettlementInv'
    BY <1>a, <2>2 DEF SInv, SettlementInv
  <2>. QED  BY <1>1, <1>2, <2>5, <2>6, <2>7, <2>8 DEF SInv
<1>. QED  BY <1>3, <1>4 DEF AdmitNext

(* Completion stages an active order of an open market as open or partial. *)
LEMMA SStageOrder ==
  ASSUME SInv, IInv', StageOrder
  PROVE  SInv'
<1>. DEFINE id == admitted[cur]
            o == mem.orders[id]
            status == IF o.filled > 0 THEN "partial" ELSE "open"
            n == [o EXCEPT !.eid = results[cur].eid, !.status = status]
<1>a. /\ mem' = mem /\ disk' = disk /\ engineOrders' = engineOrders /\ failed' = failed
      /\ op' = op /\ todo' = todo /\ taker' = taker /\ target' = target /\ admitted' = admitted
      /\ pc = "stage" /\ op \in {"place", "recover"}
      /\ IF op = "recover" THEN pc' = "commit" /\ after' = "fill" ELSE pc' = "fill"
  BY DEF StageOrder, service, engine, SInv, IInv, Control
<1>b. /\ cur \in 1..Len(admitted) /\ id \in OrderIds /\ o \in Order /\ o # NoOrder
      /\ results[cur].eid \in Nat /\ Active(o) /\ Submitted
      /\ op = "recover" => Len(admitted) = 1
  <2>1. /\ cur \in 1..Len(admitted) /\ admitted \in Seq(OrderIds) /\ Submitted
        /\ op = "recover" => Len(admitted) = 1
    <3>1. Answered /\ Submitted
      BY <1>a DEF Answered, Submitted
    <3>. QED  BY <3>1 DEF SInv, IInv, TypeOK, Control
  <2>2. \A k \in 1..Len(admitted) : Active(mem.orders[admitted[k]])
    BY <2>1 DEF SInv, InEngineActive
  <2>3. results[cur].eid \in Nat
    <3>1. Answered
      BY <1>a DEF Answered
    <3>2. cur \in DOMAIN results
      BY <2>1, <3>1 DEF SInv, IInv, Control
    <3>. QED  BY <3>2 DEF SInv, IInv, TypeOK, Result
  <2>4. id \in OrderIds /\ o \in Order \cup {NoOrder} /\ Active(o)
    <3>1. id \in OrderIds /\ Active(o)
      BY <2>1, <2>2
    <3>2. mem.orders \in [OrderIds -> Order \cup {NoOrder}]
      BY DEF SInv, IInv, TypeOK, LedgerType
    <3>. QED  BY <3>1, <3>2
  <2>5. o \in Order /\ o # NoOrder
    BY <2>4 DEF Active
  <2>. QED  BY <2>1, <2>3, <2>4, <2>5
<1>c. op = "recover" => cur = 1 /\ id = admitted[1]
  <2>1. SUFFICES ASSUME op = "recover" PROVE cur = 1
    OBVIOUS
  <2>2. cur \in 1..1
    BY <1>b, <2>1
  <2>. QED  BY <2>2
<1>d. status \in {"open", "partial"}
  OBVIOUS
<1>e. /\ n \in Order /\ n # NoOrder /\ Active(n) /\ n.market = o.market /\ n.seq = o.seq
      /\ n.filled = o.filled
  <2>1. status \in OrderStatuses /\ status \in ActiveStatuses
    BY <1>d DEF OrderStatuses, ActiveStatuses
  <2>. HIDE DEF status, o
  <2>2. n \in Order /\ n.status = status /\ n.market = o.market /\ n.seq = o.seq /\ n.filled = o.filled
    BY <1>b, <2>1 DEF Order
  <2>. HIDE DEF n
  <2>. QED  BY <2>1, <2>2, ConstantsAssumption DEF Active
<1>f. change' = OrderEvent(change, id, n, 0) /\ change \in LedgerType
  BY DEF StageOrder, SInv, IInv, TypeOK
<1>. HIDE DEF n, status
<1>g. /\ change'.orders = [change.orders EXCEPT ![id] = n] /\ change'.markets = change.markets
      /\ change'.pos = change.pos
  <2>1. /\ OrderEvent(change, id, n, 0).orders = [change.orders EXCEPT ![id] = n]
        /\ OrderEvent(change, id, n, 0).markets = change.markets
    BY <1>b, <1>e, <1>f, OrderEventLedger
  <2>2. OrderEvent(change, id, n, 0).pos = change.pos
    BY <1>b, <1>e, <1>f, EventShares
  <2>. QED  BY <1>f, <2>1, <2>2
<1>h. \A x \in OrderIds : change'.orders[x] = IF x = id THEN n ELSE change.orders[x]
  BY <1>f, <1>g DEF LedgerType
<1>i. \A x \in OrderIds : Recovering(x)' <=> Recovering(x)
  BY <1>a DEF Recovering
<1>1. IndexKeys' /\ ActiveInOpen(mem)' /\ ActiveInOpen(disk)' /\ MemIsDisk'
  BY <1>a, <1>i, SLedgersKept, SMemKept
<1>2. AwaitingRecovery'
  <2>1. SUFFICES ASSUME op = "recover", NEW x \in todo
                 PROVE  /\ Active(mem.orders[x]) /\ mem.orders[x].eid = 0
                        /\ change'.orders[x] = NoOrder /\ admitted[1] # x
    BY <1>a DEF AwaitingRecovery
  <2>2. x \in OrderIds /\ admitted[1] # x
    BY <1>b, <2>1 DEF SInv, AwaitingRecovery, IInv, TypeOK
  <2>. QED  BY <1>c, <1>h, <2>1, <2>2 DEF SInv, AwaitingRecovery
<1>3. InEngineActive'
  <2>1. ~Reserving' /\ Submitted'
    BY <1>a DEF Reserving, Submitted
  <2>2. op = "recover" => Active(change'.orders[admitted[1]])
    BY <1>b, <1>c, <1>e, <1>h
  <2>. QED  BY <1>a, <1>b, <2>1, <2>2 DEF SInv, InEngineActive
<1>4. StagedAdvances'
  <2>1. o.filled \in Nat
    BY <1>b DEF Order
  <2>. QED  BY <1>a, <1>b, <1>e, <1>h, <2>1 DEF SInv, StagedAdvances
<1>5. StagedOpen'
  <2>1. IsOpen(mem, o.market)
    BY <1>b DEF SInv, ActiveInOpen
  <2>. QED  BY <1>a, <1>e, <1>g, <1>h, <2>1 DEF SInv, StagedOpen, IsOpen
<1>6. SettlementInv'
  BY <1>a, <1>g DEF SInv, SettlementInv
<1>. QED  BY <1>1, <1>2, <1>3, <1>4, <1>5, <1>6 DEF SInv

(* A staged change that continues active orders of open markets and leaves
   alone the ones recovery has yet to submit. *)
Continues(c) ==
  /\ \A id \in OrderIds : c.orders[id] # NoOrder =>
       /\ Active(mem.orders[id])
       /\ c.orders[id].seq = mem.orders[id].seq
       /\ c.orders[id].filled >= mem.orders[id].filled
       /\ op = "recover" => id \notin todo
  /\ \A h \in Holdings : c.pos[h] # 0 => IsOpen(mem, h[2])
  /\ c.markets = change.markets

(* Staging a fill of an active order keeps it so. *)
LEMMA FillContinues ==
  ASSUME SInv, NEW c, Forward(c), Continues(c), NEW id \in OrderIds,
         Active(mem.orders[id]), op = "recover" => id \notin todo,
         NEW q \in Nat, NEW p \in Nat,
         NEW o, o = IF c.orders[id] # NoOrder THEN c.orders[id] ELSE mem.orders[id]
  PROVE  Continues(FillEvents(c, id, o, q, p))
<1>. DEFINE d == FillEvents(c, id, o, q, p)
            n == FilledOrder(o, q)
<1>1. /\ o \in Order /\ c \in LedgerType /\ o.market = mem.orders[id].market
      /\ o.seq = mem.orders[id].seq /\ o.filled >= mem.orders[id].filled
      /\ mem.orders[id] \in Order
  <2>1. mem.orders[id] \in Order /\ c \in LedgerType
    BY DEF SInv, IInv, TypeOK, LedgerType, Active, Forward
  <2>2. mem.orders[id].filled \in Nat
    BY <2>1 DEF Order
  <2>. QED  BY <2>1, <2>2 DEF Forward, Continues, LedgerType, SameOrder
<1>2. d \in LedgerType /\ d.orders = [c.orders EXCEPT ![id] = n] /\ d.markets = c.markets
  BY <1>1, FillLedger
<1>3. n.seq = o.seq /\ n.filled >= o.filled /\ n \in Order
  BY <1>1, FilledOrderAdvances, FilledOrderKept
<1>4. OnlyShares(c, d, o.market)
  BY <1>1, OrderShares
<1>. HIDE DEF d, n
<1>5. \A x \in OrderIds : d.orders[x] = IF x = id THEN n ELSE c.orders[x]
  BY <1>1, <1>2 DEF LedgerType
<1>6. n.seq = mem.orders[id].seq /\ n.filled >= mem.orders[id].filled
  <2>1. n.filled \in Nat /\ o.filled \in Nat /\ mem.orders[id].filled \in Nat
    BY <1>1, <1>3 DEF Order
  <2>. QED  BY <1>1, <1>3, <2>1
<1>7. IsOpen(mem, o.market)
  BY <1>1 DEF SInv, ActiveInOpen
<1>8. \A h \in Holdings : d.pos[h] # 0 => IsOpen(mem, h[2])
  BY <1>4, <1>7 DEF OnlyShares, Continues
<1>9. Continues(d)
  BY <1>2, <1>5, <1>6, <1>8 DEF Continues
<1>. QED  BY <1>9 DEF d

(* A fill is looked up among the batch's own orders and the indexed ones: all
   of them active, none of them waiting for recovery. *)
LEMMA LookupActive ==
  ASSUME SInv, pc = "fill", NEW m, NEW eid, NEW id \in Lookup(m, eid)
  PROVE  id \in OrderIds /\ Active(mem.orders[id]) /\ (op = "recover" => id \notin todo)
<1>1. \A x \in engineOrders : /\ x[3] \in OrderIds /\ Active(mem.orders[x[3]])
                              /\ op = "recover" => x[3] \notin todo
  BY DEF SInv, IInv, TypeOK, IndexKeys, AwaitingRecovery
<1>2. cur \in 1..Len(admitted) /\ Len(admitted) \in Nat /\ Submitted
  BY DEF SInv, IInv, TypeOK, Control, Answered, Submitted
<1>3. \A j \in 1..cur : j \in 1..Len(admitted)
  BY <1>2
<1>4. \A j \in 1..cur : admitted[j] \in OrderIds /\ Active(mem.orders[admitted[j]])
  <2>1. \A j \in 1..Len(admitted) : admitted[j] \in OrderIds
    BY DEF SInv, IInv, TypeOK
  <2>2. \A j \in 1..Len(admitted) : Active(mem.orders[admitted[j]])
    BY <1>2 DEF SInv, InEngineActive
  <2>. QED  BY <1>3, <2>1, <2>2
<1>5. \A x \in OwnIndex : x[3] \in OrderIds /\ Active(mem.orders[x[3]])
  BY <1>4 DEF OwnIndex
<1>. QED  BY <1>1, <1>5 DEF Lookup

(* Fills continue active orders of open markets. *)
LEMMA SStageFill ==
  ASSUME SInv, IInv', StageFill
  PROVE  SInv'
<1>. DEFINE t == Head(results[cur].trades)
            m == mem.orders[admitted[cur]].market
            buyers == Lookup(m, t.buy)
            sellers == Lookup(m, t.sell)
<1>a. /\ mem' = mem /\ disk' = disk /\ engineOrders' = engineOrders /\ failed' = failed
      /\ op' = op /\ todo' = todo /\ taker' = taker /\ target' = target /\ admitted' = admitted
      /\ pc = "fill" /\ pc' = "fill" /\ op \in {"place", "recover"}
  BY DEF StageFill, service, control, SInv, IInv, Control
<1>b. t.qty \in Nat /\ t.price \in Nat
  <2>1. results[cur].trades # <<>> /\ results[cur].trades \in Seq(Trade)
    BY ZenonT(30) DEF StageFill, SInv, IInv, TypeOK, Control, Answered, Result
  <2>2. t \in Trade
    BY <2>1
  <2>. QED  BY <2>2 DEF Trade
<1>c. ASSUME NEW eid, NEW id \in Lookup(m, eid)
      PROVE  id \in OrderIds /\ Active(mem.orders[id]) /\ mem.orders[id] # NoOrder
             /\ (op = "recover" => id \notin todo)
  <2>. HIDE DEF m
  <2>. QED  BY <1>a, LookupActive DEF Active
<1>d. Forward(change) /\ Continues(change)
  <2>1. Forward(change)
    BY <1>a DEF Reserving, Forward, SInv, IInv, TypeOK, StagedFaithful
  <2>. QED  BY <2>1 DEF Forward, Continues, SInv, StagedAdvances, StagedOpen, AwaitingRecovery
<1>e. Forward(change') /\ Continues(change')
  <2>1. CASE UNCHANGED change
    BY <2>1, <1>d DEF Forward, Continues
  <2>2. CASE \E b \in buyers, s \in sellers :
               LET half == FillEvents(change, b, Staged(b), t.qty, t.price)
                   seller == IF half.orders[s] # NoOrder
                             THEN half.orders[s] ELSE mem.orders[s]
               IN  change' = FillEvents(half, s, seller, t.qty, t.price)
    <3>1. PICK b \in buyers, s \in sellers :
               LET half == FillEvents(change, b, Staged(b), t.qty, t.price)
                   seller == IF half.orders[s] # NoOrder
                             THEN half.orders[s] ELSE mem.orders[s]
               IN  change' = FillEvents(half, s, seller, t.qty, t.price)
      BY <2>2
    <3>. DEFINE half == FillEvents(change, b, Staged(b), t.qty, t.price)
                seller == IF half.orders[s] # NoOrder THEN half.orders[s] ELSE mem.orders[s]
    <3>2. /\ b \in OrderIds /\ mem.orders[b] # NoOrder /\ Active(mem.orders[b])
          /\ s \in OrderIds /\ mem.orders[s] # NoOrder /\ Active(mem.orders[s])
          /\ op = "recover" => b \notin todo /\ s \notin todo
      BY <1>c
    <3>3. Forward(half) /\ Continues(half)
      <4>. HIDE DEF t
      <4>1. Forward(half)  BY <1>b, <1>d, <3>2, FillForward DEF Staged, SInv
      <4>2. Continues(half)  BY <1>b, <1>d, <3>2, FillContinues DEF Staged
      <4>. QED  BY <4>1, <4>2
    <3>4. /\ Forward(FillEvents(half, s, seller, t.qty, t.price))
          /\ Continues(FillEvents(half, s, seller, t.qty, t.price))
      <4>. HIDE DEF t, half
      <4>1. Forward(FillEvents(half, s, seller, t.qty, t.price))
        BY <1>b, <3>2, <3>3, FillForward DEF SInv
      <4>2. Continues(FillEvents(half, s, seller, t.qty, t.price))
        BY <1>b, <3>2, <3>3, FillContinues
      <4>. QED  BY <4>1, <4>2
    <3>. QED  BY <3>1, <3>4
  <2>. QED  BY <2>1, <2>2 DEF StageFill
<1>f. \A x \in OrderIds : Recovering(x)' <=> Recovering(x)
  BY <1>a DEF Recovering
<1>1. IndexKeys' /\ ActiveInOpen(mem)' /\ ActiveInOpen(disk)' /\ MemIsDisk'
  BY <1>a, <1>f, SLedgersKept, SMemKept
<1>2. AwaitingRecovery'
  BY <1>a, <1>e DEF SInv, AwaitingRecovery, Continues, Submitted, IInv, TypeOK
<1>3. InEngineActive'
  BY <1>a DEF SInv, InEngineActive, Submitted, Reserving
<1>4. StagedAdvances'
  BY <1>a, <1>e DEF StagedAdvances, Continues
<1>5. StagedOpen'
  <2>1. ASSUME NEW id \in OrderIds, change'.orders[id] # NoOrder
        PROVE  IsOpen(mem, change'.orders[id].market)
    BY <1>e, <2>1 DEF Forward, Continues, SameOrder, SInv, ActiveInOpen
  <2>2. ASSUME NEW y \in Markets PROVE change'.markets[y] = NoMarket
    BY <1>a, <1>e DEF Continues, SInv, SettlementInv
  <2>. QED  BY <1>a, <1>e, <2>1, <2>2 DEF StagedOpen, Continues, IsOpen
<1>6. SettlementInv'
  BY <1>a, <1>e DEF SInv, SettlementInv, Continues
<1>. QED  BY <1>1, <1>2, <1>3, <1>4, <1>5, <1>6 DEF SInv

(* An order taken off the book is staged as cancelled. *)
LEMMA SRemoveOrder ==
  ASSUME SInv, IInv', NEW id \in todo, RemoveOrder(id)
  PROVE  SInv'
<1>. DEFINE o == mem.orders[id]
            n == [o EXCEPT !.status = "cancelled"]
<1>a. /\ mem' = mem /\ disk' = disk /\ engineOrders' = engineOrders /\ failed' = failed
      /\ op' = op /\ pc' = pc /\ after' = after /\ taker' = taker /\ target' = target
      /\ admitted' = admitted /\ todo' = todo \ {id} /\ pc = "remove" /\ op \in {"cancel", "resolve"}
  BY DEF RemoveOrder, service, control, SInv, IInv, Control
<1>b. id \in OrderIds /\ o \in Order /\ Active(o) /\ change \in LedgerType
  BY <1>a DEF SInv, IInv, TypeOK, Control, LedgerType, OnBook, Active, ActiveStatuses
<1>c. /\ n \in Order /\ n # NoOrder /\ ~Active(n) /\ n.market = o.market /\ n.seq = o.seq
      /\ n.filled = o.filled /\ o.filled \in Nat
  <2>. HIDE DEF o
  <2>1. n \in Order /\ n.status = "cancelled" /\ n.market = o.market /\ n.seq = o.seq
        /\ n.filled = o.filled /\ o.filled \in Nat
    BY <1>b DEF Order, OrderStatuses
  <2>. HIDE DEF n
  <2>. QED  BY <2>1, ConstantsAssumption DEF Active, ActiveStatuses
<1>d. change' = ReleaseEvents(change, id, o)
  BY DEF RemoveOrder
<1>e. /\ change'.orders = [change.orders EXCEPT ![id] = n] /\ change'.markets = change.markets
      /\ OnlyShares(change, change', o.market)
  <2>. HIDE DEF o
  <2>1. /\ ReleaseEvents(change, id, o).orders = [change.orders EXCEPT ![id] = n]
        /\ ReleaseEvents(change, id, o).markets = change.markets
    BY <1>b, ReleaseLedger
  <2>2. OnlyShares(change, ReleaseEvents(change, id, o), o.market)
    BY <1>b, OrderShares
  <2>. QED  BY <1>d, <2>1, <2>2
<1>. HIDE DEF n
<1>f. \A x \in OrderIds : change'.orders[x] = IF x = id THEN n ELSE change.orders[x]
  BY <1>b, <1>e DEF LedgerType
<1>g. \A x \in OrderIds : Recovering(x)' <=> Recovering(x)
  BY <1>a DEF Recovering
<1>1. IndexKeys' /\ ActiveInOpen(mem)' /\ ActiveInOpen(disk)' /\ MemIsDisk'
  BY <1>a, <1>g, SLedgersKept, SMemKept
<1>2. AwaitingRecovery'
  BY <1>a DEF AwaitingRecovery
<1>3. InEngineActive'
  BY <1>a DEF SInv, InEngineActive, Submitted, Reserving
<1>4. StagedAdvances'
  BY <1>a, <1>b, <1>c, <1>f DEF SInv, StagedAdvances
<1>5. StagedOpen'
  <2>1. IsOpen(mem, o.market)
    BY <1>b DEF SInv, ActiveInOpen
  <2>. QED  BY <1>a, <1>c, <1>e, <1>f, <2>1 DEF SInv, StagedOpen, OnlyShares, IsOpen
<1>6. SettlementInv'
  <2>1. \A m \in Markets : change'.markets[m] = NoMarket
    BY <1>a, <1>e DEF SInv, SettlementInv
  <2>2. \A x \in OrderIds : change'.orders[x] # NoOrder => ~Active(change'.orders[x])
    BY <1>a, <1>c, <1>f DEF SInv, SettlementInv
  <2>3. op = "resolve" => IsOpen(mem, target.market) /\ Closing(target.market)'
    BY <1>a, <1>c, <1>f, <2>2 DEF SInv, SettlementInv, Closing
  <2>. QED  BY <1>a, <2>1, <2>2, <2>3 DEF SettlementInv, IsOpen
<1>. QED  BY <1>1, <1>2, <1>3, <1>4, <1>5, <1>6 DEF SInv

(* Settlement pays out in its own market, which it closes with every order. *)
LEMMA SRemoveDone ==
  ASSUME SInv, IInv', RemoveDone
  PROVE  SInv'
<1>. DEFINE m == target.market
            status == IF target.outcome = "yes" THEN "resolved_yes" ELSE "resolved_no"
            market == [mem.markets[m] EXCEPT !.status = status]
            paid == PayoutEvents(change, mem, m, target.outcome)
<1>a. /\ mem' = mem /\ disk' = disk /\ engineOrders' = engineOrders /\ failed' = failed
      /\ op' = op /\ pc' = "commit" /\ after' = "return" /\ taker' = taker /\ target' = target
      /\ admitted' = admitted /\ todo' = todo /\ todo = {} /\ pc = "remove"
      /\ op \in {"cancel", "resolve"}
  BY DEF RemoveDone, service, engine, SInv, IInv, Control
<1>b. change \in LedgerType /\ mem \in LedgerType
  BY DEF SInv, IInv, TypeOK
<1>c. /\ \A x \in Markets : change.markets[x] = NoMarket
      /\ \A x \in OrderIds : change.orders[x] # NoOrder => ~Active(change.orders[x])
  BY <1>a DEF SInv, SettlementInv
<1>d. /\ change'.orders = change.orders
      /\ \A x \in Markets : change'.markets[x] # NoMarket =>
           op = "resolve" /\ x = m /\ IsOpen(mem, m)
      /\ \A h \in Holdings : change'.pos[h] # 0 => IsOpen(mem, h[2])
  <2>1. CASE op = "resolve"
    <3>1. m \in Markets /\ mem.markets[m] \in Market /\ target.outcome \in Outcomes /\ IsOpen(mem, m)
      BY <1>a, <1>b, <2>1 DEF SInv, IInv, TypeOK, Control, LedgerType, SettlementInv
    <3>2. market \in Market
      <4>1. status \in MarketStatuses
        BY DEF MarketStatuses
      <4>. HIDE DEF status, m
      <4>. QED  BY <3>1, <4>1 DEF Market
    <3>3. paid \in LedgerType /\ paid.orders = change.orders /\ paid.markets = change.markets
          /\ OnlyShares(change, paid, m)
      BY <1>b, <3>1, PayoutLedger, PayoutShares
    <3>4. change' = MarketEvent(paid, m, market)
      BY <2>1 DEF RemoveDone
    <3>. HIDE DEF paid, market, m
    <3>5. /\ change'.orders = paid.orders /\ change'.pos = paid.pos
          /\ change'.markets = [paid.markets EXCEPT ![m] = market]
      BY <3>1, <3>2, <3>3, <3>4, MarketEventLedger, EventShares
    <3>6. \A x \in Markets : change'.markets[x] # NoMarket => x = m
      BY <1>c, <3>3, <3>5 DEF LedgerType
    <3>7. \A h \in Holdings : change'.pos[h] # 0 => IsOpen(mem, h[2])
      BY <3>1, <3>3, <3>5 DEF SInv, StagedOpen, OnlyShares
    <3>. QED  BY <2>1, <3>1, <3>3, <3>5, <3>6, <3>7
  <2>2. CASE op # "resolve"
    BY <1>c, <2>2 DEF RemoveDone, SInv, StagedOpen
  <2>. QED  BY <2>1, <2>2
<1>. HIDE DEF m
<1>e. \A x \in OrderIds : Recovering(x)' <=> Recovering(x)
  BY <1>a DEF Recovering
<1>1. IndexKeys' /\ ActiveInOpen(mem)' /\ ActiveInOpen(disk)' /\ MemIsDisk'
  BY <1>a, <1>e, SLedgersKept, SMemKept
<1>2. AwaitingRecovery'
  BY <1>a DEF AwaitingRecovery
<1>3. InEngineActive'
  BY <1>a DEF SInv, InEngineActive, Submitted, Reserving
<1>4. StagedAdvances' /\ StagedOpen'
  BY <1>a, <1>d DEF SInv, StagedAdvances, StagedOpen, IsOpen
<1>5. SettlementInv'
  <2>1. ASSUME NEW x \in Markets, change'.markets[x] # NoMarket
        PROVE  Closing(x)'
    <3>1. op = "resolve" /\ x = target.market
      BY <1>d, <2>1 DEF m
    <3>2. Closing(x)
      BY <1>a, <3>1 DEF SInv, SettlementInv
    <3>. QED  BY <1>a, <1>c, <1>d, <3>2 DEF Closing
  <2>. QED  BY <1>a, <1>d, <2>1 DEF SettlementInv
<1>. QED  BY <1>1, <1>2, <1>3, <1>4, <1>5 DEF SInv

-----------------------------------------------------------------------------
(* What committing the staged change makes of the two ledgers: they agree
   wherever they agreed, only open markets have active orders, and the disk's
   history has only advanced. *)
LEMMA SCommitLedgers ==
  ASSUME SInv, pc = "commit",
         NEW M, NEW D, M = Apply(mem, change), D = Apply(disk, change)
  PROVE  /\ M.markets = D.markets /\ M.cash = D.cash /\ M.pos = D.pos
         /\ M.sequence = D.sequence /\ M.deposited = D.deposited
         /\ \A id \in OrderIds :
              /\ M.orders[id] = IF change.orders[id] = NoOrder THEN mem.orders[id] ELSE change.orders[id]
              /\ D.orders[id] = IF change.orders[id] = NoOrder THEN disk.orders[id] ELSE change.orders[id]
         /\ ActiveInOpen(M) /\ ActiveInOpen(D)
         /\ \A id \in OrderIds : disk.orders[id] # NoOrder =>
              OrderAdvances(disk.orders[id], D.orders[id])
         /\ \A m \in Markets : disk.markets[m] # NoMarket /\ disk.markets[m].status # "open" =>
              /\ D.markets[m] = disk.markets[m]
              /\ \A u \in Users, x \in Outcomes : D.pos[<<u, m, x>>] = disk.pos[<<u, m, x>>]
<1>a. mem \in LedgerType /\ disk \in LedgerType /\ change \in LedgerType /\ IInv
  BY DEF SInv, IInv, TypeOK
<1>b. /\ \A id \in OrderIds :
           /\ M.orders[id] = IF change.orders[id] = NoOrder THEN mem.orders[id] ELSE change.orders[id]
           /\ D.orders[id] = IF change.orders[id] = NoOrder THEN disk.orders[id] ELSE change.orders[id]
      /\ \A m \in Markets :
           /\ M.markets[m] = IF change.markets[m] = NoMarket THEN mem.markets[m] ELSE change.markets[m]
           /\ D.markets[m] = IF change.markets[m] = NoMarket THEN disk.markets[m] ELSE change.markets[m]
  BY <1>a, ApplyLedger
<1>c. /\ mem.markets = disk.markets /\ mem.cash = disk.cash /\ mem.pos = disk.pos
      /\ mem.sequence = disk.sequence /\ mem.deposited = disk.deposited
      /\ \A id \in OrderIds :
           mem.orders[id] = IF Recovering(id) THEN [disk.orders[id] EXCEPT !.eid = 0]
                            ELSE disk.orders[id]
  <2>1. ~failed
    BY DEF SInv, IInv, Control
  <2>. QED  BY <2>1 DEF SInv, MemIsDisk
<1>1. /\ M.markets = D.markets /\ M.cash = D.cash /\ M.pos = D.pos
      /\ M.sequence = D.sequence /\ M.deposited = D.deposited
  BY <1>c DEF Apply
<1>d. ASSUME NEW id \in OrderIds, disk.orders[id] # NoOrder
      PROVE  /\ disk.orders[id] \in Order
             /\ mem.orders[id] # NoOrder
             /\ SameOrder(mem.orders[id], disk.orders[id])
             /\ mem.orders[id].status = disk.orders[id].status
             /\ mem.orders[id].seq = disk.orders[id].seq
             /\ mem.orders[id].filled = disk.orders[id].filled
  <2>1. disk.orders[id] \in Order
    BY <1>a, <1>d DEF LedgerType
  <2>. DEFINE o == disk.orders[id]
  <2>2. /\ mem.orders[id] \in {o, [o EXCEPT !.eid = 0]}
    BY <1>c
  <2>3. mem.orders[id] # NoOrder
    BY <1>a, <1>d DEF IInv, Control, MemComplete
  <2>. HIDE DEF o
  <2>4. /\ SameOrder(mem.orders[id], o) /\ mem.orders[id].status = o.status
        /\ mem.orders[id].seq = o.seq /\ mem.orders[id].filled = o.filled
    <3>1. o \in Order  BY <2>1 DEF o
    <3>. QED  BY <2>2, <3>1 DEF SameOrder, Order
  <2>. QED  BY <2>1, <2>3, <2>4 DEF o
<1>e. ASSUME NEW m \in Markets, IsOpen(mem, m),
             NEW id \in OrderIds, change.orders[id] = NoOrder => Active(mem.orders[id]) /\ mem.orders[id].market = m,
             change.orders[id] # NoOrder => Active(change.orders[id])
      PROVE  IsOpen(M, m) /\ IsOpen(D, m)
  <2>1. change.markets[m] # NoMarket => change.markets[m].status = "open"
    <3>1. SUFFICES ASSUME change.markets[m] # NoMarket, change.markets[m].status # "open" PROVE FALSE
      OBVIOUS
    <3>2. todo = {} /\ Closing(m)
      BY <3>1 DEF SInv, SettlementInv
    <3>. QED  BY <1>e, <3>2 DEF Closing
  <2>2. M.markets[m] # NoMarket /\ M.markets[m].status = "open"
    BY <1>b, <1>e, <2>1 DEF IsOpen
  <2>. QED  BY <1>1, <2>2 DEF IsOpen
<1>2. ActiveInOpen(M)
  <2>1. SUFFICES ASSUME NEW id \in OrderIds, Active(M.orders[id])
                 PROVE  IsOpen(M, M.orders[id].market)
    BY DEF ActiveInOpen
  <2>2. CASE change.orders[id] # NoOrder
    <3>1. change.orders[id].market \in Markets /\ IsOpen(mem, change.orders[id].market)
      BY <1>a, <2>2 DEF SInv, StagedOpen, LedgerType, Order
    <3>2. M.orders[id] = change.orders[id]
      BY <1>b, <2>2
    <3>. QED  BY <1>e, <2>1, <2>2, <3>1, <3>2
  <2>3. CASE change.orders[id] = NoOrder
    <3>1. M.orders[id] = mem.orders[id]
      BY <1>b, <2>3
    <3>2. mem.orders[id].market \in Markets /\ IsOpen(mem, mem.orders[id].market)
      BY <1>a, <2>1, <3>1 DEF SInv, ActiveInOpen, LedgerType, Order, Active
    <3>. QED  BY <1>e, <2>1, <2>3, <3>1, <3>2
  <2>. QED  BY <2>2, <2>3
<1>3. ActiveInOpen(D)
  <2>1. SUFFICES ASSUME NEW id \in OrderIds, Active(D.orders[id])
                 PROVE  IsOpen(D, D.orders[id].market)
    BY DEF ActiveInOpen
  <2>2. CASE change.orders[id] # NoOrder
    <3>1. change.orders[id].market \in Markets /\ IsOpen(mem, change.orders[id].market)
      BY <1>a, <2>2 DEF SInv, StagedOpen, LedgerType, Order
    <3>2. D.orders[id] = change.orders[id]
      BY <1>b, <2>2
    <3>. QED  BY <1>e, <2>1, <2>2, <3>1, <3>2
  <2>3. CASE change.orders[id] = NoOrder
    <3>1. D.orders[id] = disk.orders[id]
      BY <1>b, <2>3
    <3>2. Active(mem.orders[id]) /\ mem.orders[id].market = disk.orders[id].market
      BY <1>d, <2>1, <3>1 DEF Active, SameOrder
    <3>3. mem.orders[id].market \in Markets /\ IsOpen(mem, mem.orders[id].market)
      BY <1>a, <3>2 DEF SInv, ActiveInOpen, LedgerType, Order, Active
    <3>. QED  BY <1>e, <2>1, <2>3, <3>1, <3>2, <3>3
  <2>. QED  BY <2>2, <2>3
<1>4. ASSUME NEW id \in OrderIds, disk.orders[id] # NoOrder
      PROVE  OrderAdvances(disk.orders[id], D.orders[id])
  <2>1. CASE change.orders[id] = NoOrder
    <3>1. D.orders[id] = disk.orders[id]
      BY <1>b, <2>1
    <3>2. disk.orders[id].filled \in Nat
      BY <1>d, <1>4 DEF Order
    <3>. QED  BY <1>4, <3>1, <3>2 DEF OrderAdvances
  <2>2. CASE change.orders[id] # NoOrder
    <3>1. D.orders[id] = change.orders[id]
      BY <1>b, <2>2
    <3>2. /\ SameOrder(change.orders[id], mem.orders[id])
          /\ change.orders[id].status # "pending"
          /\ Active(mem.orders[id])
          /\ change.orders[id].seq = mem.orders[id].seq
          /\ change.orders[id].filled >= mem.orders[id].filled
      BY <1>a, <1>d, <1>4, <2>2 DEF IInv, StagedFaithful, SInv, StagedAdvances
    <3>. QED  BY <1>d, <1>4, <2>2, <3>1, <3>2 DEF OrderAdvances, SameOrder, Active
  <2>. QED  BY <2>1, <2>2
<1>5. ASSUME NEW m \in Markets, disk.markets[m] # NoMarket, disk.markets[m].status # "open"
      PROVE  /\ D.markets[m] = disk.markets[m]
             /\ \A u \in Users, x \in Outcomes : D.pos[<<u, m, x>>] = disk.pos[<<u, m, x>>]
  <2>1. mem.markets[m] # NoMarket /\ ~IsOpen(mem, m)
    BY <1>c, <1>5 DEF IsOpen
  <2>2. D.markets[m] = disk.markets[m]
    BY <1>b, <2>1 DEF SInv, StagedOpen
  <2>3. ASSUME NEW u \in Users, NEW x \in Outcomes
        PROVE  D.pos[<<u, m, x>>] = disk.pos[<<u, m, x>>]
    <3>. DEFINE h == <<u, m, x>>
    <3>1. h \in Holdings /\ h[2] = m
      BY DEF Holdings
    <3>. HIDE DEF h
    <3>2. change.pos[h] = 0
      BY <2>1, <3>1 DEF SInv, StagedOpen
    <3>3. D.pos[h] = disk.pos[h] + change.pos[h] /\ disk.pos[h] \in Int
      BY <1>a, <3>1 DEF Apply, LedgerType
    <3>4. D.pos[h] = disk.pos[h]
      BY <3>2, <3>3
    <3>. QED  BY <3>4 DEF h
  <2>. QED  BY <2>2, <2>3
<1>. QED  BY <1>1, <1>2, <1>3, <1>4, <1>5, <1>b

(* apply's upkeep of the index: a key that stays belongs to an order that did
   not change, a new one to an order that did. *)
LEMMA SCommitIndex ==
  ASSUME SInv, pc = "commit", mem' = Apply(mem, change),
         engineOrders' = ApplyIndex(engineOrders, mem, change)
  PROVE  IndexKeys'
<1>a. mem \in LedgerType /\ change \in LedgerType
  BY DEF SInv, IInv, TypeOK
<1>b. \A id \in OrderIds :
        mem'.orders[id] = IF change.orders[id] = NoOrder THEN mem.orders[id] ELSE change.orders[id]
  BY <1>a, ApplyLedger
<1>1. ASSUME NEW e \in engineOrders'
      PROVE  \/ /\ e \in engineOrders
                /\ \A id \in OrderIds : change.orders[id] # NoOrder /\ mem.orders[id] # NoOrder =>
                     <<e[1], e[2]>> # <<mem.orders[id].market, mem.orders[id].eid>>
             \/ \E id \in OrderIds :
                  /\ change.orders[id] # NoOrder /\ change.orders[id].eid # 0
                  /\ Active(change.orders[id])
                  /\ e = <<change.orders[id].market, change.orders[id].eid, id>>
  BY DEF ApplyIndex
<1>2. ASSUME NEW e \in engineOrders'
      PROVE  /\ Active(mem'.orders[e[3]])
             /\ e[1] = mem'.orders[e[3]].market
             /\ e[2] = mem'.orders[e[3]].eid /\ e[2] # 0
  <2>1. CASE /\ e \in engineOrders
             /\ \A id \in OrderIds : change.orders[id] # NoOrder /\ mem.orders[id] # NoOrder =>
                     <<e[1], e[2]>> # <<mem.orders[id].market, mem.orders[id].eid>>
    <3>1. /\ e[3] \in OrderIds /\ Active(mem.orders[e[3]])
          /\ e[1] = mem.orders[e[3]].market /\ e[2] = mem.orders[e[3]].eid /\ e[2] # 0
      BY <2>1 DEF SInv, IInv, TypeOK, IndexKeys
    <3>2. change.orders[e[3]] = NoOrder
      BY <2>1, <3>1 DEF Active
    <3>. QED  BY <1>b, <3>1, <3>2
  <2>2. CASE \E id \in OrderIds :
                  /\ change.orders[id] # NoOrder /\ change.orders[id].eid # 0
                  /\ Active(change.orders[id])
                  /\ e = <<change.orders[id].market, change.orders[id].eid, id>>
    BY <1>b, <2>2
  <2>. QED  BY <1>1, <2>1, <2>2
<1>. QED  BY <1>2 DEF IndexKeys

(* A commit takes what is staged into both ledgers and into the index. *)
LEMMA SCommit ==
  ASSUME SInv, IInv', Commit
  PROVE  SInv'
<1>. DEFINE M == Apply(mem, change)
            D == Apply(disk, change)
<1>a. /\ pc = "commit" /\ mem' = M /\ disk' = D /\ failed' = failed /\ ~failed
      /\ engineOrders' = ApplyIndex(engineOrders, mem, change)
      /\ \A e \in Engines : taker[e] = NoTaker
  BY DEF Commit, Logged, SInv, IInv, Control
<1>b. /\ mem'.markets = disk'.markets /\ mem'.cash = disk'.cash /\ mem'.pos = disk'.pos
      /\ mem'.sequence = disk'.sequence /\ mem'.deposited = disk'.deposited
      /\ \A id \in OrderIds :
           /\ mem'.orders[id] = IF change.orders[id] = NoOrder THEN mem.orders[id] ELSE change.orders[id]
           /\ disk'.orders[id] = IF change.orders[id] = NoOrder THEN disk.orders[id] ELSE change.orders[id]
  BY <1>a, SCommitLedgers
<1>c. ActiveInOpen(mem)' /\ ActiveInOpen(disk)'
  <2>1. ActiveInOpen(M) /\ ActiveInOpen(D)
    BY <1>a, SCommitLedgers
  <2>. HIDE DEF M, D
  <2>. QED  BY <1>a, <2>1 DEF ActiveInOpen, IsOpen
<1>. HIDE DEF M, D
<1>d. IndexKeys'
  BY <1>a, SCommitIndex DEF M
<1>e. \A id \in OrderIds :
        mem.orders[id] = IF Recovering(id) THEN [disk.orders[id] EXCEPT !.eid = 0] ELSE disk.orders[id]
  BY <1>a DEF SInv, MemIsDisk
<1>f. ASSUME \A id \in OrderIds :
               /\ Recovering(id)' => Recovering(id) /\ change.orders[id] = NoOrder
               /\ Recovering(id) => Recovering(id)' \/ change.orders[id] # NoOrder
      PROVE  MemIsDisk'
  BY <1>b, <1>e, <1>f DEF MemIsDisk
<1>1. CASE after = "return"
  <2>1. Return /\ op # "recover"
    BY <1>1, <1>a DEF Commit, SInv, IInv, Control
  <2>2. MemIsDisk'
    BY <2>1, <1>f DEF Return, Recovering
  <2>. QED  BY <1>c, <1>d, <2>1, <2>2, SEnds DEF Return
<1>2. CASE after # "return"
  <2>a. /\ pc' = after /\ change' = Empty /\ op' = op /\ admitted' = admitted /\ todo' = todo
        /\ target' = target /\ taker' = taker
    BY <1>2 DEF Commit
  <2>b. \/ after = "engine" /\ op = "place"
        \/ after \in {"fill", "recover"} /\ op = "recover"
    BY <1>2, <1>a DEF SInv, IInv, Control
  <2>c. \A id \in todo : op = "recover" =>
          /\ id \in OrderIds /\ change.orders[id] = NoOrder
          /\ Active(mem.orders[id]) /\ mem.orders[id].eid = 0
          /\ after = "fill" => admitted[1] # id
    BY <1>a DEF SInv, IInv, TypeOK, AwaitingRecovery, Submitted
  <2>d. after = "fill" => change.orders[admitted[1]] # NoOrder /\ Active(change.orders[admitted[1]])
    BY <1>a DEF SInv, IInv, CompletionStaged, InEngineActive
  <2>1. MemIsDisk'
    BY <1>a, <1>f, <2>a, <2>b, <2>c, <2>d DEF Recovering
  <2>2. AwaitingRecovery'
    BY <1>b, <2>a, <2>b, <2>c, EmptyLedger DEF AwaitingRecovery, Submitted
  <2>3. InEngineActive'
    <3>1. ASSUME after = "engine", NEW k \in 1..Len(admitted)
          PROVE  Active(mem'.orders[admitted[k]])
      <4>1. /\ admitted[k] \in OrderIds /\ change.orders[admitted[k]] # NoOrder
            /\ change.orders[admitted[k]].status = "pending"
        BY <3>1, <1>a DEF SInv, IInv, TypeOK, Control, Reserving, InEngineActive
      <4>. QED  BY <4>1, <1>b DEF Active, ActiveStatuses
    <3>2. ASSUME after = "fill", NEW k \in 1..Len(admitted)
          PROVE  Active(mem'.orders[admitted[k]])
      <4>0. op = "recover" /\ Submitted
        BY <3>2, <2>b, <1>a DEF Submitted
      <4>1. Len(admitted) = 1 /\ admitted[k] \in OrderIds
        <5>1. Len(admitted) = 1
          BY <4>0 DEF SInv, IInv, Control
        <5>2. admitted[k] \in OrderIds
          BY DEF SInv, IInv, TypeOK
        <5>. QED  BY <5>1, <5>2
      <4>2. k = 1
        BY <3>2, <4>1
      <4>. QED  BY <3>2, <4>1, <4>2, <1>b, <2>d
    <3>. QED
      BY <3>1, <3>2, <1>a, <2>a, <2>b DEF InEngineActive, Submitted, Reserving
  <2>4. StagedAdvances' /\ StagedOpen' /\ SettlementInv'
    BY <2>a, <2>b, EmptyLedger, EmptyShares DEF StagedAdvances, StagedOpen, SettlementInv
  <2>. QED  BY <1>c, <1>d, <2>1, <2>2, <2>3, <2>4 DEF SInv
<1>. QED  BY <1>1, <1>2

(* A failed commit leaves memory as it was and latches the failure, or ends
   the process. *)
LEMMA SCommitFails ==
  ASSUME SInv, IInv', CommitFails
  PROVE  SInv'
<1>. DEFINE D == Apply(disk, change)
<1>1. /\ pc = "commit" /\ mem' = mem /\ engineOrders' = engineOrders
      /\ (disk' = disk \/ disk' = D) /\ ScratchCleared /\ op' = "none"
      /\ (pc' = "down" \/ (pc' = "idle" /\ failed' = TRUE))
  BY DEF CommitFails, Logged, Fail, Return, Exit
<1>2. ActiveInOpen(disk)'
  <2>1. ActiveInOpen(disk) /\ ActiveInOpen(D)
    BY <1>1, SCommitLedgers DEF SInv
  <2>. HIDE DEF D
  <2>. QED  BY <1>1, <2>1 DEF ActiveInOpen, IsOpen
<1>3. MemIsDisk' /\ IndexKeys' /\ ActiveInOpen(mem)'
  BY <1>1 DEF SInv, MemIsDisk, IndexKeys, ActiveInOpen, IsOpen
<1>. QED  BY <1>1, <1>2, <1>3, SEnds

(* Replay: memory is the disk but for the engine ids of the active orders,
   all of which recovery has to submit. *)
LEMMA SStart ==
  ASSUME SInv, IInv', Start
  PROVE  SInv'
<1>a. /\ pc = "down" /\ disk' = disk /\ engineOrders' = {} /\ change' = change /\ taker' = taker
      /\ todo' = RecoverableOrders(disk) /\ op' = "recover" /\ pc' = "recover"
      /\ admitted' = admitted /\ disk \in LedgerType
  BY DEF Start, SInv, IInv, TypeOK
<1>b. change = Empty /\ \A e \in Engines : taker[e] = NoTaker
  BY <1>a DEF SInv, IInv, Control
<1>c. /\ mem'.markets = disk.markets /\ mem'.cash = disk.cash /\ mem'.pos = disk.pos
      /\ mem'.sequence = disk.sequence /\ mem'.deposited = disk.deposited
      /\ \A id \in OrderIds : mem'.orders[id] =
           IF id \in RecoverableOrders(disk) THEN [disk.orders[id] EXCEPT !.eid = 0] ELSE disk.orders[id]
  <2>. DEFINE again == [id \in OrderIds |-> IF id \in RecoverableOrders(disk)
                                             THEN [disk.orders[id] EXCEPT !.eid = 0]
                                             ELSE disk.orders[id]]
  <2>1. mem' = [disk EXCEPT !.orders = again]
    BY DEF Start
  <2>2. \A id \in OrderIds : again[id] =
           IF id \in RecoverableOrders(disk) THEN [disk.orders[id] EXCEPT !.eid = 0] ELSE disk.orders[id]
    OBVIOUS
  <2>. HIDE DEF again
  <2>3. /\ mem'.orders = again /\ mem'.markets = disk.markets /\ mem'.cash = disk.cash
        /\ mem'.pos = disk.pos /\ mem'.sequence = disk.sequence /\ mem'.deposited = disk.deposited
    BY <1>a, <2>1 DEF LedgerType
  <2>. QED  BY <2>2, <2>3
<1>d. ASSUME NEW id \in OrderIds
      PROVE  IF Active(disk.orders[id])
             THEN /\ Active(mem'.orders[id]) /\ mem'.orders[id].eid = 0
                  /\ mem'.orders[id].market = disk.orders[id].market
             ELSE ~Active(mem'.orders[id])
  <2>. DEFINE o == disk.orders[id]
  <2>1. CASE Active(disk.orders[id])
    <3>1. o \in Order /\ o.status \in ActiveStatuses
      BY <1>a, <2>1 DEF LedgerType, Active
    <3>2. mem'.orders[id] = [o EXCEPT !.eid = 0]
      BY <1>c, <2>1 DEF RecoverableOrders
    <3>. HIDE DEF o
    <3>. DEFINE n == [o EXCEPT !.eid = 0]
    <3>3. n \in Order /\ n.status = o.status /\ n.eid = 0 /\ n.market = o.market
      BY <3>1 DEF Order
    <3>4. Active(n)
      BY <3>1, <3>3, ConstantsAssumption DEF Active
    <3>. QED  BY <2>1, <3>2, <3>3, <3>4 DEF o
  <2>2. CASE ~Active(disk.orders[id])
    BY <1>c, <2>2 DEF RecoverableOrders
  <2>. QED  BY <2>1, <2>2
<1>1. MemIsDisk'
  <2>1. \A id \in OrderIds : Recovering(id)' <=> id \in RecoverableOrders(disk)
    BY <1>a DEF Recovering
  <2>. QED  BY <1>a, <1>c, <2>1 DEF MemIsDisk
<1>2. IndexKeys'
  BY <1>a DEF IndexKeys
<1>3. AwaitingRecovery'
  BY <1>a, <1>b, <1>d, EmptyLedger DEF AwaitingRecovery, RecoverableOrders, Submitted
<1>4. InEngineActive'
  BY <1>a, <1>b DEF InEngineActive, Submitted, Reserving
<1>5. ActiveInOpen(mem)' /\ ActiveInOpen(disk)'
  BY <1>a, <1>c, <1>d DEF SInv, ActiveInOpen, IsOpen
<1>6. StagedAdvances' /\ StagedOpen' /\ SettlementInv'
  BY <1>a, <1>b, EmptyLedger, EmptyShares DEF StagedAdvances, StagedOpen, SettlementInv
<1>. QED  BY <1>1, <1>2, <1>3, <1>4, <1>5, <1>6 DEF SInv

-----------------------------------------------------------------------------
(* The empty service satisfies the strengthened invariant. *)
LEMMA InitSInv == Init => SInv
<1>1. SUFFICES ASSUME Init PROVE SInv
  OBVIOUS
<1>2. IInv
  BY <1>1, InitIInv
<1>3. /\ mem = Empty /\ disk = Empty /\ change = Empty /\ engineOrders = {} /\ op = "none"
      /\ pc = "idle" /\ \A e \in Engines : taker[e] = NoTaker
  BY <1>1 DEF Init
<1>4. MemIsDisk /\ IndexKeys /\ AwaitingRecovery
  BY <1>3 DEF MemIsDisk, IndexKeys, AwaitingRecovery, Recovering
<1>5. InEngineActive
  BY <1>3 DEF InEngineActive, Submitted, Reserving
<1>6. ActiveInOpen(mem) /\ ActiveInOpen(disk)
  BY <1>3, EmptyLedger DEF ActiveInOpen, Active
<1>7. StagedAdvances /\ StagedOpen /\ SettlementInv
  BY <1>3, EmptyLedger, EmptyShares DEF StagedAdvances, StagedOpen, SettlementInv
<1>. QED  BY <1>2, <1>4, <1>5, <1>6, <1>7 DEF SInv

(* Every step of the service, its engines and their faults keeps it. *)
LEMMA NextSInv == SInv /\ [Next]_vars => SInv'
<1>1. SUFFICES ASSUME SInv, [Next]_vars PROVE SInv'
  OBVIOUS
<1>0. IInv'
  BY <1>1, NextIInv DEF SInv
<1>2. CASE Client
  <2>1. CASE \E c \in Creations : CreateMarketFor(c)
    BY <1>0, <1>1, <2>1, SCreateMarketFor
  <2>2. CASE \E u \in Users, cents \in DepositSizes : Deposit(u, cents)
    BY <1>0, <1>1, <2>2, SDeposit
  <2>3. CASE (\E b \in Batches : Place(b)) \/ (\E id \in OrderIds : Cancel(id))
    BY <1>0, <1>1, <2>3, SPlaceOrCancel
  <2>4. CASE \E m \in Markets, outcome \in Outcomes, u \in Users : ResolveFor(m, outcome, u)
    BY <1>0, <1>1, <2>4, SResolveFor
  <2>. QED  BY <1>2, <2>1, <2>2, <2>3, <2>4 DEF Client
<1>3. CASE Progress
  <2>1. CASE AdmitNext \/ AdmissionDone \/ Commit \/ EngineDone \/ BookMissing
    BY <1>0, <1>1, <2>1, SAdmitNext, SAdmissionDone, SCommit, SEngineDone, SQuits
  <2>2. CASE StageOrder \/ StageFill \/ FillsDone \/ RemoveDone \/ RecoverDone
    BY <1>0, <1>1, <2>2, SStageOrder, SStageFill, SFillsDone, SRemoveDone, SQuits
  <2>3. CASE \E k \in 1..Len(admitted) : EngineAccept(k)
    BY <1>0, <1>1, <2>3, SEngineAccept
  <2>4. CASE \E e \in Engines : EngineMatch(e) \/ EngineFinish(e)
    BY <1>0, <1>1, <2>4, SEngineMatch, SEngineFinish
  <2>5. CASE \E id \in todo : RemoveOrder(id) \/ RecoverNext(id)
    BY <1>0, <1>1, <2>5, SRemoveOrder, SRecoverNext
  <2>6. CASE \E id \in todo : RemoveRejected(id)
    BY <1>0, <1>1, <2>6, SQuits
  <2>. QED  BY <1>3, <2>1, <2>2, <2>3, <2>4, <2>5, <2>6 DEF Progress
<1>4. CASE Faults
  <2>1. CASE \E c \in Creations : AddBookUncertain(c)
    BY <1>0, <1>1, <2>1, SAddBookUncertain
  <2>2. CASE CommitFails
    BY <1>0, <1>1, <2>2, SCommitFails
  <2>3. CASE EngineError \/ Crash
    BY <1>0, <1>1, <2>3, SQuits
  <2>4. CASE \E e \in Engines : EngineRestart(e)
    BY <1>0, <1>1, <2>4, SEngineRestart
  <2>. QED  BY <1>4, <2>1, <2>2, <2>3, <2>4 DEF Faults
<1>5. CASE Stop \/ Start
  BY <1>0, <1>1, <1>5, SQuits, SStart
<1>6. CASE UNCHANGED vars
  <2>1. /\ mem' = mem /\ disk' = disk /\ engineOrders' = engineOrders /\ failed' = failed
        /\ op' = op /\ pc' = pc /\ after' = after /\ change' = change /\ todo' = todo
        /\ admitted' = admitted /\ target' = target /\ taker' = taker
    BY <1>6 DEF vars, service, control, scratch, engine
  <2>. QED  BY <1>0, <1>1, <2>1, SEngineSteps DEF SInv, InEngineActive
<1>. QED
  BY <1>1, <1>2, <1>3, <1>4, <1>5, <1>6 DEF Next

(* It holds in every reachable state. *)
LEMMA SInvariance == Spec => []SInv
BY InitSInv, NextSInv, PTL DEF Spec

(* Whenever the service would take the next request, its maps are exactly what
   snapshot and log rebuild, and no order waits between reservation and engine
   (commitMany writes before it applies; fail latches; RecoverEngine). *)
THEOREM MemoryMatchesDisk == Spec => []MemoryIsDurable
<1>1. ASSUME SInv PROVE MemoryIsDurable
  <2>1. SUFFICES ASSUME pc = "idle", ~failed
                 PROVE  /\ mem = disk
                        /\ \A id \in ActiveOrders(mem) : mem.orders[id].status # "pending"
    BY DEF MemoryIsDurable, Serving
  <2>2. op = "none" /\ mem \in LedgerType /\ disk \in LedgerType
    BY <1>1, <2>1 DEF SInv, IInv, Control, TypeOK
  <2>3. \A id \in OrderIds : mem.orders[id] = disk.orders[id]
    BY <1>1, <2>1, <2>2 DEF SInv, MemIsDisk, Recovering
  <2>4. mem.orders = disk.orders
    BY <2>2, <2>3 DEF LedgerType
  <2>5. /\ mem.markets = disk.markets /\ mem.cash = disk.cash /\ mem.pos = disk.pos
        /\ mem.sequence = disk.sequence /\ mem.deposited = disk.deposited
    BY <1>1, <2>1 DEF SInv, MemIsDisk
  <2>6. mem = disk
    BY <2>2, <2>4, <2>5 DEF LedgerType
  <2>7. \A id \in ActiveOrders(mem) : mem.orders[id].status # "pending"
    BY <1>1, <2>1, <2>2 DEF SInv, IInv, PendingAccounted, ActiveOrders, Active
  <2>. QED  BY <2>6, <2>7
<1>. QED  BY <1>1, SInvariance, PTL

(* No engine executes an order whose reservation is not on disk, or more of
   it than was ordered (placeBatchWithQuotes commits before it calls
   AddBatch; RecoverEngine submits what it replayed). *)
THEOREM EngineSeesOnlyReservations == Spec => []ReservedBeforeEngine
<1>1. ASSUME SInv PROVE ReservedBeforeEngine
  <2>1. SUFFICES ASSUME NEW e \in Engines, taker[e] # NoTaker
                 PROVE  /\ Active(disk.orders[admitted[taker[e].k]])
                        /\ disk.orders[admitted[taker[e].k]].qty >= taker[e].left
    BY DEF ReservedBeforeEngine
  <2>. DEFINE id == admitted[taker[e].k]
  <2>2. /\ pc = "engine" /\ ~failed /\ taker[e].k \in 1..Len(admitted) /\ Submitted
    BY <1>1, <2>1 DEF SInv, IInv, Control, Submitted
  <2>3. /\ id \in OrderIds /\ Active(mem.orders[id])
        /\ taker[e].left <= mem.orders[id].qty
    BY <1>1, <2>1, <2>2 DEF SInv, IInv, TypeOK, InEngineActive
  <2>. HIDE DEF id
  <2>4. /\ mem.orders[id] \in Order /\ Covers(disk, mem) /\ taker[e] \in Taker
        /\ disk.orders[id] \in Order \cup {NoOrder}
    BY <1>1, <2>1, <2>3 DEF SInv, IInv, TypeOK, LedgerType, Active, MemInDisk
  <2>5. disk.orders[id] \in Order /\ disk.orders[id] # NoOrder
        /\ disk.orders[id].qty = mem.orders[id].qty
    BY <2>3, <2>4 DEF Covers, Active, SameOrder
  <2>6. disk.orders[id].status = mem.orders[id].status
    <3>1. mem.orders[id] \in {disk.orders[id], [disk.orders[id] EXCEPT !.eid = 0]}
      BY <1>1, <2>2, <2>3 DEF SInv, MemIsDisk
    <3>. QED  BY <2>5, <3>1 DEF Order
  <2>7. taker[e].left \in Int /\ mem.orders[id].qty \in Nat
    BY <2>4 DEF Taker, Order
  <2>. QED  BY <2>3, <2>5, <2>6, <2>7 DEF Active, id
<1>. QED  BY <1>1, SInvariance, PTL

(* What a step does to the durable ledger: nothing, or a commit of what is
   staged, completed or torn by a fault. *)
LEMMA DiskSteps ==
  ASSUME SInv, [Next]_vars, disk' # disk
  PROVE  pc = "commit" /\ disk' = Apply(disk, change)
<1>1. CASE Commit
  BY <1>1 DEF Commit, Logged
<1>2. CASE CommitFails
  BY <1>2 DEF CommitFails, Logged
<1>3. CASE Client
  BY <1>3 DEF Client, CreateMarketFor, Deposit, Place, Cancel, ResolveFor, service
<1>4. CASE Progress /\ ~Commit
  <2>1. CASE AdmitNext \/ AdmissionDone \/ EngineDone \/ BookMissing \/ StageOrder
             \/ StageFill \/ FillsDone \/ RemoveDone \/ RecoverDone
    BY <2>1 DEF AdmitNext, AdmissionDone, EngineDone, BookMissing, StageOrder, StageFill,
                FillsDone, RemoveDone, RecoverDone, service
  <2>2. CASE \/ \E k \in 1..Len(admitted) : EngineAccept(k)
             \/ \E e \in Engines : EngineMatch(e) \/ EngineFinish(e)
             \/ \E id \in todo : RemoveOrder(id) \/ RemoveRejected(id) \/ RecoverNext(id)
    BY <2>2 DEF EngineAccept, EngineMatch, EngineFinish, RemoveOrder, RemoveRejected,
                RecoverNext, service
  <2>. QED  BY <1>4, <2>1, <2>2 DEF Progress
<1>5. CASE Faults /\ ~CommitFails
  BY <1>5 DEF Faults, AddBookUncertain, EngineError, Crash, EngineRestart, service
<1>6. CASE Stop \/ Start \/ UNCHANGED vars
  BY <1>6 DEF Stop, Start, vars, service
<1>. QED  BY <1>1, <1>2, <1>3, <1>4, <1>5, <1>6 DEF Next

(* Across commits, torn commits, crashes and replays, what the disk knows of an
   order only advances: no fill is taken back, no closed order reopened, no
   place in the queue lost (apply, buildTradeEvents, RecoverEngine). *)
THEOREM DurableHistoryOnlyAdvances == Spec => HistoryOnlyAdvances
<1>1. ASSUME SInv, [Next]_vars
      PROVE  [\A id \in OrdersOf(disk) : OrderAdvances(disk.orders[id], disk'.orders[id])]_disk
  <2>1. SUFFICES ASSUME disk' # disk
                 PROVE  \A id \in OrdersOf(disk) : OrderAdvances(disk.orders[id], disk'.orders[id])
    OBVIOUS
  <2>2. pc = "commit" /\ disk' = Apply(disk, change)
    BY <1>1, <2>1, DiskSteps
  <2>. QED  BY <1>1, <2>2, SCommitLedgers DEF OrdersOf
<1>. QED  BY <1>1, SInvariance, PTL DEF Spec, HistoryOnlyAdvances

(* A settled market keeps its outcome and its positions for good, although
   batches, cancellations and retries go on around it and fail half-way
   (ResolveFor, prepareOrder). *)
THEOREM SettlementIsFinal == Spec => SettlementFinal
<1>1. ASSUME SInv, [Next]_vars
      PROVE  [\A m \in Markets :
                disk.markets[m] # NoMarket /\ disk.markets[m].status # "open" =>
                  /\ disk'.markets[m] = disk.markets[m]
                  /\ \A u \in Users, x \in Outcomes :
                       disk'.pos[<<u, m, x>>] = disk.pos[<<u, m, x>>]]_disk
  <2>1. SUFFICES ASSUME disk' # disk
                 PROVE  \A m \in Markets :
                          disk.markets[m] # NoMarket /\ disk.markets[m].status # "open" =>
                            /\ disk'.markets[m] = disk.markets[m]
                            /\ \A u \in Users, x \in Outcomes :
                                 disk'.pos[<<u, m, x>>] = disk.pos[<<u, m, x>>]
    OBVIOUS
  <2>2. pc = "commit" /\ disk' = Apply(disk, change)
    BY <1>1, <2>1, DiskSteps
  <2>. QED  BY <1>1, <2>2, SCommitLedgers
<1>. QED  BY <1>1, SInvariance, PTL DEF Spec, SettlementFinal

-----------------------------------------------------------------------------
(* Time priority and the index of engine ids. *)

(* The events of the ledger do not touch its sequence. *)
LEMMA EventSequence ==
  ASSUME NEW c \in LedgerType
  PROVE  /\ \A id, o, a : OrderEvent(c, id, o, a).sequence = c.sequence
         /\ \A m, market : MarketEvent(c, m, market).sequence = c.sequence
         /\ \A u, a : BalanceEvent(c, u, a).sequence = c.sequence
         /\ \A u, m, x, n, a : PositionEvent(c, u, m, x, n, a).sequence = c.sequence
         /\ \A l, m, x : PayoutEvents(c, l, m, x).sequence = c.sequence
BY DEF OrderEvent, MarketEvent, BalanceEvent, PositionEvent, PayoutEvents, LedgerType

(* Nor do the reservation, the release and the fill of an order. *)
LEMMA OrderSequence ==
  ASSUME NEW c \in LedgerType, NEW id \in OrderIds, NEW o \in Order
  PROVE  /\ ReserveEvents(c, id, o).sequence = c.sequence
         /\ ReleaseEvents(c, id, o).sequence = c.sequence
         /\ \A q \in Nat, p \in Nat : FillEvents(c, id, o, q, p).sequence = c.sequence
<1>1. ASSUME NEW n \in Order, NEW a \in Int, NEW u, NEW m, NEW x, NEW k, NEW b
      PROVE  /\ OrderEvent(c, id, n, a).sequence = c.sequence
             /\ PositionEvent(OrderEvent(c, id, n, a), u, m, x, k, b).sequence = c.sequence
  <2>1. OrderEvent(c, id, n, a) \in LedgerType /\ OrderEvent(c, id, n, a).sequence = c.sequence
    <3>1. OrderEvent(c, id, n, a) \in LedgerType
      BY OrderEventLedger
    <3>2. OrderEvent(c, id, n, a).sequence = c.sequence
      BY DEF OrderEvent, LedgerType
    <3>. QED  BY <3>1, <3>2
  <2>. DEFINE d == OrderEvent(c, id, n, a)
  <2>. HIDE DEF d
  <2>2. PositionEvent(d, u, m, x, k, b).sequence = d.sequence
    BY <2>1, EventSequence DEF d
  <2>. QED  BY <2>1, <2>2 DEF d
<1>2. ReserveEvents(c, id, o).sequence = c.sequence
  <2>1. -(o.price * o.qty) \in Int
    BY DEF Order
  <2>. QED  BY <1>1, <2>1 DEF ReserveEvents
<1>3. ReleaseEvents(c, id, o).sequence = c.sequence
  <2>. DEFINE closed == [o EXCEPT !.status = "cancelled"]
  <2>1. closed \in Order
    BY DEF Order, OrderStatuses
  <2>2. Remaining(o) * o.price \in Int
    BY DEF Order, Remaining
  <2>3. \/ ReleaseEvents(c, id, o) = OrderEvent(c, id, closed, Remaining(o) * o.price)
        \/ ReleaseEvents(c, id, o) = PositionEvent(OrderEvent(c, id, closed, 0),
                                       o.user, o.market, OutcomeOf(o.side), Remaining(o), 0)
    BY DEF ReleaseEvents
  <2>. HIDE DEF closed
  <2>. QED  BY <1>1, <2>1, <2>2, <2>3
<1>4. ASSUME NEW q \in Nat, NEW p \in Nat
      PROVE  FillEvents(c, id, o, q, p).sequence = c.sequence
  <2>1. FilledOrder(o, q) \in Order
    BY FilledOrderKept
  <2>. QED  BY <1>1, <2>1 DEF FillEvents
<1>. QED  BY <1>2, <1>3, <1>4

-----------------------------------------------------------------------------
(* Steps that leave the ledgers and the index alone. *)
LEMMA PLedgersKept ==
  ASSUME PInv, mem' = mem, disk' = disk, engineOrders' = engineOrders
  PROVE  IndexComplete' /\ OwnPlaces(mem)' /\ OwnPlaces(disk)' /\ YoungHaveNoId' /\ IdsInOrder'
<1>1. IndexComplete'
  BY DEF PInv, IndexComplete
<1>2. OwnPlaces(mem)' /\ OwnPlaces(disk)'
  BY DEF PInv, OwnPlaces
<1>3. YoungHaveNoId'
  BY DEF PInv, YoungHaveNoId
<1>4. IdsInOrder'
  BY DEF PInv, IdsInOrder
<1>. QED  BY <1>1, <1>2, <1>3, <1>4

(* Books that are kept or dropped, and ids that are handed out, keep the ids
   known to be handed out. *)
LEMMA PHandedOut ==
  ASSUME PInv, SInv', mem' = mem,
         \A s \in listed' : s \in listed /\ nextEid[Partition[s]] <= nextEid'[Partition[s]]
  PROVE  IdsHandedOut'
<1>1. ASSUME NEW id \in OrderIds, Active(mem.orders[id]), SymbolOf(id) \in listed'
      PROVE  mem.orders[id].eid <= nextEid'[Partition[SymbolOf(id)]]
  <2>. DEFINE e == Partition[SymbolOf(id)]
  <2>1. SymbolOf(id) \in Symbols
    BY <1>1 DEF SInv, IInv, TypeOK
  <2>2. e \in Engines
    BY <2>1, ConstantsAssumption
  <2>3. mem.orders[id].eid <= nextEid[e] /\ nextEid[e] <= nextEid'[e]
    BY <1>1 DEF PInv, IdsHandedOut
  <2>4. nextEid[e] \in Nat /\ nextEid'[e] \in Nat
    BY <2>2 DEF PInv, SInv, IInv, TypeOK
  <2>5. mem.orders[id].eid \in Nat
    BY <1>1 DEF PInv, SInv, IInv, TypeOK, LedgerType, Order, Active
  <2>. HIDE DEF e
  <2>. QED  BY <2>3, <2>4, <2>5 DEF e
<1>. QED  BY <1>1 DEF IdsHandedOut, SymbolOf

(* So they keep an id fresh. *)
LEMMA PFreshKept ==
  ASSUME PInv, SInv', mem' = mem, admitted' = admitted,
         \A s \in listed' : s \in listed /\ nextEid[Partition[s]] <= nextEid'[Partition[s]],
         NEW k, NEW n \in Nat, FreshId(n, k)
  PROVE  /\ n # 0
         /\ SymbolOf(admitted[k]) \in listed' => n <= nextEid'[EngineOf(k)]
         /\ \A id \in OrderIds :
              Active(mem.orders[id]) /\ mem.orders[id].market = mem.orders[admitted[k]].market =>
                mem.orders[id].eid < n
<1>. DEFINE s == SymbolOf(admitted[k])
            e == EngineOf(k)
<1>1. ASSUME s \in listed' PROVE n <= nextEid'[e]
  <2>1. s \in Symbols
    BY <1>1 DEF SInv, IInv, TypeOK
  <2>2. e \in Engines /\ e = Partition[s]
    BY <2>1, ConstantsAssumption DEF EngineOf
  <2>3. n <= nextEid[e] /\ nextEid[e] <= nextEid'[e]
    BY <1>1, <2>2 DEF FreshId
  <2>4. nextEid[e] \in Nat /\ nextEid'[e] \in Nat
    BY <2>2 DEF PInv, SInv, IInv, TypeOK
  <2>. HIDE DEF e
  <2>. QED  BY <2>3, <2>4
<1>. QED  BY <1>1 DEF FreshId

(* An operation that is over. *)
LEMMA PEnds ==
  ASSUME SInv', ScratchCleared, op' = "none", pc' \in {"idle", "down"},
         IndexComplete', OwnPlaces(mem)', OwnPlaces(disk)', YoungHaveNoId', IdsInOrder',
         IdsAccounted', IdsHandedOut'
  PROVE  PInv'
<1>1. /\ \A id \in OrderIds : change'.orders[id] = NoOrder
      /\ \A m \in Markets : change'.markets[m] = NoMarket
      /\ change'.sequence = 0
      /\ \A e \in Engines : taker'[e] = NoTaker
  BY EmptyLedger DEF ScratchCleared, Empty
<1>2. PlacesReserved' /\ SubmittedInOrder' /\ AnswersInOrder'
  BY <1>1 DEF PlacesReserved, SubmittedInOrder, AnswersInOrder, AwaitingIds, Reserving
<1>3. TakersInOrder' /\ StagedIds' /\ StagedSymbols'
  BY <1>1 DEF TakersInOrder, StagedIds, StagedSymbols
<1>. QED  BY <1>2, <1>3 DEF PInv

(* A failure, an exit, a refused removal, an empty batch, the end of recovery. *)
LEMMA PQuits ==
  ASSUME PInv, SInv',
         \/ BookMissing \/ EngineError \/ Crash \/ Stop
         \/ \E id \in todo : RemoveRejected(id)
         \/ RecoverDone
         \/ AdmissionDone /\ admitted = <<>>
  PROVE  PInv'
<1>1. /\ ScratchCleared /\ op' = "none" /\ pc' \in {"idle", "down"}
      /\ mem' = mem /\ disk' = disk /\ engineOrders' = engineOrders
      /\ listed' = listed /\ nextEid' = nextEid
  BY DEF BookMissing, EngineError, Crash, Stop, RemoveRejected, RecoverDone, AdmissionDone,
         Fail, Return, Exit, service
<1>2. IndexComplete' /\ OwnPlaces(mem)' /\ OwnPlaces(disk)' /\ YoungHaveNoId' /\ IdsInOrder'
  BY <1>1, PLedgersKept
<1>3. IdsHandedOut'
  BY <1>1 DEF PInv, IdsHandedOut, SymbolOf
<1>4. IdsAccounted'
  <2>1. CASE BookMissing \/ EngineError \/ Crash \/ Stop
    BY <2>1 DEF BookMissing, EngineError, Crash, Stop, Fail, Return, Exit, IdsAccounted
  <2>2. CASE \E id \in todo : RemoveRejected(id)
    BY <1>1, <2>2 DEF RemoveRejected, service, Recovering, PInv, SInv, IInv, Control, IdsAccounted
  <2>3. CASE RecoverDone
    BY <1>1, <2>3 DEF RecoverDone, service, Recovering, PInv, SInv, IInv, Control, IdsAccounted
  <2>4. CASE AdmissionDone
    BY <1>1, <2>4 DEF AdmissionDone, service, Recovering, Reserving, PInv, SInv, IInv, Control,
                      IdsAccounted
  <2>. QED  BY <2>1, <2>2, <2>3, <2>4
<1>. QED  BY <1>1, <1>2, <1>3, <1>4, PEnds

(* At rest every active order has its engine id. *)
LEMMA PAtRest ==
  ASSUME PInv, Ready
  PROVE  /\ Len(admitted) = 0 /\ DOMAIN results = {}
         /\ \A id \in OrderIds : Active(mem.orders[id]) => mem.orders[id].eid # 0
<1>1. results = <<>> /\ admitted = <<>> /\ op = "none"
  BY DEF Ready, PInv, SInv, IInv, Control
<1>. QED  BY <1>1 DEF Ready, PInv, IdsAccounted, Recovering

(* A client's operation begins: nothing is staged for an order yet. *)
LEMMA PBegins ==
  ASSUME PInv, SInv', Ready, mem' = mem, disk' = disk, engineOrders' = engineOrders,
         taker' = taker, admitted' = admitted, results' = results,
         op' \in {"create", "deposit", "place", "cancel", "resolve"},
         pc' \in {"commit", "admit", "remove"},
         pc' = "commit" => after' = "return" /\ op' # "place",
         change'.sequence = 0, \A id \in OrderIds : change'.orders[id] = NoOrder,
         StagedSymbols', IdsHandedOut'
  PROVE  PInv'
<1>1. IndexComplete' /\ OwnPlaces(mem)' /\ OwnPlaces(disk)' /\ YoungHaveNoId' /\ IdsInOrder'
  BY PLedgersKept
<1>2. /\ Len(admitted) = 0 /\ DOMAIN results = {}
      /\ \A id \in OrderIds : Active(mem.orders[id]) => mem.orders[id].eid # 0
      /\ \A e \in Engines : taker[e] = NoTaker
  BY PAtRest, SAtRest DEF PInv
<1>3. ~AwaitingIds'
  BY DEF AwaitingIds
<1>4. PlacesReserved' /\ SubmittedInOrder' /\ AnswersInOrder'
  BY <1>2, <1>3 DEF PlacesReserved, SubmittedInOrder, AnswersInOrder
<1>5. IdsAccounted' /\ TakersInOrder' /\ StagedIds'
  BY <1>2 DEF IdsAccounted, TakersInOrder, StagedIds
<1>. QED  BY <1>1, <1>4, <1>5 DEF PInv

(* A new market has a symbol no other market has. *)
LEMMA PCreateMarketFor ==
  ASSUME PInv, SInv', NEW c \in Creations, CreateMarketFor(c)
  PROVE  PInv'
<1>. DEFINE market == [symbol |-> c.symbol, owner |-> c.owner, status |-> "open"]
<1>a. /\ mem' = mem /\ disk' = disk /\ engineOrders' = engineOrders /\ nextEid' = nextEid
      /\ pc' = "commit" /\ after' = "return" /\ op' = "create" /\ admitted' = admitted
      /\ taker' = taker /\ results' = results /\ Ready /\ NewMarket(c)
      /\ listed' = listed \cup {c.symbol} /\ change' = MarketEvent(change, c.id, market)
  BY DEF CreateMarketFor, service
<1>b. /\ change = Empty /\ \A id \in OrderIds : change.orders[id] = NoOrder
      /\ \A m \in Markets : change.markets[m] = NoMarket
  BY <1>a, SAtRest DEF PInv
<1>c. c.id \in Markets /\ market \in Market /\ change \in LedgerType
  BY ConstantsAssumption DEF Market, MarketStatuses, PInv, SInv, IInv, TypeOK
<1>. HIDE DEF market
<1>d. /\ change'.orders = change.orders /\ change'.sequence = 0
      /\ change'.markets = [change.markets EXCEPT ![c.id] = market]
  BY <1>a, <1>b, <1>c, MarketEventLedger, EventSequence DEF Empty
<1>1. StagedSymbols'
  BY <1>a, <1>b, <1>c, <1>d DEF StagedSymbols, NewMarket, LedgerType
<1>2. IdsHandedOut'
  <2>1. ASSUME NEW id \in OrderIds, Active(mem.orders[id]) PROVE SymbolOf(id) # c.symbol
    <3>1. mem.orders[id].market \in Markets /\ mem.markets[mem.orders[id].market] # NoMarket
      BY <2>1 DEF Active, PInv, SInv, IInv, TypeOK, LedgerType, Order, MarketsKnown, MarketsIn
    <3>. QED  BY <1>a, <3>1 DEF SymbolOf, NewMarket
  <2>. QED  BY <1>a, <2>1 DEF PInv, IdsHandedOut, SymbolOf
<1>. QED  BY <1>1, <1>2, <1>a, <1>b, <1>d, PBegins

(* Deposits, batches, cancellations and settlements list no book. *)
LEMMA PClient ==
  ASSUME PInv, SInv',
         \/ \E u \in Users, cents \in DepositSizes : Deposit(u, cents)
         \/ \E b \in Batches : Place(b)
         \/ \E id \in OrderIds : Cancel(id)
         \/ \E m \in Markets, x \in Outcomes, u \in Users : ResolveFor(m, x, u)
  PROVE  PInv'
<1>a. /\ mem' = mem /\ disk' = disk /\ engineOrders' = engineOrders /\ nextEid' = nextEid
      /\ listed' = listed /\ admitted' = admitted /\ taker' = taker /\ results' = results
      /\ Ready /\ op' \in {"deposit", "place", "cancel", "resolve"}
      /\ pc' \in {"commit", "admit", "remove"}
      /\ pc' = "commit" => after' = "return" /\ op' # "place"
  BY DEF Deposit, Place, Cancel, ResolveFor, service, engine
<1>b. /\ change = Empty /\ \A id \in OrderIds : change.orders[id] = NoOrder
      /\ \A m \in Markets : change.markets[m] = NoMarket /\ change.sequence = 0
      /\ change \in LedgerType
  BY <1>a, SAtRest DEF PInv, Empty, SInv, IInv, TypeOK
<1>c. /\ change'.orders = change.orders /\ change'.sequence = change.sequence
      /\ change'.markets = change.markets
  <2>1. CASE \E u \in Users, cents \in DepositSizes : Deposit(u, cents)
    <3>1. PICK u \in Users, cents \in DepositSizes : change' = BalanceEvent(change, u, cents)
      BY <2>1 DEF Deposit
    <3>2. cents \in Int
      BY ConstantsAssumption
    <3>. QED  BY <1>b, <3>1, <3>2, BalanceEventLedger, EventSequence
  <2>2. CASE change' = change
    BY <2>2
  <2>. QED  BY <2>1, <2>2 DEF Place, Cancel, ResolveFor
<1>1. StagedSymbols' /\ change'.sequence = 0 /\ \A id \in OrderIds : change'.orders[id] = NoOrder
  BY <1>b, <1>c, EmptyLedger DEF StagedSymbols, Empty
<1>2. IdsHandedOut'
  BY <1>a DEF PInv, IdsHandedOut, SymbolOf
<1>. QED  BY <1>1, <1>2, <1>a, PBegins

-----------------------------------------------------------------------------
(* Steps of the engines: neither the ledgers nor what is staged changes, and
   an answer that has arrived stays. *)
LEMMA PEngineSteps ==
  ASSUME PInv, SInv', mem' = mem, disk' = disk, engineOrders' = engineOrders, failed' = failed,
         op' = op, pc' = pc, after' = after, change' = change, todo' = todo, admitted' = admitted,
         DOMAIN results \subseteq DOMAIN results',
         \A k \in DOMAIN results : results'[k].eid = results[k].eid,
         pc # "engine" => DOMAIN results' = DOMAIN results,
         IdsHandedOut', AnswersInOrder', TakersInOrder'
  PROVE  PInv'
<1>1. IndexComplete' /\ OwnPlaces(mem)' /\ OwnPlaces(disk)' /\ YoungHaveNoId' /\ IdsInOrder'
  BY PLedgersKept
<1>2. PlacesReserved'
  BY DEF PInv, PlacesReserved, Reserving
<1>3. SubmittedInOrder'
  BY DEF PInv, SubmittedInOrder, AwaitingIds
<1>4. IdsAccounted'
  BY DEF PInv, IdsAccounted, Recovering, Reserving
<1>5. StagedIds' /\ StagedSymbols'
  BY DEF PInv, StagedIds, StagedSymbols, AwaitingIds
<1>. QED  BY <1>1, <1>2, <1>3, <1>4, <1>5 DEF PInv

(* What is known of the answers and of the takers, as long as books are only
   kept or dropped, ids only handed out, and no engine gets another taker. *)
LEMMA PAnswersKept ==
  ASSUME PInv, SInv', mem' = mem, admitted' = admitted, AwaitingIds', AwaitingIds,
         \A s \in listed' : s \in listed /\ nextEid[Partition[s]] <= nextEid'[Partition[s]],
         DOMAIN results' = DOMAIN results, \A k \in DOMAIN results : results'[k].eid = results[k].eid,
         pc' = "engine" => pc = "engine"
  PROVE  AnswersInOrder'
<1>1. ASSUME NEW k \in DOMAIN results PROVE FreshId(results[k].eid, k)'
  <2>1. FreshId(results[k].eid, k) /\ results[k].eid \in Nat
    BY <1>1 DEF PInv, AnswersInOrder, SInv, IInv, TypeOK, Result
  <2>. DEFINE n == results[k].eid
  <2>2. n' = n
    BY <1>1
  <2>. HIDE DEF n
  <2>3. /\ n # 0
        /\ SymbolOf(admitted[k]) \in listed' => n <= nextEid'[EngineOf(k)]
        /\ \A id \in OrderIds :
              Active(mem.orders[id]) /\ mem.orders[id].market = mem.orders[admitted[k]].market =>
                mem.orders[id].eid < n
    BY <2>1, PFreshKept DEF n
  <2>4. FreshId(n, k)'
    BY <2>2, <2>3 DEF FreshId, SymbolOf, EngineOf
  <2>. QED  BY <2>4 DEF n
<1>2. \A j, k \in DOMAIN results : j < k /\ SameMarket(j, k)' => results'[j].eid < results'[k].eid
  BY DEF PInv, AnswersInOrder, SameMarket
<1>3. pc' = "engine" => \A k \in DOMAIN results, j \in 1..Len(admitted) :
        j < k /\ EngineOf(j)' = EngineOf(k)' => j \in DOMAIN results
  BY DEF PInv, AnswersInOrder, EngineOf, SymbolOf
<1>. QED  BY <1>1, <1>2, <1>3 DEF AnswersInOrder

(* An engine's taker, when a step leaves it its place and its id. *)
LEMMA PTakerKept ==
  ASSUME PInv, SInv', mem' = mem, admitted' = admitted, NEW e \in Engines,
         \A s \in listed' : s \in listed /\ nextEid[Partition[s]] <= nextEid'[Partition[s]],
         taker[e] # NoTaker, taker'[e] # NoTaker, taker'[e].k = taker[e].k,
         taker'[e].eid = taker[e].eid, SymbolOf(admitted[taker[e].k]) \in listed'
  PROVE  /\ FreshId(taker[e].eid, taker[e].k)'
         /\ SymbolOf(admitted[taker[e].k])' \in listed'
<1>. DEFINE n == taker[e].eid
            k == taker[e].k
<1>1. FreshId(n, k) /\ n \in Nat
  BY DEF PInv, TakersInOrder, SInv, IInv, TypeOK, Taker
<1>2. n' = n /\ k' = k /\ SymbolOf(admitted[k]) \in listed'
  OBVIOUS
<1>. HIDE DEF n, k
<1>3. /\ n # 0
      /\ SymbolOf(admitted[k]) \in listed' => n <= nextEid'[EngineOf(k)]
      /\ \A id \in OrderIds :
            Active(mem.orders[id]) /\ mem.orders[id].market = mem.orders[admitted[k]].market =>
              mem.orders[id].eid < n
  BY <1>1, PFreshKept
<1>4. FreshId(n, k)'
  BY <1>2, <1>3 DEF FreshId, SymbolOf, EngineOf
<1>5. SymbolOf(admitted[k])' \in listed'
  BY <1>2 DEF SymbolOf
<1>. QED  BY <1>4, <1>5 DEF n, k

(* A book that was added without an answer is of a symbol no market has. *)
LEMMA PAddBookUncertain ==
  ASSUME PInv, SInv', NEW c \in Creations, AddBookUncertain(c)
  PROVE  PInv'
<1>a. /\ mem' = mem /\ disk' = disk /\ engineOrders' = engineOrders /\ failed' = failed
      /\ op' = op /\ pc' = pc /\ after' = after /\ change' = change /\ todo' = todo
      /\ admitted' = admitted /\ results' = results /\ taker' = taker /\ nextEid' = nextEid
      /\ Ready /\ NewMarket(c) /\ listed' = listed \cup {c.symbol}
  BY DEF AddBookUncertain, service, control, scratch
<1>1. IdsHandedOut'
  <2>1. ASSUME NEW id \in OrderIds, Active(mem.orders[id]) PROVE SymbolOf(id) # c.symbol
    <3>1. mem.orders[id].market \in Markets /\ mem.markets[mem.orders[id].market] # NoMarket
      BY <2>1 DEF Active, PInv, SInv, IInv, TypeOK, LedgerType, Order, MarketsKnown, MarketsIn
    <3>. QED  BY <1>a, <3>1 DEF SymbolOf, NewMarket
  <2>. QED  BY <1>a, <2>1 DEF PInv, IdsHandedOut, SymbolOf
<1>2. AnswersInOrder' /\ TakersInOrder'
  <2>1. ~AwaitingIds' /\ \A e \in Engines : taker'[e] = NoTaker
    BY <1>a, SAtRest DEF PInv, AwaitingIds, Ready
  <2>. QED  BY <2>1 DEF AnswersInOrder, TakersInOrder
<1>. QED  BY <1>1, <1>2, <1>a, PEngineSteps

(* An engine that restarts alone loses its books with its ids: no order is
   submitted to it afterwards. *)
LEMMA PEngineRestart ==
  ASSUME PInv, SInv', NEW e \in Engines, EngineRestart(e)
  PROVE  PInv'
<1>a. /\ mem' = mem /\ disk' = disk /\ engineOrders' = engineOrders /\ failed' = failed
      /\ op' = op /\ pc' = pc /\ after' = after /\ change' = change /\ todo' = todo
      /\ admitted' = admitted /\ results' = results
      /\ listed' = {s \in listed : Partition[s] # e} /\ nextEid' = [nextEid EXCEPT ![e] = 0]
      /\ taker' = [taker EXCEPT ![e] = NoTaker]
  BY DEF EngineRestart, service, control, scratch
<1>b. \A s \in listed' : s \in listed /\ nextEid[Partition[s]] <= nextEid'[Partition[s]]
  <2>1. ASSUME NEW s \in listed' PROVE s \in listed /\ nextEid[Partition[s]] <= nextEid'[Partition[s]]
    <3>1. s \in listed /\ Partition[s] # e /\ Partition[s] \in Engines
      BY <1>a, ConstantsAssumption DEF PInv, SInv, IInv, TypeOK
    <3>2. nextEid'[Partition[s]] = nextEid[Partition[s]] /\ nextEid[Partition[s]] \in Nat
      BY <1>a, <3>1 DEF PInv, SInv, IInv, TypeOK
    <3>. QED  BY <3>1, <3>2
  <2>. QED  BY <2>1
<1>1. IdsHandedOut'
  BY <1>a, <1>b, PHandedOut
<1>2. AnswersInOrder'
  <2>1. AwaitingIds' <=> AwaitingIds
    BY <1>a DEF AwaitingIds
  <2>. QED  BY <1>a, <1>b, <2>1, PAnswersKept DEF AnswersInOrder
<1>3. TakersInOrder'
  <2>1. SUFFICES ASSUME NEW x \in Engines, taker'[x] # NoTaker
                 PROVE  /\ FreshId(taker[x].eid, taker[x].k)'
                        /\ SymbolOf(admitted[taker[x].k])' \in listed'
                        /\ \A j \in 1..Len(admitted) :
                             j < taker[x].k /\ EngineOf(j) = x => j \in DOMAIN results
                        /\ \A j \in DOMAIN results :
                             SameMarket(j, taker[x].k) => results[j].eid < taker[x].eid
    <3>1. \A x \in Engines : taker'[x] # NoTaker => taker'[x] = taker[x]
      BY <1>a DEF PInv, SInv, IInv, TypeOK
    <3>. QED  BY <1>a, <3>1 DEF TakersInOrder, EngineOf, SymbolOf, SameMarket
  <2>2. taker'[x] = taker[x] /\ x # e
    BY <1>a, <2>1 DEF PInv, SInv, IInv, TypeOK
  <2>3. EngineOf(taker[x].k) = x /\ SymbolOf(admitted[taker[x].k]) \in listed
    BY <2>1, <2>2 DEF PInv, SInv, IInv, Control, TakersInOrder
  <2>4. SymbolOf(admitted[taker[x].k]) \in listed'
    BY <1>a, <2>2, <2>3 DEF EngineOf
  <2>5. /\ FreshId(taker[x].eid, taker[x].k)'
        /\ SymbolOf(admitted[taker[x].k])' \in listed'
    BY <1>a, <1>b, <2>1, <2>2, <2>4, PTakerKept
  <2>. QED  BY <2>1, <2>2, <2>5 DEF PInv, TakersInOrder
<1>. QED  BY <1>1, <1>2, <1>3, <1>a, PEngineSteps

(* An engine gives an order it accepts the next id: larger than every id of
   the order's market, because the engine still has the market's book. *)
LEMMA PEngineAccept ==
  ASSUME PInv, SInv', NEW k \in 1..Len(admitted), EngineAccept(k)
  PROVE  PInv'
<1>. DEFINE e == EngineOf(k)
            s == SymbolOf(admitted[k])
<1>0. PICK n : n = nextEid[EngineOf(k)] + 1
  OBVIOUS
<1>a. /\ mem' = mem /\ disk' = disk /\ engineOrders' = engineOrders /\ failed' = failed
      /\ op' = op /\ pc' = pc /\ after' = after /\ change' = change /\ todo' = todo
      /\ admitted' = admitted /\ results' = results /\ listed' = listed /\ pc = "engine"
      /\ s \in listed /\ nextEid' = [nextEid EXCEPT ![e] = @ + 1] /\ taker[e] = NoTaker
      /\ \A j \in 1..(k - 1) : EngineOf(j) = e => j \in DOMAIN results
  BY DEF EngineAccept, service, control, scratch
<1>b. /\ n = nextEid[e] + 1 /\ e \in Engines /\ s \in Symbols /\ e = Partition[s] /\ nextEid[e] \in Nat
      /\ nextEid'[e] = n /\ n \in Nat /\ admitted[k] \in OrderIds
      /\ \A x \in Engines : x # e => nextEid'[x] = nextEid[x]
  <2>1. e \in Engines /\ s \in Symbols /\ admitted[k] \in OrderIds
    BY <1>a, AdmittedKnown DEF Submitted, PInv, SInv
  <2>2. nextEid[e] \in Nat
    BY <2>1 DEF PInv, SInv, IInv, TypeOK
  <2>. QED  BY <1>0, <1>a, <2>1, <2>2 DEF EngineOf, PInv, SInv, IInv, TypeOK
<1>c. /\ taker'[e] # NoTaker => taker'[e].k = k /\ taker'[e].eid = n
      /\ \A x \in Engines : x # e => taker'[x] = taker[x]
  <2>. HIDE DEF e
  <2>. DEFINE t == [k |-> k, eid |-> nextEid[e] + 1,
                    left |-> SubmittedQty(mem.orders[admitted[k]]), trades |-> <<>>]
  <2>1. taker' = [taker EXCEPT ![e] = t] /\ t.k = k /\ t.eid = n
    BY <1>0 DEF EngineAccept, e
  <2>. HIDE DEF t
  <2>. QED  BY <1>b, <2>1 DEF PInv, SInv, IInv, TypeOK
<1>d. \A x \in listed' : x \in listed /\ nextEid[Partition[x]] <= nextEid'[Partition[x]]
  <2>1. ASSUME NEW x \in listed' PROVE x \in listed /\ nextEid[Partition[x]] <= nextEid'[Partition[x]]
    <3>1. x \in listed /\ Partition[x] \in Engines
      BY <1>a, ConstantsAssumption DEF PInv, SInv, IInv, TypeOK
    <3>2. nextEid[Partition[x]] \in Nat
      BY <3>1 DEF PInv, SInv, IInv, TypeOK
    <3>. QED  BY <1>b, <3>1, <3>2
  <2>. QED  BY <2>1
<1>. HIDE DEF e, s
<1>1. IdsHandedOut'
  BY <1>a, <1>d, PHandedOut
<1>2. AnswersInOrder'
  <2>1. AwaitingIds' /\ AwaitingIds
    BY <1>a DEF AwaitingIds
  <2>. QED  BY <1>a, <1>d, <2>1, PAnswersKept
<1>3. FreshId(n, k)'
  <2>1. \A id \in OrderIds :
          Active(mem.orders[id]) /\ mem.orders[id].market = mem.orders[admitted[k]].market =>
            mem.orders[id].eid < n
    <3>1. SUFFICES ASSUME NEW id \in OrderIds, Active(mem.orders[id]),
                          mem.orders[id].market = mem.orders[admitted[k]].market
                   PROVE  mem.orders[id].eid < n
      OBVIOUS
    <3>2. SymbolOf(id) = s
      BY <3>1 DEF SymbolOf, s
    <3>3. mem.orders[id].eid <= nextEid[e] /\ mem.orders[id].eid \in Nat
      BY <1>a, <1>b, <3>1, <3>2 DEF PInv, IdsHandedOut, SInv, IInv, TypeOK, LedgerType, Order, Active
    <3>. QED  BY <1>b, <3>3
  <2>2. n # 0 /\ n <= n
    BY <1>b
  <2>3. EngineOf(k)' = e /\ SymbolOf(admitted[k])' = s
    BY <1>a DEF EngineOf, SymbolOf, e, s
  <2>. QED  BY <1>a, <1>b, <2>1, <2>2, <2>3 DEF FreshId
<1>4. TakersInOrder'
  <2>1. ASSUME NEW x \in Engines, taker'[x] # NoTaker, x # e
        PROVE  /\ FreshId(taker[x].eid, taker[x].k)'
               /\ SymbolOf(admitted[taker[x].k])' \in listed'
               /\ \A j \in 1..Len(admitted) :
                    j < taker[x].k /\ EngineOf(j) = x => j \in DOMAIN results
               /\ \A j \in DOMAIN results :
                    SameMarket(j, taker[x].k) => results[j].eid < taker[x].eid
    <3>1. taker'[x] = taker[x]
      BY <1>c, <2>1
    <3>2. SymbolOf(admitted[taker[x].k]) \in listed'
      BY <1>a, <2>1, <3>1 DEF PInv, TakersInOrder
    <3>3. /\ FreshId(taker[x].eid, taker[x].k)'
          /\ SymbolOf(admitted[taker[x].k])' \in listed'
      BY <1>a, <1>d, <2>1, <3>1, <3>2, PTakerKept
    <3>. QED  BY <2>1, <3>1, <3>3 DEF PInv, TakersInOrder
  <2>2. ASSUME taker'[e] # NoTaker
        PROVE  /\ taker'[e].k = k /\ taker'[e].eid = n
               /\ SymbolOf(admitted[k])' \in listed'
               /\ \A j \in 1..Len(admitted) : j < k /\ EngineOf(j) = e => j \in DOMAIN results
               /\ \A j \in DOMAIN results : SameMarket(j, k) => results[j].eid < n
    <3>1. \A j \in 1..Len(admitted) : j < k => j \in 1..(k - 1)
      <4>1. Len(admitted) \in Nat
        BY DEF PInv, SInv, IInv, TypeOK
      <4>. QED  BY <4>1
    <3>2. ASSUME NEW j \in DOMAIN results, SameMarket(j, k) PROVE results[j].eid < n
      <4>1. SymbolOf(admitted[j]) = s /\ EngineOf(j) = e
        BY <3>2 DEF SameMarket, SymbolOf, EngineOf, s, e
      <4>2. results[j].eid <= nextEid[e] /\ results[j].eid \in Nat
        BY <1>a, <4>1 DEF PInv, AnswersInOrder, AwaitingIds, FreshId, SInv, IInv, TypeOK, Result
      <4>. QED  BY <1>b, <4>2
    <3>. QED  BY <1>a, <1>c, <2>2, <3>1, <3>2 DEF SymbolOf, s
  <2>3. \A x \in Engines : taker'[x] # NoTaker /\ x # e => taker'[x] = taker[x]
    BY <1>c
  <2>4. ASSUME NEW x \in Engines, taker'[x] # NoTaker
        PROVE  /\ FreshId(taker[x].eid, taker[x].k)'
               /\ (SymbolOf(admitted[taker[x].k]) \in listed)'
               /\ \A j \in 1..Len(admitted) :
                    j < taker'[x].k /\ EngineOf(j)' = x => j \in DOMAIN results
               /\ \A j \in DOMAIN results :
                    SameMarket(j, taker[x].k)' => results[j].eid < taker'[x].eid
    <3>1. CASE x # e
      BY <1>a, <2>1, <2>3, <2>4, <3>1 DEF EngineOf, SymbolOf, SameMarket
    <3>2. CASE x = e
      <4>1. /\ taker'[x].k = k /\ taker'[x].eid = n
            /\ SymbolOf(admitted[k])' \in listed'
            /\ \A j \in 1..Len(admitted) : j < k /\ EngineOf(j) = e => j \in DOMAIN results
            /\ \A j \in DOMAIN results : SameMarket(j, k) => results[j].eid < n
        BY <1>b, <2>2, <2>4, <3>2
      <4>2. FreshId(taker[x].eid, taker[x].k)'
        BY <1>3, <4>1 DEF FreshId, SymbolOf, EngineOf
      <4>. QED  BY <1>a, <3>2, <4>1, <4>2 DEF EngineOf, SymbolOf, SameMarket
    <3>. QED  BY <3>1, <3>2
  <2>. QED  BY <1>a, <2>4 DEF TakersInOrder
<1>. QED  BY <1>1, <1>2, <1>4, <1>a, PEngineSteps

(* A trade changes neither who takes nor under which id. *)
LEMMA PEngineMatch ==
  ASSUME PInv, SInv', NEW e \in Engines, EngineMatch(e)
  PROVE  PInv'
<1>a. /\ mem' = mem /\ disk' = disk /\ engineOrders' = engineOrders /\ failed' = failed
      /\ op' = op /\ pc' = pc /\ after' = after /\ change' = change /\ todo' = todo
      /\ admitted' = admitted /\ results' = results /\ listed' = listed /\ nextEid' = nextEid
  BY DEF EngineMatch, service, control, scratch
<1>b. \A x \in Engines : taker'[x] # NoTaker =>
        taker[x] # NoTaker /\ taker'[x].k = taker[x].k /\ taker'[x].eid = taker[x].eid
  <2>1. PICK q, trade : taker' = [taker EXCEPT ![e].left = @ - q, ![e].trades = Append(@, trade)]
    BY ZenonT(30) DEF EngineMatch
  <2>2. taker[e] \in Taker /\ taker[e] # NoTaker /\ taker \in [Engines -> Taker \cup {NoTaker}]
    BY DEF EngineMatch, PInv, SInv, IInv, TypeOK
  <2>. QED  BY <2>1, <2>2 DEF Taker
<1>1. IdsHandedOut' /\ AnswersInOrder'
  BY <1>a DEF PInv, IdsHandedOut, AnswersInOrder, AwaitingIds, FreshId, SameMarket, EngineOf, SymbolOf
<1>2. TakersInOrder'
  BY <1>a, <1>b DEF PInv, TakersInOrder, FreshId, SameMarket, EngineOf, SymbolOf
<1>. QED  BY <1>1, <1>2, <1>a, PEngineSteps

(* An answer carries the taker's id; the engine answers in the order of
   admission. *)
LEMMA PEngineFinish ==
  ASSUME PInv, SInv', NEW e \in Engines, EngineFinish(e)
  PROVE  PInv'
<1>0. PICK t : t = taker[e]
  OBVIOUS
<1>a. /\ mem' = mem /\ disk' = disk /\ engineOrders' = engineOrders /\ failed' = failed
      /\ op' = op /\ pc' = pc /\ after' = after /\ change' = change /\ todo' = todo
      /\ admitted' = admitted /\ listed' = listed /\ nextEid' = nextEid /\ pc = "engine"
      /\ taker' = [taker EXCEPT ![e] = NoTaker] /\ t # NoTaker
      /\ results' = [k \in DOMAIN results \cup {t.k} |->
                        IF k = t.k THEN [eid |-> t.eid, trades |-> t.trades] ELSE results[k]]
  BY <1>0 DEF EngineFinish, service, control, scratch
<1>b. /\ t \in Taker /\ t.k \in 1..Len(admitted) /\ t.k \notin DOMAIN results /\ EngineOf(t.k) = e
      /\ FreshId(t.eid, t.k) /\ t.eid \in Nat
      /\ \A j \in 1..Len(admitted) : j < t.k /\ EngineOf(j) = e => j \in DOMAIN results
      /\ \A j \in DOMAIN results : SameMarket(j, t.k) => results[j].eid < t.eid
  BY <1>0, <1>a DEF PInv, SInv, IInv, TypeOK, Control, TakersInOrder, Taker
<1>c. /\ DOMAIN results' = DOMAIN results \cup {t.k}
      /\ results'[t.k].eid = t.eid
      /\ \A k \in DOMAIN results : results'[k] = results[k]
      /\ DOMAIN results \subseteq 1..Len(admitted)
  BY <1>a, <1>b DEF PInv, SInv, IInv, TypeOK
<1>d. \A x \in Engines : taker'[x] # NoTaker => taker'[x] = taker[x] /\ x # e
  BY <1>a DEF PInv, SInv, IInv, TypeOK
<1>e. AwaitingIds /\ AwaitingIds'
  BY <1>a DEF AwaitingIds
<1>f. \A j, k : SameMarket(j, k) => EngineOf(j) = EngineOf(k)
  BY DEF SameMarket, EngineOf, SymbolOf
<1>g. /\ \A k \in DOMAIN results : FreshId(results[k].eid, k)
      /\ \A j, k \in DOMAIN results : j < k /\ SameMarket(j, k) => results[j].eid < results[k].eid
      /\ \A k \in DOMAIN results, j \in 1..Len(admitted) :
           j < k /\ EngineOf(j) = EngineOf(k) => j \in DOMAIN results
  BY <1>a, <1>e DEF PInv, AnswersInOrder
<1>1. IdsHandedOut'
  BY <1>a DEF PInv, IdsHandedOut, SymbolOf
<1>2. AnswersInOrder'
  <2>1. \A k \in DOMAIN results' : FreshId(results'[k].eid, k)
    BY <1>b, <1>c, <1>g
  <2>2. ASSUME NEW j \in DOMAIN results', NEW k \in DOMAIN results', j < k, SameMarket(j, k)
        PROVE  results'[j].eid < results'[k].eid
    <3>1. CASE j \in DOMAIN results /\ k \in DOMAIN results
      BY <1>c, <1>g, <2>2, <3>1
    <3>2. CASE j \in DOMAIN results /\ k = t.k
      BY <1>b, <1>c, <2>2, <3>2
    <3>3. CASE j = t.k /\ k \in DOMAIN results
      BY <1>b, <1>f, <1>g, <2>2, <3>3
    <3>4. CASE j = t.k /\ k = t.k
      <4>1. t.k \in Nat
        BY <1>b DEF Taker
      <4>. QED  BY <2>2, <3>4, <4>1
    <3>. QED  BY <1>c, <3>1, <3>2, <3>3, <3>4
  <2>3. ASSUME NEW k \in DOMAIN results', NEW j \in 1..Len(admitted), j < k, EngineOf(j) = EngineOf(k)
        PROVE  j \in DOMAIN results'
    BY <1>b, <1>c, <1>g, <2>3
  <2>4. ASSUME NEW k \in DOMAIN results' PROVE FreshId(results[k].eid, k)'
    BY <1>a, <2>1 DEF FreshId, EngineOf, SymbolOf
  <2>5. \A j, k \in DOMAIN results' :
          j < k /\ SameMarket(j, k)' => results'[j].eid < results'[k].eid
    BY SMTT(30), <1>a, <2>2 DEF SameMarket
  <2>6. \A k \in DOMAIN results', j \in 1..Len(admitted') :
          j < k /\ EngineOf(j)' = EngineOf(k)' => j \in DOMAIN results'
    BY <1>a, <2>3 DEF EngineOf, SymbolOf
  <2>. QED  BY <2>4, <2>5, <2>6 DEF AnswersInOrder
<1>3. TakersInOrder'
  <2>1. SUFFICES ASSUME NEW x \in Engines, taker'[x] # NoTaker
                 PROVE  /\ FreshId(taker[x].eid, taker[x].k)'
                        /\ SymbolOf(admitted[taker[x].k])' \in listed'
                        /\ \A j \in 1..Len(admitted) :
                             j < taker[x].k /\ EngineOf(j) = x => j \in DOMAIN results'
                        /\ \A j \in DOMAIN results' :
                             SameMarket(j, taker[x].k) => results'[j].eid < taker[x].eid
    <3>1. \A x \in Engines : taker'[x] # NoTaker => taker'[x] = taker[x]
      BY <1>d
    <3>. QED  BY ZenonT(30), <1>a, <3>1 DEF TakersInOrder, EngineOf, SymbolOf, SameMarket
  <2>2. taker[x] # NoTaker /\ x # e /\ taker'[x] = taker[x]
    BY <1>d, <2>1
  <2>3. EngineOf(taker[x].k) = x
    BY <2>2 DEF PInv, SInv, IInv, Control
  <2>4. ~SameMarket(t.k, taker[x].k)
    BY <1>b, <1>f, <2>2, <2>3
  <2>5. ASSUME NEW s \in listed'
        PROVE  s \in listed /\ nextEid[Partition[s]] <= nextEid'[Partition[s]]
    <3>1. Partition[s] \in Engines
      BY ConstantsAssumption DEF SInv, IInv, TypeOK
    <3>2. nextEid[Partition[s]] \in Nat
      BY <3>1 DEF PInv, SInv, IInv, TypeOK
    <3>. QED  BY <1>a, <3>2
  <2>6. SymbolOf(admitted[taker[x].k]) \in listed'
    BY <1>a, <2>2 DEF PInv, TakersInOrder
  <2>7. FreshId(taker[x].eid, taker[x].k)' /\ SymbolOf(admitted[taker[x].k])' \in listed'
    BY <1>a, <2>1, <2>2, <2>5, <2>6, PTakerKept
  <2>. QED  BY <1>c, <2>2, <2>4, <2>7 DEF PInv, TakersInOrder
<1>4. /\ DOMAIN results \subseteq DOMAIN results'
      /\ \A k \in DOMAIN results : results'[k].eid = results[k].eid
  BY <1>c
<1>. QED  BY <1>1, <1>2, <1>3, <1>4, <1>a, PEngineSteps

-----------------------------------------------------------------------------
(* Steps that only move on. *)
LEMMA PMovesOn ==
  ASSUME PInv, SInv', mem' = mem, disk' = disk, engineOrders' = engineOrders, failed' = failed,
         op' = op, change' = change, admitted' = admitted, todo' = todo, pc # "down",
         listed' = listed, nextEid' = nextEid, taker' = taker, results' = results,
         \A id \in OrderIds : Recovering(id)' <=> Recovering(id),
         Reserving' <=> Reserving, AwaitingIds' <=> AwaitingIds, pc' # "engine",
         op = "place" /\ pc' = "commit" /\ AwaitingIds' => DOMAIN results = 1..Len(admitted)
  PROVE  PInv'
<1>1. IndexComplete' /\ OwnPlaces(mem)' /\ OwnPlaces(disk)' /\ YoungHaveNoId' /\ IdsInOrder'
  BY PLedgersKept
<1>2. PlacesReserved'
  BY DEF PInv, PlacesReserved
<1>3. SubmittedInOrder'
  BY DEF PInv, SubmittedInOrder
<1>4. IdsAccounted'
  BY DEF PInv, IdsAccounted
<1>5. StagedIds' /\ StagedSymbols'
  BY DEF PInv, StagedIds, StagedSymbols
<1>6. IdsHandedOut'
  BY DEF PInv, IdsHandedOut, SymbolOf
<1>7. AnswersInOrder' /\ TakersInOrder'
  BY DEF PInv, AnswersInOrder, TakersInOrder, FreshId, SameMarket, EngineOf, SymbolOf
<1>. QED  BY <1>1, <1>2, <1>3, <1>4, <1>5, <1>6, <1>7 DEF PInv

(* All answers are in. *)
LEMMA PEngineDone ==
  ASSUME PInv, SInv', EngineDone
  PROVE  PInv'
<1>1. \A id \in OrderIds : Recovering(id)' <=> Recovering(id)
  BY DEF EngineDone, Recovering
<1>2. (Reserving' <=> Reserving) /\ (AwaitingIds' <=> AwaitingIds)
  BY DEF EngineDone, Reserving, AwaitingIds
<1>. QED  BY <1>1, <1>2, PMovesOn DEF EngineDone, service, engine

(* Completion goes on: a batch keeps its answers until its commit, recovery
   has committed the order before its fills. *)
LEMMA PFillsDone ==
  ASSUME PInv, SInv', FillsDone
  PROVE  PInv'
<1>1. /\ cur \in 1..Len(admitted) /\ op \in {"place", "recover"} /\ op' = op /\ pc = "fill"
      /\ op = "recover" => Len(admitted) = 1
      /\ DOMAIN results = 1..Len(admitted)
  BY DEF FillsDone, PInv, SInv, IInv, Control, Submitted, Answered
<1>2. ASSUME op = "recover" PROVE ~(cur < Len(admitted))
  <2>1. cur \in Nat /\ cur \in 1..1 /\ Len(admitted) = 1
    BY <1>1, <1>2 DEF PInv, SInv, IInv, TypeOK
  <2>. QED  BY <2>1
<1>3. \/ op = "place" /\ pc' = "stage"
      \/ op = "place" /\ pc' = "commit" /\ after' = "return"
      \/ op = "recover" /\ pc' = "recover"
      \/ op = "recover" /\ pc' = "commit" /\ after' = "recover"
  BY <1>1, <1>2 DEF FillsDone
<1>4. \A id \in OrderIds : Recovering(id)' <=> Recovering(id)
  BY <1>1, <1>3 DEF FillsDone, Recovering
<1>5. (Reserving' <=> Reserving) /\ (AwaitingIds' <=> AwaitingIds)
  BY <1>1, <1>3 DEF Reserving, AwaitingIds
<1>. QED  BY <1>1, <1>3, <1>4, <1>5, PMovesOn DEF FillsDone, service, engine

(* The admission loop ends in the commit of the reservations, or in nothing. *)
LEMMA PAdmissionDone ==
  ASSUME PInv, SInv', AdmissionDone
  PROVE  PInv'
<1>1. CASE admitted = <<>>
  BY <1>1, PQuits
<1>2. CASE admitted # <<>>
  <2>1. /\ pc = "admit" /\ pc' = "commit" /\ after' = "engine" /\ op' = op /\ op = "place"
    BY <1>2 DEF AdmissionDone, PInv, SInv, IInv, Control
  <2>2. \A id \in OrderIds : Recovering(id)' <=> Recovering(id)
    BY <2>1 DEF Recovering
  <2>3. (Reserving' <=> Reserving) /\ (AwaitingIds' <=> AwaitingIds) /\ ~AwaitingIds
    BY <2>1 DEF Reserving, AwaitingIds
  <2>. QED  BY <1>2, <2>1, <2>2, <2>3, PMovesOn DEF AdmissionDone, service, scratch
<1>. QED  BY <1>1, <1>2

(* Recovery submits the oldest order that is left. *)
LEMMA PRecoverNext ==
  ASSUME PInv, SInv', NEW id \in todo, RecoverNext(id)
  PROVE  PInv'
<1>a. /\ mem' = mem /\ disk' = disk /\ engineOrders' = engineOrders /\ failed' = failed
      /\ op' = op /\ change' = change /\ todo' = todo \ {id} /\ taker' = taker
      /\ listed' = listed /\ nextEid' = nextEid /\ results' = <<>>
      /\ pc = "recover" /\ pc' = "engine" /\ admitted' = <<id>>
      /\ \A other \in todo : mem.orders[id].seq <= mem.orders[other].seq
  BY DEF RecoverNext, service
<1>b. /\ op = "recover" /\ Len(admitted') = 1 /\ admitted'[1] = id /\ change = Empty
      /\ \A e \in Engines : taker[e] = NoTaker
      /\ DOMAIN results' = {} /\ id \in OrderIds /\ todo \subseteq OrderIds
  BY <1>a DEF PInv, SInv, IInv, Control, TypeOK
<1>1. IndexComplete' /\ OwnPlaces(mem)' /\ OwnPlaces(disk)' /\ YoungHaveNoId' /\ IdsInOrder'
  BY <1>a, PLedgersKept
<1>2. PlacesReserved' /\ StagedIds' /\ StagedSymbols'
  BY <1>a, <1>b, EmptyLedger DEF PlacesReserved, StagedIds, StagedSymbols, Reserving, Empty
<1>3. SubmittedInOrder'
  <2>1. mem.orders[id].eid = 0
    BY <1>b DEF PInv, SInv, AwaitingRecovery
  <2>2. ASSUME NEW x \in todo, x # id PROVE mem.orders[id].seq < mem.orders[x].seq
    <3>1. mem.orders[id] # NoOrder /\ mem.orders[x] # NoOrder
      BY <1>b DEF PInv, SInv, IInv, Control
    <3>2. mem.orders[id].seq # mem.orders[x].seq /\ mem.orders[id].seq <= mem.orders[x].seq
      BY <1>a, <1>b, <2>2, <3>1 DEF PInv, OwnPlaces
    <3>3. mem.orders[id].seq \in Nat /\ mem.orders[x].seq \in Nat
      BY <1>b, <3>1 DEF PInv, SInv, IInv, TypeOK, LedgerType, Order
    <3>. QED  BY <3>2, <3>3
  <2>3. \A j, k \in 1..1 : ~(j < k)
    OBVIOUS
  <2>. QED  BY <1>a, <1>b, <2>1, <2>2, <2>3 DEF SubmittedInOrder
<1>4. IdsAccounted'
  <2>1. \A x \in OrderIds : Recovering(x)' <=> Recovering(x)
    BY <1>a, <1>b DEF Recovering
  <2>. QED  BY <1>a, <1>b, <2>1 DEF PInv, IdsAccounted
<1>5. IdsHandedOut'
  BY <1>a DEF PInv, IdsHandedOut, SymbolOf
<1>6. AnswersInOrder' /\ TakersInOrder'
  BY <1>a, <1>b DEF AnswersInOrder, TakersInOrder
<1>. QED  BY <1>1, <1>2, <1>3, <1>4, <1>5, <1>6 DEF PInv

(* The orders of a batch take the places behind the last known one. *)
LEMMA PAdmitNext ==
  ASSUME PInv, SInv', AdmitNext
  PROVE  PInv'
<1>. DEFINE r == reqs[cur]
            n == AdmittedOrder(r)
<1>a. /\ mem' = mem /\ disk' = disk /\ engineOrders' = engineOrders /\ failed' = failed
      /\ op' = op /\ pc' = pc /\ pc = "admit" /\ after' = after /\ todo' = todo
      /\ taker' = taker /\ results' = results /\ listed' = listed /\ nextEid' = nextEid
      /\ op = "place" /\ r \in Request /\ r.id \in OrderIds
  BY ConstantsAssumption DEF AdmitNext, service, control, engine, PInv, SInv, IInv, TypeOK, Control,
                             Request
<1>b. \A id \in OrderIds : ~Recovering(id) /\ ~Recovering(id)'
  BY <1>a DEF Recovering
<1>c. ~AwaitingIds /\ ~AwaitingIds' /\ Reserving /\ Reserving'
  BY <1>a DEF AwaitingIds, Reserving
<1>d. \A e \in Engines : taker[e] = NoTaker
  BY <1>a DEF PInv, SInv, IInv, Control
<1>1. CASE change' = change /\ admitted' = admitted
  BY <1>1, <1>a, <1>b, <1>c, PMovesOn
<1>2. CASE /\ change.orders[r.id] = NoOrder /\ mem.orders[r.id] = NoOrder
           /\ change' = [ReserveEvents(change, r.id, n) EXCEPT !.sequence = @ + 1]
           /\ admitted' = Append(admitted, r.id)
  <2>a. /\ mem.sequence \in Nat /\ Len(admitted) \in Nat /\ change \in LedgerType
        /\ change.sequence = Len(admitted)
    BY <1>c DEF PInv, SInv, IInv, TypeOK, LedgerType, PlacesReserved
  <2>1. n \in Order /\ n.eid = 0 /\ n.seq = mem.sequence + (Len(admitted) + 1)
    <3>1. AdmissionSequence \in Nat /\ AdmissionSequence = mem.sequence + (Len(admitted) + 1)
      BY <2>a DEF AdmissionSequence
    <3>2. "pending" \in OrderStatuses
      BY DEF OrderStatuses, ActiveStatuses
    <3>. HIDE DEF r
    <3>. QED  BY <1>a, <3>1, <3>2 DEF AdmittedOrder, Order, Request
  <2>. HIDE DEF n
  <2>2. /\ change'.orders = [change.orders EXCEPT ![r.id] = n]
        /\ change'.markets = change.markets
        /\ change'.sequence = Len(admitted) + 1
    <3>. DEFINE d == ReserveEvents(change, r.id, n)
    <3>1. /\ d \in LedgerType /\ d.orders = [change.orders EXCEPT ![r.id] = n]
          /\ d.markets = change.markets
      BY <1>a, <2>a, <2>1, ReserveLedger
    <3>2. d.sequence = Len(admitted)
      BY <1>a, <2>a, <2>1, OrderSequence
    <3>3. change' = [d EXCEPT !.sequence = @ + 1]
      BY <1>2
    <3>. HIDE DEF d
    <3>4. /\ change'.orders = d.orders /\ change'.markets = d.markets
          /\ change'.sequence = d.sequence + 1
      BY <3>1, <3>3 DEF LedgerType
    <3>. QED  BY <3>1, <3>2, <3>4
  <2>3. \A x \in OrderIds : change'.orders[x] = IF x = r.id THEN n ELSE change.orders[x]
    BY <1>a, <2>2, <2>a DEF LedgerType
  <2>4. /\ Len(admitted') = Len(admitted) + 1
        /\ admitted'[Len(admitted) + 1] = r.id
        /\ \A k \in 1..Len(admitted) : admitted'[k] = admitted[k] /\ admitted[k] \in OrderIds
    <3>. HIDE DEF r
    <3>. QED  BY <1>2, <1>a DEF PInv, SInv, IInv, TypeOK
  <2>5. PlacesReserved'
    <3>1. ASSUME NEW k \in 1..Len(admitted')
          PROVE  /\ change'.orders[admitted'[k]].seq = mem.sequence + k
                 /\ change'.orders[admitted'[k]].eid = 0
      <4>1. k = Len(admitted) + 1 \/ k \in 1..Len(admitted)
        BY <2>4, <2>a
      <4>2. CASE k = Len(admitted) + 1
        <5>1. change'.orders[admitted'[k]] = n
          BY <4>2, <1>a, <2>3, <2>4
        <5>. QED  BY <4>2, <5>1, <2>1
      <4>3. CASE k \in 1..Len(admitted)
        <5>1. /\ change.orders[admitted[k]] # NoOrder
              /\ change.orders[admitted[k]].seq = mem.sequence + k
              /\ change.orders[admitted[k]].eid = 0
          BY <4>3, <1>c DEF PInv, SInv, IInv, Control, PlacesReserved
        <5>2. admitted[k] # r.id
          BY <5>1, <1>2
        <5>3. change'.orders[admitted'[k]] = change.orders[admitted[k]]
          BY <4>3, <5>2, <2>3, <2>4
        <5>. QED  BY <5>1, <5>3
      <4>. QED  BY <4>1, <4>2, <4>3
    <3>. QED  BY <3>1, <1>a, <1>c, <2>2, <2>4 DEF PInv, PlacesReserved
  <2>6. IndexComplete' /\ OwnPlaces(mem)' /\ OwnPlaces(disk)' /\ YoungHaveNoId' /\ IdsInOrder'
    BY <1>a, PLedgersKept
  <2>7. SubmittedInOrder' /\ AnswersInOrder' /\ TakersInOrder'
    BY <1>a, <1>c, <1>d DEF SubmittedInOrder, AnswersInOrder, TakersInOrder
  <2>8. IdsAccounted'
    BY <1>a, <1>b, <1>c DEF PInv, IdsAccounted
  <2>9. IdsHandedOut'
    BY <1>a DEF PInv, IdsHandedOut, SymbolOf
  <2>10. StagedIds' /\ StagedSymbols'
    BY <1>2, <1>a, <1>c, <2>2, <2>3 DEF PInv, StagedIds, StagedSymbols
  <2>. QED  BY <2>5, <2>6, <2>7, <2>8, <2>9, <2>10 DEF PInv
<1>. QED  BY <1>1, <1>2 DEF AdmitNext

-----------------------------------------------------------------------------
(* Steps that stage an order or a market once the reservations of a batch, if
   any, are committed. *)
LEMMA PStages ==
  ASSUME PInv, SInv', mem' = mem, disk' = disk, engineOrders' = engineOrders, failed' = failed,
         op' = op, admitted' = admitted, todo' \subseteq todo, pc # "down",
         listed' = listed, nextEid' = nextEid, DOMAIN results' = DOMAIN results,
         \A k \in DOMAIN results : results'[k].eid = results[k].eid,
         \A id \in OrderIds : Recovering(id)' <=> Recovering(id),
         ~Reserving, ~Reserving', AwaitingIds' <=> AwaitingIds, pc' # "engine",
         ~(op = "place" /\ pc' = "commit"), change'.sequence = change.sequence,
         StagedIds', StagedSymbols'
  PROVE  PInv'
<1>1. IndexComplete' /\ OwnPlaces(mem)' /\ OwnPlaces(disk)' /\ YoungHaveNoId' /\ IdsInOrder'
  BY PLedgersKept
<1>2. PlacesReserved'
  BY DEF PInv, PlacesReserved
<1>3. SubmittedInOrder'
  BY DEF PInv, SubmittedInOrder
<1>4. IdsAccounted'
  BY DEF PInv, IdsAccounted
<1>5. IdsHandedOut'
  BY DEF PInv, IdsHandedOut, SymbolOf
<1>6. TakersInOrder'
  <2>1. \A e \in Engines : taker'[e] = NoTaker
    BY DEF SInv, IInv, Control
  <2>. QED  BY <2>1 DEF TakersInOrder
<1>7. AnswersInOrder'
  <2>1. CASE ~AwaitingIds'
    BY <2>1 DEF AnswersInOrder
  <2>2. CASE AwaitingIds'
    <3>1. ASSUME NEW s \in listed'
          PROVE  s \in listed /\ nextEid[Partition[s]] <= nextEid'[Partition[s]]
      <4>1. Partition[s] \in Engines
        BY ConstantsAssumption DEF PInv, SInv, IInv, TypeOK
      <4>2. nextEid[Partition[s]] \in Nat
        BY <4>1 DEF PInv, SInv, IInv, TypeOK
      <4>. QED  BY <4>2
    <3>. QED  BY <2>2, <3>1, PAnswersKept
  <2>. QED  BY <2>1, <2>2
<1>. QED  BY <1>1, <1>2, <1>3, <1>4, <1>5, <1>6, <1>7 DEF PInv

(* Completion stages an order under the id the engine answered with. *)
LEMMA PStageOrder ==
  ASSUME PInv, SInv', StageOrder
  PROVE  PInv'
<1>. DEFINE id == admitted[cur]
            o == mem.orders[id]
            status == IF o.filled > 0 THEN "partial" ELSE "open"
            n == [o EXCEPT !.eid = results[cur].eid, !.status = status]
<1>a. /\ mem' = mem /\ disk' = disk /\ engineOrders' = engineOrders /\ failed' = failed
      /\ op' = op /\ todo' = todo /\ admitted' = admitted /\ results' = results
      /\ listed' = listed /\ nextEid' = nextEid
      /\ pc = "stage" /\ op \in {"place", "recover"}
      /\ IF op = "recover" THEN pc' = "commit" /\ after' = "fill" ELSE pc' = "fill"
  BY DEF StageOrder, service, engine, PInv, SInv, IInv, Control
<1>b. /\ cur \in 1..Len(admitted) /\ id \in OrderIds /\ o \in Order
      /\ results[cur].eid \in Nat /\ DOMAIN results = 1..Len(admitted)
  BY SMTT(30), <1>a DEF PInv, SInv, IInv, TypeOK, Control, Submitted, Answered, LedgerType, Result
<1>c. n \in Order /\ n.eid = results[cur].eid
  <2>1. status \in OrderStatuses
    BY DEF OrderStatuses, ActiveStatuses
  <2>. HIDE DEF status, o
  <2>. QED  BY <1>b, <2>1 DEF Order
<1>d. change' = OrderEvent(change, id, n, 0) /\ change \in LedgerType
  BY DEF StageOrder, PInv, SInv, IInv, TypeOK
<1>. HIDE DEF n, status
<1>e. /\ change'.orders = [change.orders EXCEPT ![id] = n] /\ change'.markets = change.markets
      /\ change'.sequence = change.sequence
  <2>1. /\ OrderEvent(change, id, n, 0).orders = [change.orders EXCEPT ![id] = n]
        /\ OrderEvent(change, id, n, 0).markets = change.markets
    BY <1>b, <1>c, <1>d, OrderEventLedger
  <2>2. OrderEvent(change, id, n, 0).sequence = change.sequence
    BY <1>d, EventSequence
  <2>. QED  BY <1>d, <2>1, <2>2
<1>f. \A x \in OrderIds : change'.orders[x] = IF x = id THEN n ELSE change.orders[x]
  BY <1>d, <1>e DEF LedgerType
<1>g. AwaitingIds /\ AwaitingIds' /\ ~Reserving /\ ~Reserving'
  BY <1>a DEF AwaitingIds, Reserving
<1>1. StagedIds'
  <2>1. o.eid = 0
    BY <1>b, <1>g DEF PInv, SubmittedInOrder
  <2>2. \E k \in DOMAIN results' : admitted'[k] = id /\ change'.orders[id].eid = results'[k].eid
    BY <1>a, <1>b, <1>c, <1>f
  <2>3. ASSUME NEW x \in OrderIds, change'.orders[x] # NoOrder, mem.orders[x] # NoOrder, x # id
        PROVE  IF mem.orders[x].eid # 0
               THEN change'.orders[x].eid = mem.orders[x].eid
               ELSE \E k \in DOMAIN results : admitted[k] = x /\ change'.orders[x].eid = results[k].eid
    BY <1>f, <2>3 DEF PInv, StagedIds
  <2>. HIDE DEF o, id
  <2>4. mem.orders[id].eid = 0
    BY <2>1 DEF o
  <2>. QED  BY <1>a, <1>g, <2>2, <2>3, <2>4 DEF StagedIds
<1>2. StagedSymbols'
  BY <1>a, <1>e DEF PInv, StagedSymbols
<1>3. \A x \in OrderIds : Recovering(x)' <=> Recovering(x)
  BY <1>a DEF Recovering
<1>. QED  BY <1>1, <1>2, <1>3, <1>a, <1>e, <1>g, PStages

(* A staged change whose known orders have their engine ids, or the ones the
   engine answered with. *)
KeepsIds(c) ==
  /\ c.sequence = change.sequence
  /\ \A id \in OrderIds : c.orders[id] # NoOrder =>
       IF mem.orders[id].eid # 0
       THEN c.orders[id].eid = mem.orders[id].eid
       ELSE /\ AwaitingIds
            /\ \E k \in DOMAIN results : admitted[k] = id /\ c.orders[id].eid = results[k].eid

(* Staging a fill keeps it so, if the order has an engine id already. *)
LEMMA FillKeepsIds ==
  ASSUME PInv, NEW c, Forward(c), KeepsIds(c), NEW id \in OrderIds, mem.orders[id] # NoOrder,
         change.orders[id] # NoOrder \/ mem.orders[id].eid # 0,
         NEW q \in Nat, NEW p \in Nat,
         NEW o, o = IF c.orders[id] # NoOrder THEN c.orders[id] ELSE mem.orders[id]
  PROVE  KeepsIds(FillEvents(c, id, o, q, p))
<1>. DEFINE d == FillEvents(c, id, o, q, p)
            n == FilledOrder(o, q)
<1>1. o \in Order /\ c \in LedgerType
  BY DEF PInv, SInv, IInv, TypeOK, LedgerType, Forward
<1>2. d \in LedgerType /\ d.orders = [c.orders EXCEPT ![id] = n]
  BY <1>1, FillLedger
<1>3. n.eid = o.eid
  BY <1>1, FilledOrderAdvances
<1>4. d.sequence = c.sequence
  BY <1>1, OrderSequence
<1>. HIDE DEF d, n
<1>5. \A x \in OrderIds : d.orders[x] = IF x = id THEN n ELSE c.orders[x]
  BY <1>1, <1>2 DEF LedgerType
<1>6. \/ c.orders[id] # NoOrder /\ o = c.orders[id]
      \/ mem.orders[id].eid # 0 /\ o = mem.orders[id]
  <2>1. change.orders[id] # NoOrder => c.orders[id] # NoOrder
    BY DEF Forward
  <2>. QED  BY <2>1
<1>7. ASSUME NEW x \in OrderIds, d.orders[x] # NoOrder
      PROVE  IF mem.orders[x].eid # 0
             THEN d.orders[x].eid = mem.orders[x].eid
             ELSE /\ AwaitingIds
                  /\ \E k \in DOMAIN results : admitted[k] = x /\ d.orders[x].eid = results[k].eid
  <2>1. CASE x # id
    BY <1>5, <1>7, <2>1 DEF KeepsIds
  <2>2. CASE x = id
    <3>1. d.orders[x].eid = o.eid
      BY <1>3, <1>5, <2>2
    <3>. QED  BY <1>6, <2>2, <3>1 DEF KeepsIds
  <2>. QED  BY <2>1, <2>2
<1>8. KeepsIds(d)
  BY <1>4, <1>7 DEF KeepsIds
<1>. QED  BY <1>8 DEF d

(* A fill finds an order that is staged or has its engine id. *)
LEMMA LookupHasId ==
  ASSUME PInv, pc = "fill", NEW m, NEW eid, NEW id \in Lookup(m, eid)
  PROVE  change.orders[id] # NoOrder \/ mem.orders[id].eid # 0
<1>1. \A x \in engineOrders : mem.orders[x[3]].eid # 0
  BY DEF PInv, SInv, IndexKeys
<1>2. op = "place" => \A j \in 1..cur : change.orders[admitted[j]] # NoOrder
  BY DEF PInv, SInv, IInv, CompletionStaged
<1>3. op = "place" => \A x \in OwnIndex : change.orders[x[3]] # NoOrder
  BY <1>2 DEF OwnIndex
<1>. QED  BY <1>1, <1>3 DEF Lookup

(* Fills leave the engine ids alone. *)
LEMMA PStageFill ==
  ASSUME PInv, SInv', StageFill
  PROVE  PInv'
<1>. DEFINE t == Head(results[cur].trades)
            m == mem.orders[admitted[cur]].market
            buyers == Lookup(m, t.buy)
            sellers == Lookup(m, t.sell)
<1>a. /\ mem' = mem /\ disk' = disk /\ engineOrders' = engineOrders /\ failed' = failed
      /\ op' = op /\ todo' = todo /\ admitted' = admitted /\ listed' = listed /\ nextEid' = nextEid
      /\ pc = "fill" /\ pc' = pc /\ after' = after /\ op \in {"place", "recover"}
      /\ results' = [results EXCEPT ![cur].trades = Tail(@)]
  BY DEF StageFill, service, control, PInv, SInv, IInv, Control
<1>b. t.qty \in Nat /\ t.price \in Nat
  <2>1. results[cur].trades # <<>> /\ results[cur].trades \in Seq(Trade)
    BY ZenonT(30) DEF StageFill, PInv, SInv, IInv, TypeOK, Control, Answered, Result
  <2>2. t \in Trade
    BY <2>1
  <2>. QED  BY <2>2 DEF Trade
<1>c. ASSUME NEW eid, NEW id \in Lookup(m, eid)
      PROVE  /\ id \in OrderIds /\ mem.orders[id] # NoOrder
             /\ change.orders[id] # NoOrder \/ mem.orders[id].eid # 0
  <2>. HIDE DEF m
  <2>. QED  BY <1>a, LookupActive, LookupHasId DEF Active, PInv
<1>d. Forward(change) /\ KeepsIds(change) /\ \A y \in Markets : change.markets[y] = NoMarket
  <2>1. Forward(change)
    BY <1>a DEF Reserving, Forward, PInv, SInv, IInv, TypeOK, StagedFaithful
  <2>2. KeepsIds(change)
    BY <2>1 DEF Forward, KeepsIds, PInv, StagedIds
  <2>3. \A y \in Markets : change.markets[y] = NoMarket
    BY <1>a DEF PInv, SInv, SettlementInv
  <2>. QED  BY <2>1, <2>2, <2>3
<1>e. Forward(change') /\ KeepsIds(change')
  <2>1. CASE UNCHANGED change
    BY <2>1, <1>d DEF Forward, KeepsIds
  <2>2. CASE \E b \in buyers, s \in sellers :
               LET half == FillEvents(change, b, Staged(b), t.qty, t.price)
                   seller == IF half.orders[s] # NoOrder
                             THEN half.orders[s] ELSE mem.orders[s]
               IN  change' = FillEvents(half, s, seller, t.qty, t.price)
    <3>1. PICK b \in buyers, s \in sellers :
               LET half == FillEvents(change, b, Staged(b), t.qty, t.price)
                   seller == IF half.orders[s] # NoOrder
                             THEN half.orders[s] ELSE mem.orders[s]
               IN  change' = FillEvents(half, s, seller, t.qty, t.price)
      BY <2>2
    <3>. DEFINE half == FillEvents(change, b, Staged(b), t.qty, t.price)
                seller == IF half.orders[s] # NoOrder THEN half.orders[s] ELSE mem.orders[s]
    <3>2. /\ b \in OrderIds /\ mem.orders[b] # NoOrder
          /\ change.orders[b] # NoOrder \/ mem.orders[b].eid # 0
          /\ s \in OrderIds /\ mem.orders[s] # NoOrder
          /\ change.orders[s] # NoOrder \/ mem.orders[s].eid # 0
      BY <1>c
    <3>3. Forward(half) /\ KeepsIds(half)
      <4>. HIDE DEF t
      <4>1. Forward(half)  BY <1>b, <1>d, <3>2, FillForward DEF Staged, SInv, PInv
      <4>2. KeepsIds(half)  BY <1>b, <1>d, <3>2, FillKeepsIds DEF Staged
      <4>. QED  BY <4>1, <4>2
    <3>4. /\ Forward(FillEvents(half, s, seller, t.qty, t.price))
          /\ KeepsIds(FillEvents(half, s, seller, t.qty, t.price))
      <4>. HIDE DEF t, half
      <4>1. Forward(FillEvents(half, s, seller, t.qty, t.price))
        BY <1>b, <3>2, <3>3, FillForward DEF SInv, PInv
      <4>2. KeepsIds(FillEvents(half, s, seller, t.qty, t.price))
        BY <1>b, <3>2, <3>3, FillKeepsIds
      <4>. QED  BY <4>1, <4>2
    <3>. QED  BY <3>1, <3>4
  <2>. QED  BY <2>1, <2>2 DEF StageFill
<1>f. \A x \in OrderIds : Recovering(x)' <=> Recovering(x)
  BY <1>a DEF Recovering
<1>g. ~Reserving /\ ~Reserving' /\ (AwaitingIds' <=> AwaitingIds)
  BY <1>a DEF Reserving, AwaitingIds
<1>h. /\ DOMAIN results' = DOMAIN results
      /\ \A k \in DOMAIN results : results'[k].eid = results[k].eid
  <2>1. \A k \in DOMAIN results : results[k] \in Result
    BY DEF PInv, SInv, IInv, TypeOK
  <2>. QED  BY <1>a, <2>1 DEF Result
<1>1. StagedIds'
  BY <1>a, <1>e, <1>g, <1>h DEF StagedIds, KeepsIds
<1>2. StagedSymbols'
  BY <1>a DEF SInv, SettlementInv, StagedSymbols
<1>3. change'.sequence = change.sequence
  BY <1>e DEF KeepsIds
<1>. QED  BY <1>1, <1>2, <1>3, <1>a, <1>f, <1>g, <1>h, PStages

(* An order that is taken off the book keeps its engine id. *)
LEMMA PRemoveOrder ==
  ASSUME PInv, SInv', NEW id \in todo, RemoveOrder(id)
  PROVE  PInv'
<1>. DEFINE o == mem.orders[id]
            n == [o EXCEPT !.status = "cancelled"]
<1>a. /\ mem' = mem /\ disk' = disk /\ engineOrders' = engineOrders /\ failed' = failed
      /\ op' = op /\ pc' = pc /\ after' = after /\ listed' = listed /\ nextEid' = nextEid
      /\ results' = results /\ admitted' = admitted /\ todo' = todo \ {id}
      /\ pc = "remove" /\ op \in {"cancel", "resolve"} /\ ~failed
      /\ change' = ReleaseEvents(change, id, o)
  BY DEF RemoveOrder, service, control, PInv, SInv, IInv, Control
<1>b. id \in OrderIds /\ o \in Order /\ Active(o) /\ change \in LedgerType
  BY <1>a DEF PInv, SInv, IInv, TypeOK, Control, LedgerType, OnBook, Active, ActiveStatuses
<1>c. o.eid # 0
  BY <1>a, <1>b DEF PInv, IdsAccounted, Recovering
<1>d. /\ change'.orders = [change.orders EXCEPT ![id] = n] /\ change'.markets = change.markets
      /\ change'.sequence = change.sequence /\ n.eid = o.eid
  <2>. HIDE DEF o
  <2>1. /\ ReleaseEvents(change, id, o).orders = [change.orders EXCEPT ![id] = n]
        /\ ReleaseEvents(change, id, o).markets = change.markets
    BY <1>b, ReleaseLedger
  <2>2. ReleaseEvents(change, id, o).sequence = change.sequence
    BY <1>b, OrderSequence
  <2>3. n.eid = o.eid
    BY <1>b DEF Order
  <2>. HIDE DEF n
  <2>. QED  BY <1>a, <2>1, <2>2, <2>3
<1>. HIDE DEF n
<1>e. \A x \in OrderIds : change'.orders[x] = IF x = id THEN n ELSE change.orders[x]
  BY <1>b, <1>d DEF LedgerType
<1>f. \A x \in OrderIds : Recovering(x)' <=> Recovering(x)
  BY <1>a DEF Recovering
<1>g. ~Reserving /\ ~Reserving' /\ ~AwaitingIds' /\ ~AwaitingIds
  BY <1>a DEF Reserving, AwaitingIds
<1>1. StagedIds'
  BY <1>a, <1>c, <1>d, <1>e, <1>g DEF PInv, StagedIds
<1>2. StagedSymbols'
  BY <1>a, <1>d DEF PInv, StagedSymbols
<1>. QED  BY <1>1, <1>2, <1>a, <1>d, <1>f, <1>g, PStages

(* A settlement keeps the symbol of its market. *)
LEMMA PRemoveDone ==
  ASSUME PInv, SInv', RemoveDone
  PROVE  PInv'
<1>. DEFINE m == target.market
            status == IF target.outcome = "yes" THEN "resolved_yes" ELSE "resolved_no"
            market == [mem.markets[m] EXCEPT !.status = status]
            paid == PayoutEvents(change, mem, m, target.outcome)
<1>a. /\ mem' = mem /\ disk' = disk /\ engineOrders' = engineOrders /\ failed' = failed
      /\ op' = op /\ pc' = "commit" /\ after' = "return" /\ listed' = listed /\ nextEid' = nextEid
      /\ results' = results /\ admitted' = admitted /\ todo' = todo /\ pc = "remove"
      /\ op \in {"cancel", "resolve"}
  BY DEF RemoveDone, service, engine, PInv, SInv, IInv, Control
<1>b. change \in LedgerType /\ mem \in LedgerType
  BY DEF PInv, SInv, IInv, TypeOK
<1>c. /\ change'.orders = change.orders /\ change'.sequence = change.sequence
      /\ StagedSymbols'
  <2>1. CASE op = "resolve"
    <3>1. m \in Markets /\ mem.markets[m] \in Market /\ target.outcome \in Outcomes
      BY <1>a, <1>b, <2>1 DEF PInv, SInv, IInv, TypeOK, Control, LedgerType
    <3>2. market \in Market /\ market.symbol = mem.markets[m].symbol
      <4>1. status \in MarketStatuses
        BY DEF MarketStatuses
      <4>. HIDE DEF status, m
      <4>. QED  BY <3>1, <4>1 DEF Market
    <3>3. /\ paid \in LedgerType /\ paid.orders = change.orders /\ paid.markets = change.markets
          /\ paid.sequence = change.sequence
      BY <1>b, <3>1, PayoutLedger, EventSequence
    <3>4. change' = MarketEvent(paid, m, market)
      BY <2>1 DEF RemoveDone
    <3>. HIDE DEF paid, market, m
    <3>5. /\ change'.orders = paid.orders /\ change'.sequence = paid.sequence
          /\ change'.markets = [paid.markets EXCEPT ![m] = market]
      BY <3>1, <3>2, <3>3, <3>4, MarketEventLedger, EventSequence
    <3>6. ASSUME NEW x \in Markets, change'.markets[x] # NoMarket, mem.markets[x] # NoMarket
          PROVE  change'.markets[x].symbol = mem.markets[x].symbol
      <4>1. change'.markets[x] = IF x = m THEN market ELSE change.markets[x]
        BY <1>b, <3>3, <3>5 DEF LedgerType
      <4>. QED  BY <3>2, <3>6, <4>1 DEF PInv, StagedSymbols
    <3>. QED  BY <1>a, <3>3, <3>5, <3>6 DEF StagedSymbols
  <2>2. CASE op # "resolve"
    BY <1>a, <2>2 DEF RemoveDone, PInv, StagedSymbols
  <2>. QED  BY <2>1, <2>2
<1>d. \A x \in OrderIds : Recovering(x)' <=> Recovering(x)
  BY <1>a DEF Recovering
<1>e. ~Reserving /\ ~Reserving' /\ ~AwaitingIds' /\ ~AwaitingIds
  BY <1>a DEF Reserving, AwaitingIds
<1>1. StagedIds'
  BY <1>a, <1>c, <1>e DEF PInv, StagedIds
<1>. QED  BY <1>1, <1>a, <1>c, <1>d, <1>e, PStages

-----------------------------------------------------------------------------
(* What a commit makes of an order: a known one keeps its place and its engine
   id, or gets the one the engine answered with; a new one gets a place behind
   every known one and no engine id. *)
LEMMA PCommitOrder ==
  ASSUME PInv, pc = "commit", NEW M, M = Apply(mem, change),
         NEW id \in OrderIds, M.orders[id] # NoOrder
  PROVE  /\ M.orders[id] \in Order
         /\ M.markets[M.orders[id].market].symbol = mem.markets[M.orders[id].market].symbol
         /\ \/ /\ mem.orders[id] # NoOrder /\ mem.orders[id] \in Order
               /\ M.orders[id].seq = mem.orders[id].seq
               /\ M.orders[id].market = mem.orders[id].market
               /\ Active(M.orders[id]) => Active(mem.orders[id])
               /\ \/ M.orders[id].eid = mem.orders[id].eid
                  \/ /\ mem.orders[id].eid = 0 /\ AwaitingIds
                     /\ \E k \in DOMAIN results :
                          admitted[k] = id /\ M.orders[id].eid = results[k].eid
            \/ /\ mem.orders[id] = NoOrder /\ Reserving /\ M.orders[id].eid = 0
               /\ \E k \in 1..Len(admitted) :
                    admitted[k] = id /\ M.orders[id].seq = mem.sequence + k
<1>a. mem \in LedgerType /\ change \in LedgerType
  BY DEF PInv, SInv, IInv, TypeOK
<1>b. /\ M \in LedgerType
      /\ M.orders[id] = IF change.orders[id] = NoOrder THEN mem.orders[id] ELSE change.orders[id]
      /\ \A m \in Markets : M.markets[m] =
           IF change.markets[m] = NoMarket THEN mem.markets[m] ELSE change.markets[m]
  BY <1>a, ApplyLedger
<1>1. M.orders[id] \in Order /\ M.orders[id].market \in Markets
  BY <1>b DEF LedgerType, Order
<1>2. mem.markets[M.orders[id].market] # NoMarket
  BY <1>b DEF PInv, SInv, IInv, MarketsKnown, MarketsIn
<1>3. M.markets[M.orders[id].market].symbol = mem.markets[M.orders[id].market].symbol
  BY <1>b, <1>1, <1>2 DEF PInv, StagedSymbols
<1>4. CASE change.orders[id] = NoOrder
  BY <1>1, <1>3, <1>4, <1>b
<1>5. CASE change.orders[id] # NoOrder /\ mem.orders[id] # NoOrder
  <2>1. mem.orders[id] \in Order /\ M.orders[id] = change.orders[id]
    BY <1>5, <1>a, <1>b DEF LedgerType
  <2>2. SameOrder(change.orders[id], mem.orders[id])
    BY <1>5 DEF PInv, SInv, IInv, StagedFaithful
  <2>3. Active(mem.orders[id]) /\ change.orders[id].seq = mem.orders[id].seq
    BY <1>5 DEF PInv, SInv, StagedAdvances
  <2>4. \/ change.orders[id].eid = mem.orders[id].eid
        \/ /\ mem.orders[id].eid = 0 /\ AwaitingIds
           /\ \E k \in DOMAIN results : admitted[k] = id /\ change.orders[id].eid = results[k].eid
    BY <1>5 DEF PInv, StagedIds
  <2>. QED  BY <1>1, <1>3, <1>5, <2>1, <2>2, <2>3, <2>4 DEF SameOrder
<1>6. CASE change.orders[id] # NoOrder /\ mem.orders[id] = NoOrder
  <2>1. Reserving
    BY <1>6 DEF PInv, SInv, IInv, StagedFaithful
  <2>2. PICK k \in 1..Len(admitted) : admitted[k] = id
    BY <1>6, <2>1 DEF PInv, SInv, IInv, Control
  <2>3. change.orders[id].eid = 0 /\ change.orders[id].seq = mem.sequence + k
    BY <2>1, <2>2 DEF PInv, PlacesReserved
  <2>. QED  BY <1>1, <1>3, <1>6, <1>b, <2>1, <2>2, <2>3
<1>. QED  BY <1>4, <1>5, <1>6

(* Every order of both ledgers still has a place of its own. *)
LEMMA PCommitPlaces ==
  ASSUME PInv, pc = "commit",
         NEW M, NEW D, M = Apply(mem, change), D = Apply(disk, change)
  PROVE  OwnPlaces(M) /\ OwnPlaces(D)
<1>a. /\ mem \in LedgerType /\ disk \in LedgerType /\ change \in LedgerType
      /\ mem.sequence \in Nat /\ change.sequence \in Nat /\ Len(admitted) \in Nat
      /\ M.sequence = mem.sequence + change.sequence
      /\ Reserving => change.sequence = Len(admitted)
  BY SMTT(30) DEF PInv, SInv, IInv, TypeOK, LedgerType, Apply, PlacesReserved
<1>b. ASSUME NEW id \in OrderIds, M.orders[id] # NoOrder
      PROVE  \/ /\ mem.orders[id] # NoOrder
                /\ M.orders[id].seq = mem.orders[id].seq
                /\ mem.orders[id].seq \in Nat /\ mem.orders[id].seq <= mem.sequence
             \/ /\ mem.orders[id] = NoOrder /\ Reserving
                /\ \E k \in 1..Len(admitted) :
                     admitted[k] = id /\ M.orders[id].seq = mem.sequence + k
  <2>1. mem.orders[id] # NoOrder => mem.orders[id].seq \in Nat /\ mem.orders[id].seq <= mem.sequence
    BY <1>a DEF PInv, OwnPlaces, LedgerType, Order
  <2>. QED  BY <1>b, <2>1, PCommitOrder
<1>1. ASSUME NEW id \in OrderIds, M.orders[id] # NoOrder
      PROVE  M.orders[id].seq <= M.sequence
  <2>1. CASE mem.orders[id] # NoOrder
    BY <1>1, <1>a, <1>b, <2>1
  <2>2. CASE mem.orders[id] = NoOrder
    <3>1. PICK k \in 1..Len(admitted) : M.orders[id].seq = mem.sequence + k
      BY <1>1, <1>b, <2>2
    <3>2. change.sequence = Len(admitted)
      BY <1>1, <1>a, <1>b, <2>2
    <3>. QED  BY <1>a, <3>1, <3>2
  <2>. QED  BY <2>1, <2>2
<1>2. ASSUME NEW i \in OrderIds, NEW j \in OrderIds, i # j,
             M.orders[i] # NoOrder, M.orders[j] # NoOrder
      PROVE  M.orders[i].seq # M.orders[j].seq
  <2>1. CASE mem.orders[i] # NoOrder /\ mem.orders[j] # NoOrder
    BY <1>2, <1>b, <2>1 DEF PInv, OwnPlaces
  <2>2. CASE mem.orders[i] # NoOrder /\ mem.orders[j] = NoOrder
    <3>1. PICK k \in 1..Len(admitted) : M.orders[j].seq = mem.sequence + k
      BY <1>2, <1>b, <2>2
    <3>2. M.orders[i].seq \in Nat /\ M.orders[i].seq <= mem.sequence
      BY <1>2, <1>b, <2>2
    <3>. QED  BY <1>a, <3>1, <3>2
  <2>3. CASE mem.orders[i] = NoOrder /\ mem.orders[j] # NoOrder
    <3>1. PICK k \in 1..Len(admitted) : M.orders[i].seq = mem.sequence + k
      BY <1>2, <1>b, <2>3
    <3>2. M.orders[j].seq \in Nat /\ M.orders[j].seq <= mem.sequence
      BY <1>2, <1>b, <2>3
    <3>. QED  BY <1>a, <3>1, <3>2
  <2>4. CASE mem.orders[i] = NoOrder /\ mem.orders[j] = NoOrder
    <3>1. PICK k \in 1..Len(admitted) : admitted[k] = i /\ M.orders[i].seq = mem.sequence + k
      BY <1>2, <1>b, <2>4
    <3>2. PICK l \in 1..Len(admitted) : admitted[l] = j /\ M.orders[j].seq = mem.sequence + l
      BY <1>2, <1>b, <2>4
    <3>3. k # l
      BY <1>2, <3>1, <3>2
    <3>. QED  BY <1>a, <3>1, <3>2, <3>3
  <2>. QED  BY <2>1, <2>2, <2>3, <2>4
<1>3. OwnPlaces(M)
  BY <1>1, <1>2 DEF OwnPlaces
<1>4. ASSUME NEW id \in OrderIds, D.orders[id] # NoOrder
      PROVE  M.orders[id] # NoOrder /\ M.orders[id].seq = D.orders[id].seq
  <2>1. /\ M.orders[id] = IF change.orders[id] = NoOrder THEN mem.orders[id] ELSE change.orders[id]
        /\ D.orders[id] = IF change.orders[id] = NoOrder THEN disk.orders[id] ELSE change.orders[id]
    BY <1>a, ApplyLedger
  <2>2. CASE change.orders[id] # NoOrder
    BY <2>1, <2>2
  <2>3. CASE change.orders[id] = NoOrder
    <3>. DEFINE o == disk.orders[id]
    <3>1. ~failed /\ o \in Order
      BY <1>a, <1>4, <2>1, <2>3 DEF PInv, SInv, IInv, Control, LedgerType
    <3>2. mem.orders[id] # NoOrder /\ mem.orders[id] \in {o, [o EXCEPT !.eid = 0]}
      BY <1>4, <2>1, <2>3, <3>1 DEF PInv, SInv, IInv, MemIsDisk, MemComplete
    <3>. HIDE DEF o
    <3>3. mem.orders[id].seq = o.seq
      BY <3>1, <3>2 DEF Order
    <3>. QED  BY <2>1, <2>3, <3>2, <3>3 DEF o
  <2>. QED  BY <2>2, <2>3
<1>5. D.sequence = M.sequence
  BY SCommitLedgers DEF PInv
<1>6. OwnPlaces(D)
  BY <1>3, <1>4, <1>5 DEF OwnPlaces
<1>. QED  BY <1>3, <1>6

(* After a commit only a reserved order and one that recovery has yet to submit
   are without engine id, and they are the youngest. *)
LEMMA PCommitYoung ==
  ASSUME PInv, pc = "commit", mem' = Apply(mem, change)
  PROVE  /\ \A id \in OrderIds : Active(mem'.orders[id]) /\ mem'.orders[id].eid = 0 =>
              \/ Reserving /\ \E k \in 1..Len(admitted) : admitted[k] = id
              \/ op = "recover" /\ id \in todo
         /\ YoungHaveNoId'
<1>a. \A id \in OrderIds :
        mem'.orders[id] = IF change.orders[id] = NoOrder THEN mem.orders[id] ELSE change.orders[id]
  BY ApplyLedger DEF PInv, SInv, IInv, TypeOK
<1>b. ASSUME NEW id \in OrderIds, change.orders[id] # NoOrder, mem.orders[id] # NoOrder
      PROVE  change.orders[id].eid # 0
  BY <1>b DEF PInv, StagedIds, AnswersInOrder, FreshId
<1>c. ~failed /\ pc # "down"
  BY DEF PInv, SInv, IInv, Control
<1>1. ASSUME NEW id \in OrderIds, Active(mem'.orders[id]), mem'.orders[id].eid = 0
      PROVE  \/ Reserving /\ \E k \in 1..Len(admitted) : admitted[k] = id
             \/ op = "recover" /\ id \in todo
  <2>1. CASE mem.orders[id] = NoOrder
    BY <1>1, <2>1, PCommitOrder DEF Active
  <2>2. CASE mem.orders[id] # NoOrder
    <3>1. change.orders[id] = NoOrder
      BY <1>1, <1>a, <1>b, <2>2
    <3>2. Active(mem.orders[id]) /\ mem.orders[id].eid = 0
      BY <1>1, <1>a, <3>1
    <3>3. \/ /\ op = "place" /\ ~Reserving /\ \E k \in 1..Len(admitted) : admitted[k] = id
          \/ Recovering(id)
      BY <1>c, <3>2 DEF PInv, IdsAccounted
    <3>4. CASE op = "place" /\ ~Reserving /\ \E k \in 1..Len(admitted) : admitted[k] = id
      <4>1. after = "return"
        BY <3>4 DEF Reserving, PInv, SInv, IInv, Control
      <4>. QED  BY <3>1, <3>4, <4>1 DEF PInv, SInv, IInv, CompletionStaged
    <3>5. CASE Recovering(id)
      BY <3>1, <3>5 DEF Recovering, PInv, SInv, IInv, CompletionStaged
    <3>. QED  BY <3>3, <3>4, <3>5
  <2>. QED  BY <2>1, <2>2
<1>2. ASSUME NEW i \in OrderIds, NEW j \in OrderIds,
             Active(mem'.orders[i]), Active(mem'.orders[j]),
             mem'.orders[i].eid # 0, mem'.orders[j].eid = 0
      PROVE  mem'.orders[i].seq < mem'.orders[j].seq
  <2>1. /\ mem.orders[i] # NoOrder /\ Active(mem.orders[i]) /\ mem.orders[i] \in Order
        /\ mem'.orders[i].seq = mem.orders[i].seq
        /\ \/ mem.orders[i].eid # 0
           \/ AwaitingIds /\ \E k \in DOMAIN results : admitted[k] = i
    BY <1>2, PCommitOrder DEF Active
  <2>2. CASE Reserving /\ \E k \in 1..Len(admitted) : admitted[k] = j
    <3>1. change.orders[j] # NoOrder /\ change.orders[j].status = "pending"
      BY <2>2 DEF PInv, SInv, IInv, Control, InEngineActive
    <3>2. mem.orders[j] = NoOrder
      BY <3>1 DEF PInv, SInv, IInv, StagedFaithful
    <3>3. PICK k \in 1..Len(admitted) : mem'.orders[j].seq = mem.sequence + k
      BY <1>2, <3>2, PCommitOrder DEF Active
    <3>4. /\ mem.orders[i].seq <= mem.sequence /\ mem.sequence \in Nat /\ Len(admitted) \in Nat
          /\ mem.orders[i].seq \in Nat
      BY <2>1 DEF PInv, OwnPlaces, SInv, IInv, TypeOK, LedgerType, Order
    <3>. QED  BY <2>1, <3>3, <3>4
  <2>3. CASE op = "recover" /\ j \in todo
    <3>1. /\ mem'.orders[j] = mem.orders[j]
          /\ Active(mem.orders[j]) /\ mem.orders[j].eid = 0
      BY <1>a, <2>3 DEF PInv, SInv, AwaitingRecovery
    <3>2. CASE mem.orders[i].eid # 0
      BY <2>1, <3>1, <3>2 DEF PInv, YoungHaveNoId
    <3>3. CASE AwaitingIds /\ \E k \in DOMAIN results : admitted[k] = i
      <4>1. Submitted
        BY <2>3, <3>3 DEF AwaitingIds, Submitted
      <4>2. Len(admitted) = 1 /\ DOMAIN results \subseteq 1..Len(admitted)
        BY <2>3, <4>1 DEF PInv, SInv, IInv, Control, TypeOK
      <4>3. \A k \in 1..1 : k = 1
        OBVIOUS
      <4>4. admitted[1] = i
        BY <3>3, <4>2, <4>3
      <4>. QED  BY <2>1, <2>3, <3>1, <3>3, <4>4 DEF PInv, SubmittedInOrder
    <3>. QED  BY <2>1, <3>2, <3>3
  <2>. QED  BY <1>1, <1>2, <2>2, <2>3
<1>3. YoungHaveNoId'
  BY <1>2 DEF YoungHaveNoId
<1>. QED  BY <1>1, <1>3

(* The ids a commit brings are in the order of admission and were handed out
   by the engines that own them. *)
LEMMA PCommitIds ==
  ASSUME PInv, pc = "commit", mem' = Apply(mem, change), listed' = listed, nextEid' = nextEid
  PROVE  IdsInOrder' /\ IdsHandedOut'
<1>a. DOMAIN results \subseteq 1..Len(admitted) /\ Len(admitted) \in Nat
  BY DEF PInv, SInv, IInv, TypeOK
<1>1. ASSUME NEW i \in OrderIds, NEW j \in OrderIds,
             Active(mem'.orders[i]), Active(mem'.orders[j]),
             mem'.orders[i].market = mem'.orders[j].market,
             mem'.orders[i].eid # 0, mem'.orders[j].eid # 0,
             mem'.orders[i].seq < mem'.orders[j].seq
      PROVE  mem'.orders[i].eid < mem'.orders[j].eid
  <2>1. /\ Active(mem.orders[i]) /\ mem.orders[i] \in Order
        /\ mem'.orders[i].seq = mem.orders[i].seq
        /\ mem'.orders[i].market = mem.orders[i].market
        /\ \/ mem'.orders[i].eid = mem.orders[i].eid
           \/ /\ mem.orders[i].eid = 0 /\ AwaitingIds
              /\ \E k \in DOMAIN results : admitted[k] = i /\ mem'.orders[i].eid = results[k].eid
    BY <1>1, PCommitOrder DEF Active
  <2>2. /\ Active(mem.orders[j]) /\ mem.orders[j] \in Order
        /\ mem'.orders[j].seq = mem.orders[j].seq
        /\ mem'.orders[j].market = mem.orders[j].market
        /\ \/ mem'.orders[j].eid = mem.orders[j].eid
           \/ /\ mem.orders[j].eid = 0 /\ AwaitingIds
              /\ \E k \in DOMAIN results : admitted[k] = j /\ mem'.orders[j].eid = results[k].eid
    BY <1>1, PCommitOrder DEF Active
  <2>3. mem.orders[i].seq \in Nat /\ mem.orders[j].seq \in Nat
    BY <2>1, <2>2 DEF Order
  <2>4. CASE /\ mem'.orders[i].eid = mem.orders[i].eid
             /\ mem'.orders[j].eid = mem.orders[j].eid
    BY <1>1, <2>1, <2>2, <2>4 DEF PInv, IdsInOrder
  <2>5. CASE /\ mem'.orders[i].eid = mem.orders[i].eid
             /\ mem.orders[j].eid = 0 /\ AwaitingIds
             /\ \E k \in DOMAIN results : admitted[k] = j /\ mem'.orders[j].eid = results[k].eid
    <3>1. PICK k \in DOMAIN results : admitted[k] = j /\ mem'.orders[j].eid = results[k].eid
      BY <2>5
    <3>2. FreshId(results[k].eid, k)
      BY <2>5 DEF PInv, AnswersInOrder
    <3>. QED  BY <1>1, <2>1, <2>2, <2>5, <3>1, <3>2 DEF FreshId
  <2>6. CASE mem.orders[i].eid = 0 /\ mem.orders[j].eid # 0
    <3>1. mem.orders[j].seq < mem.orders[i].seq
      BY <2>1, <2>2, <2>6 DEF PInv, YoungHaveNoId
    <3>. QED  BY <1>1, <2>1, <2>2, <2>3, <3>1
  <2>7. CASE /\ AwaitingIds
             /\ \E k \in DOMAIN results : admitted[k] = i /\ mem'.orders[i].eid = results[k].eid
             /\ \E k \in DOMAIN results : admitted[k] = j /\ mem'.orders[j].eid = results[k].eid
    <3>1. PICK k \in DOMAIN results : admitted[k] = i /\ mem'.orders[i].eid = results[k].eid
      BY <2>7
    <3>2. PICK l \in DOMAIN results : admitted[l] = j /\ mem'.orders[j].eid = results[l].eid
      BY <2>7
    <3>3. k \in 1..Len(admitted) /\ l \in 1..Len(admitted) /\ k \in Nat /\ l \in Nat
      BY <1>a
    <3>4. ~(l < k)
      <4>1. SUFFICES ASSUME l < k PROVE FALSE
        OBVIOUS
      <4>2. mem.orders[j].seq < mem.orders[i].seq
        BY <2>7, <3>1, <3>2, <3>3, <4>1 DEF PInv, SubmittedInOrder
      <4>. QED  BY <1>1, <2>1, <2>2, <2>3, <4>2
    <3>5. l # k
      <4>1. SUFFICES ASSUME l = k PROVE FALSE
        OBVIOUS
      <4>2. i = j
        BY <3>1, <3>2, <4>1
      <4>. QED  BY <1>1, <2>1, <2>2, <2>3, <4>2
    <3>6. k < l
      BY <3>3, <3>4, <3>5
    <3>7. SameMarket(k, l)
      BY <1>1, <2>1, <2>2, <3>1, <3>2 DEF SameMarket
    <3>8. results[k].eid < results[l].eid
      BY <2>7, <3>6, <3>7 DEF PInv, AnswersInOrder
    <3>. QED  BY <3>1, <3>2, <3>8
  <2>. QED  BY <1>1, <2>1, <2>2, <2>4, <2>5, <2>6, <2>7
<1>2. ASSUME NEW id \in OrderIds, Active(mem'.orders[id]), SymbolOf(id)' \in listed
      PROVE  mem'.orders[id].eid <= nextEid[Partition[SymbolOf(id)']]
  <2>. DEFINE s == mem.markets[mem'.orders[id].market].symbol
  <2>1. SymbolOf(id)' = s
    BY <1>2, PCommitOrder DEF Active, SymbolOf
  <2>. HIDE DEF s
  <2>2. s \in listed /\ Partition[s] \in Engines
    BY <1>2, <2>1, ConstantsAssumption DEF PInv, SInv, IInv, TypeOK
  <2>3. nextEid[Partition[s]] \in Nat
    BY <2>2 DEF PInv, SInv, IInv, TypeOK
  <2>4. CASE mem.orders[id] = NoOrder
    <3>1. mem'.orders[id].eid = 0
      BY <1>2, <2>4, PCommitOrder DEF Active
    <3>. QED  BY <2>1, <2>3, <3>1
  <2>5. CASE mem.orders[id] # NoOrder
    <3>1. /\ Active(mem.orders[id]) /\ SymbolOf(id) = s
          /\ \/ mem'.orders[id].eid = mem.orders[id].eid
             \/ /\ mem.orders[id].eid = 0 /\ AwaitingIds
                /\ \E k \in DOMAIN results : admitted[k] = id /\ mem'.orders[id].eid = results[k].eid
      BY <1>2, <2>5, PCommitOrder DEF Active, SymbolOf, s
    <3>2. CASE mem'.orders[id].eid = mem.orders[id].eid
      BY <2>1, <2>2, <3>1, <3>2 DEF PInv, IdsHandedOut
    <3>3. CASE /\ AwaitingIds
               /\ \E k \in DOMAIN results : admitted[k] = id /\ mem'.orders[id].eid = results[k].eid
      <4>1. PICK k \in DOMAIN results : admitted[k] = id /\ mem'.orders[id].eid = results[k].eid
        BY <3>3
      <4>2. FreshId(results[k].eid, k)
        BY <3>3 DEF PInv, AnswersInOrder
      <4>3. EngineOf(k) = Partition[s] /\ SymbolOf(admitted[k]) = s
        BY <3>1, <4>1 DEF EngineOf
      <4>. QED  BY <2>1, <2>2, <4>1, <4>2, <4>3 DEF FreshId
    <3>. QED  BY <3>1, <3>2, <3>3
  <2>. QED  BY <2>4, <2>5
<1>3. IdsInOrder'
  BY <1>1 DEF IdsInOrder
<1>4. IdsHandedOut'
  <2>1. \A id \in OrderIds : Active(mem'.orders[id]) /\ SymbolOf(id)' \in listed' =>
          mem'.orders[id].eid <= nextEid'[Partition[SymbolOf(id)']]
    BY <1>2
  <2>. QED  BY <2>1 DEF IdsHandedOut
<1>. QED  BY <1>3, <1>4

(* Keys are unique, so that no order loses its key to another. *)
LEMMA PCommitIndex ==
  ASSUME PInv, pc = "commit", mem' = Apply(mem, change), IdsInOrder', OwnPlaces(mem)',
         engineOrders' = ApplyIndex(engineOrders, mem, change)
  PROVE  IndexComplete'
<1>a. \A id \in OrderIds :
        mem'.orders[id] = IF change.orders[id] = NoOrder THEN mem.orders[id] ELSE change.orders[id]
  BY ApplyLedger DEF PInv, SInv, IInv, TypeOK
<1>b. mem' \in LedgerType
  BY ApplyLedger DEF PInv, SInv, IInv, TypeOK
<1>1. SUFFICES ASSUME NEW id \in OrderIds, Active(mem'.orders[id]), mem'.orders[id].eid # 0
               PROVE  <<mem'.orders[id].market, mem'.orders[id].eid, id>> \in engineOrders'
  BY DEF IndexComplete
<1>2. CASE change.orders[id] # NoOrder
  <2>1. mem'.orders[id] = change.orders[id]
    BY <1>2, <1>a
  <2>. QED  BY <1>1, <1>2, <2>1 DEF ApplyIndex
<1>3. CASE change.orders[id] = NoOrder
  <2>1. mem'.orders[id] = mem.orders[id]
    BY <1>3, <1>a
  <2>. DEFINE m == mem.orders[id].market
              n == mem.orders[id].eid
              e == <<m, n, id>>
  <2>2. e \in engineOrders /\ mem.orders[id] \in Order
    BY <1>1, <2>1 DEF PInv, IndexComplete, SInv, IInv, TypeOK, LedgerType, Active
  <2>3. ASSUME NEW x \in OrderIds, change.orders[x] # NoOrder, mem.orders[x] # NoOrder
        PROVE  <<m, n>> # <<mem.orders[x].market, mem.orders[x].eid>>
    <3>1. x # id /\ Active(mem.orders[x]) /\ Active(mem.orders[id]) /\ n # 0
          /\ mem.orders[x] \in Order
      BY <1>1, <1>3, <2>1, <2>3 DEF PInv, SInv, StagedAdvances, IInv, TypeOK, LedgerType
    <3>2. mem.orders[x].seq # mem.orders[id].seq
      BY <2>2, <2>3, <3>1 DEF PInv, OwnPlaces, Active
    <3>3. /\ mem.orders[x].seq \in Nat /\ mem.orders[id].seq \in Nat
          /\ mem.orders[x].eid \in Nat /\ mem.orders[id].eid \in Nat
      BY <2>2, <3>1 DEF Order
    <3>4. SUFFICES ASSUME mem.orders[x].market = m, mem.orders[x].eid = n PROVE FALSE
      OBVIOUS
    <3>5. CASE mem.orders[x].seq < mem.orders[id].seq
      <4>1. mem.orders[x].eid < mem.orders[id].eid
        BY <3>1, <3>4, <3>5 DEF PInv, IdsInOrder
      <4>. QED  BY <3>3, <3>4, <4>1
    <3>6. CASE mem.orders[id].seq < mem.orders[x].seq
      <4>1. mem.orders[id].eid < mem.orders[x].eid
        BY <3>1, <3>4, <3>6 DEF PInv, IdsInOrder
      <4>. QED  BY <3>3, <3>4, <4>1
    <3>. QED  BY <3>2, <3>3, <3>5, <3>6
  <2>4. ASSUME NEW x \in OrderIds, Active(change.orders[x]), change.orders[x].eid # 0
        PROVE  <<m, n>> # <<change.orders[x].market, change.orders[x].eid>>
    <3>1. x # id /\ mem'.orders[x] = change.orders[x]
      BY <1>3, <1>a, <2>4 DEF Active
    <3>2. mem'.orders[x] \in Order /\ mem'.orders[id] \in Order
      BY <1>1, <1>b, <2>4, <3>1 DEF LedgerType, Active
    <3>3. mem'.orders[x].seq # mem'.orders[id].seq
      BY <1>1, <2>4, <3>1 DEF OwnPlaces, Active
    <3>4. /\ mem'.orders[x].seq \in Nat /\ mem'.orders[id].seq \in Nat
          /\ mem'.orders[x].eid \in Nat /\ mem'.orders[id].eid \in Nat
      BY <3>2 DEF Order
    <3>5. SUFFICES ASSUME mem'.orders[x].market = mem'.orders[id].market,
                          mem'.orders[x].eid = mem'.orders[id].eid
                   PROVE FALSE
      BY <2>1, <3>1
    <3>6. CASE mem'.orders[x].seq < mem'.orders[id].seq
      <4>1. mem'.orders[x].eid < mem'.orders[id].eid
        BY <1>1, <2>4, <3>1, <3>5, <3>6 DEF IdsInOrder
      <4>. QED  BY <3>4, <3>5, <4>1
    <3>7. CASE mem'.orders[id].seq < mem'.orders[x].seq
      <4>1. mem'.orders[id].eid < mem'.orders[x].eid
        BY <1>1, <2>4, <3>1, <3>5, <3>7 DEF IdsInOrder
      <4>. QED  BY <3>4, <3>5, <4>1
    <3>. QED  BY <3>3, <3>4, <3>6, <3>7
  <2>5. e[1] = m /\ e[2] = n
    OBVIOUS
  <2>. HIDE DEF m, n, e
  <2>6. e \in engineOrders'
    BY <2>2, <2>3, <2>4, <2>5 DEF ApplyIndex
  <2>. QED  BY <2>1, <2>6 DEF e, m, n
<1>. QED  BY <1>2, <1>3

(* A commit: reservations become orders that wait for their ids, answered
   orders get theirs. *)
LEMMA PCommit ==
  ASSUME PInv, SInv', Commit
  PROVE  PInv'
<1>a. /\ pc = "commit" /\ mem' = Apply(mem, change) /\ disk' = Apply(disk, change) /\ ~failed
      /\ engineOrders' = ApplyIndex(engineOrders, mem, change)
      /\ listed' = listed /\ nextEid' = nextEid
      /\ \A e \in Engines : taker[e] = NoTaker
  BY DEF Commit, Logged, PInv, SInv, IInv, Control
<1>1. OwnPlaces(mem)' /\ OwnPlaces(disk)'
  <2>. DEFINE M == Apply(mem, change)
              D == Apply(disk, change)
  <2>1. OwnPlaces(M) /\ OwnPlaces(D)
    BY <1>a, PCommitPlaces
  <2>2. mem' = M /\ disk' = D
    BY <1>a
  <2>. HIDE DEF M, D
  <2>. QED  BY <2>1, <2>2 DEF OwnPlaces
<1>2. YoungHaveNoId' /\ IdsInOrder' /\ IdsHandedOut'
  BY <1>a, PCommitYoung, PCommitIds
<1>3. IndexComplete'
  BY <1>1, <1>2, <1>a, PCommitIndex
<1>4. \A id \in OrderIds : Active(mem'.orders[id]) /\ mem'.orders[id].eid = 0 =>
        \/ Reserving /\ \E k \in 1..Len(admitted) : admitted[k] = id
        \/ op = "recover" /\ id \in todo
  BY <1>a, PCommitYoung
<1>5. CASE after = "return"
  <2>1. Return /\ op # "recover" /\ ~Reserving
    BY <1>5, <1>a DEF Commit, Reserving, PInv, SInv, IInv, Control
  <2>2. IdsAccounted'
    BY <1>4, <2>1 DEF IdsAccounted
  <2>. QED  BY <1>1, <1>2, <1>3, <2>1, <2>2, PEnds DEF Return
<1>6. CASE after # "return"
  <2>a. /\ pc' = after /\ change' = Empty /\ op' = op /\ admitted' = admitted /\ todo' = todo
        /\ taker' = taker /\ results' = results
    BY <1>6 DEF Commit
  <2>b. \/ after = "engine" /\ op = "place" /\ Reserving
        \/ after \in {"fill", "recover"} /\ op = "recover" /\ ~Reserving
    BY <1>6, <1>a DEF Reserving, PInv, SInv, IInv, Control
  <2>c. ~Reserving' /\ (AwaitingIds' => Reserving)
    BY <2>a, <2>b DEF Reserving, AwaitingIds
  <2>d. Reserving => DOMAIN results = {}
    BY DEF PInv, PlacesReserved
  <2>1. IdsAccounted'
    BY <1>4, <2>a, <2>b, <2>c DEF IdsAccounted, Recovering
  <2>2. PlacesReserved' /\ StagedIds' /\ StagedSymbols'
    BY <2>a, <2>c, EmptyLedger DEF PlacesReserved, StagedIds, StagedSymbols, Empty
  <2>3. AnswersInOrder' /\ TakersInOrder'
    BY <1>a, <2>a, <2>c, <2>d DEF AnswersInOrder, TakersInOrder
  <2>4. SubmittedInOrder'
    <3>1. CASE ~Reserving
      BY <2>c, <3>1 DEF SubmittedInOrder
    <3>2. CASE Reserving
      <4>1. ASSUME NEW k \in 1..Len(admitted)
            PROVE  /\ mem'.orders[admitted[k]].eid = 0
                   /\ mem'.orders[admitted[k]].seq = mem.sequence + k
        <5>1. /\ admitted[k] \in OrderIds /\ change.orders[admitted[k]] # NoOrder
              /\ change.orders[admitted[k]].eid = 0
              /\ change.orders[admitted[k]].seq = mem.sequence + k
          BY <3>2 DEF PInv, SInv, IInv, TypeOK, Control, PlacesReserved
        <5>2. mem'.orders[admitted[k]] = change.orders[admitted[k]]
          BY <1>a, <5>1, ApplyLedger DEF PInv, SInv, IInv, TypeOK
        <5>. QED  BY <5>1, <5>2
      <4>2. mem.sequence \in Nat /\ Len(admitted) \in Nat
        BY DEF PInv, SInv, IInv, TypeOK, LedgerType
      <4>3. \A j, k \in 1..Len(admitted) : j < k =>
              mem'.orders[admitted[j]].seq < mem'.orders[admitted[k]].seq
        BY <4>1, <4>2
      <4>4. pc' = "engine" /\ op' = "place"
        BY <2>a, <2>b, <3>2
      <4>. QED  BY <2>a, <4>1, <4>3, <4>4 DEF SubmittedInOrder
    <3>. QED  BY <3>1, <3>2
  <2>. QED  BY <1>1, <1>2, <1>3, <2>1, <2>2, <2>3, <2>4 DEF PInv
<1>. QED  BY <1>5, <1>6

(* A commit that fails leaves memory as it was. *)
LEMMA PCommitFails ==
  ASSUME PInv, SInv', CommitFails
  PROVE  PInv'
<1>. DEFINE D == Apply(disk, change)
<1>1. /\ pc = "commit" /\ mem' = mem /\ engineOrders' = engineOrders
      /\ listed' = listed /\ nextEid' = nextEid
      /\ (disk' = disk \/ disk' = D) /\ ScratchCleared /\ op' = "none"
      /\ (pc' = "down" \/ (pc' = "idle" /\ failed' = TRUE))
  BY DEF CommitFails, Logged, Fail, Return, Exit
<1>2. OwnPlaces(disk)'
  <2>1. OwnPlaces(disk) /\ OwnPlaces(D)
    BY <1>1, PCommitPlaces DEF PInv
  <2>. HIDE DEF D
  <2>. QED  BY <1>1, <2>1 DEF OwnPlaces
<1>3. OwnPlaces(mem)' /\ IndexComplete' /\ YoungHaveNoId' /\ IdsInOrder'
  BY <1>1 DEF PInv, OwnPlaces, IndexComplete, YoungHaveNoId, IdsInOrder
<1>4. IdsHandedOut' /\ IdsAccounted'
  BY <1>1 DEF PInv, IdsHandedOut, IdsAccounted, SymbolOf
<1>. QED  BY <1>1, <1>2, <1>3, <1>4, PEnds

(* Replay: no active order has an engine id, all are to be submitted. *)
LEMMA PStart ==
  ASSUME PInv, SInv', Start
  PROVE  PInv'
<1>a. /\ pc = "down" /\ disk' = disk /\ engineOrders' = {} /\ change' = change /\ taker' = taker
      /\ todo' = RecoverableOrders(disk) /\ op' = "recover" /\ pc' = "recover"
      /\ admitted' = admitted /\ results' = results /\ disk \in LedgerType
      /\ nextEid' = [e \in Engines |-> 0]
  BY DEF Start, PInv, SInv, IInv, TypeOK
<1>b. change = Empty /\ \A e \in Engines : taker[e] = NoTaker
  BY <1>a DEF PInv, SInv, IInv, Control
<1>c. /\ mem'.sequence = disk.sequence
      /\ \A id \in OrderIds : mem'.orders[id] =
           IF id \in RecoverableOrders(disk) THEN [disk.orders[id] EXCEPT !.eid = 0] ELSE disk.orders[id]
  <2>. DEFINE again == [id \in OrderIds |-> IF id \in RecoverableOrders(disk)
                                             THEN [disk.orders[id] EXCEPT !.eid = 0]
                                             ELSE disk.orders[id]]
  <2>1. mem' = [disk EXCEPT !.orders = again]
    BY DEF Start
  <2>2. \A id \in OrderIds : again[id] =
           IF id \in RecoverableOrders(disk) THEN [disk.orders[id] EXCEPT !.eid = 0] ELSE disk.orders[id]
    OBVIOUS
  <2>. HIDE DEF again
  <2>3. mem'.orders = again /\ mem'.sequence = disk.sequence
    BY <1>a, <2>1 DEF LedgerType
  <2>. QED  BY <2>2, <2>3
<1>d. ASSUME NEW id \in OrderIds
      PROVE  /\ mem'.orders[id] # NoOrder => disk.orders[id] # NoOrder
             /\ disk.orders[id] # NoOrder => mem'.orders[id].seq = disk.orders[id].seq
             /\ Active(mem'.orders[id]) =>
                  id \in RecoverableOrders(disk) /\ mem'.orders[id].eid = 0
  <2>. DEFINE o == disk.orders[id]
  <2>1. CASE Active(disk.orders[id])
    <3>1. o \in Order /\ id \in RecoverableOrders(disk) /\ o # NoOrder
      BY <1>a, <2>1 DEF LedgerType, Active, RecoverableOrders
    <3>2. mem'.orders[id] = [o EXCEPT !.eid = 0]
      BY <1>c, <3>1
    <3>. HIDE DEF o
    <3>3. mem'.orders[id].eid = 0 /\ mem'.orders[id].seq = o.seq
      BY <3>1, <3>2 DEF Order
    <3>. QED  BY <3>1, <3>3 DEF o
  <2>2. CASE ~Active(disk.orders[id])
    BY <1>c, <2>2 DEF RecoverableOrders
  <2>. QED  BY <2>1, <2>2
<1>1. IndexComplete' /\ YoungHaveNoId' /\ IdsInOrder'
  BY <1>d DEF IndexComplete, YoungHaveNoId, IdsInOrder
<1>2. OwnPlaces(mem)' /\ OwnPlaces(disk)'
  BY <1>a, <1>c, <1>d DEF PInv, OwnPlaces
<1>3. IdsAccounted'
  BY <1>a, <1>d DEF IdsAccounted, Recovering
<1>4. IdsHandedOut'
  <2>1. ASSUME NEW id \in OrderIds, Active(mem'.orders[id]), SymbolOf(id)' \in listed'
        PROVE  mem'.orders[id].eid <= nextEid'[Partition[SymbolOf(id)']]
    <3>. DEFINE s == SymbolOf(id)'
    <3>1. s \in Symbols
      BY <2>1 DEF SInv, IInv, TypeOK
    <3>. HIDE DEF s
    <3>2. nextEid'[Partition[s]] = 0
      BY <1>a, <3>1, ConstantsAssumption
    <3>3. mem'.orders[id].eid = 0
      BY <1>d, <2>1
    <3>. QED  BY <3>2, <3>3 DEF s
  <2>. QED  BY <2>1 DEF IdsHandedOut
<1>5. PlacesReserved' /\ StagedIds' /\ StagedSymbols'
  BY <1>a, <1>b, EmptyLedger DEF PlacesReserved, StagedIds, StagedSymbols, Reserving, Empty
<1>6. SubmittedInOrder' /\ AnswersInOrder' /\ TakersInOrder'
  BY <1>a, <1>b DEF SubmittedInOrder, AnswersInOrder, TakersInOrder, AwaitingIds
<1>. QED  BY <1>1, <1>2, <1>3, <1>4, <1>5, <1>6 DEF PInv

-----------------------------------------------------------------------------
(* The empty service has no orders. *)
LEMMA InitPInv == Init => PInv
<1>1. SUFFICES ASSUME Init PROVE PInv
  OBVIOUS
<1>2. SInv
  BY <1>1, InitSInv
<1>3. /\ mem = Empty /\ disk = Empty /\ change = Empty /\ op = "none" /\ pc = "idle"
      /\ \A e \in Engines : taker[e] = NoTaker
  BY <1>1 DEF Init
<1>4. \A id \in OrderIds : mem.orders[id] = NoOrder /\ disk.orders[id] = NoOrder
  BY <1>3, EmptyLedger
<1>5. IndexComplete /\ OwnPlaces(mem) /\ OwnPlaces(disk) /\ YoungHaveNoId /\ IdsInOrder
  BY <1>4 DEF IndexComplete, OwnPlaces, YoungHaveNoId, IdsInOrder, Active
<1>6. IdsAccounted /\ IdsHandedOut
  BY <1>4 DEF IdsAccounted, IdsHandedOut, Active
<1>7. PlacesReserved /\ StagedIds /\ StagedSymbols
  BY <1>3, EmptyLedger DEF PlacesReserved, StagedIds, StagedSymbols, Reserving, Empty
<1>8. SubmittedInOrder /\ AnswersInOrder /\ TakersInOrder
  BY <1>3 DEF SubmittedInOrder, AnswersInOrder, TakersInOrder, AwaitingIds
<1>. QED  BY <1>2, <1>5, <1>6, <1>7, <1>8 DEF PInv

(* Every step of the service, its engines and their faults keeps the order. *)
LEMMA NextPInv == PInv /\ [Next]_vars => PInv'
<1>1. SUFFICES ASSUME PInv, [Next]_vars PROVE PInv'
  OBVIOUS
<1>0. SInv'
  BY <1>1, NextSInv DEF PInv
<1>2. CASE Client
  <2>1. CASE \E c \in Creations : CreateMarketFor(c)
    BY <1>0, <1>1, <2>1, PCreateMarketFor
  <2>2. CASE ~\E c \in Creations : CreateMarketFor(c)
    BY <1>0, <1>1, <1>2, <2>2, PClient DEF Client
  <2>. QED  BY <2>1, <2>2
<1>3. CASE Progress
  <2>1. CASE AdmitNext \/ AdmissionDone \/ Commit \/ EngineDone \/ BookMissing
    BY <1>0, <1>1, <2>1, PAdmitNext, PAdmissionDone, PCommit, PEngineDone, PQuits
  <2>2. CASE StageOrder \/ StageFill \/ FillsDone \/ RemoveDone \/ RecoverDone
    BY <1>0, <1>1, <2>2, PStageOrder, PStageFill, PFillsDone, PRemoveDone, PQuits
  <2>3. CASE \E k \in 1..Len(admitted) : EngineAccept(k)
    BY <1>0, <1>1, <2>3, PEngineAccept
  <2>4. CASE \E e \in Engines : EngineMatch(e) \/ EngineFinish(e)
    BY <1>0, <1>1, <2>4, PEngineMatch, PEngineFinish
  <2>5. CASE \E id \in todo : RemoveOrder(id) \/ RecoverNext(id)
    BY <1>0, <1>1, <2>5, PRemoveOrder, PRecoverNext
  <2>6. CASE \E id \in todo : RemoveRejected(id)
    BY <1>0, <1>1, <2>6, PQuits
  <2>. QED  BY <1>3, <2>1, <2>2, <2>3, <2>4, <2>5, <2>6 DEF Progress
<1>4. CASE Faults
  <2>1. CASE \E c \in Creations : AddBookUncertain(c)
    BY <1>0, <1>1, <2>1, PAddBookUncertain
  <2>2. CASE CommitFails
    BY <1>0, <1>1, <2>2, PCommitFails
  <2>3. CASE EngineError \/ Crash
    BY <1>0, <1>1, <2>3, PQuits
  <2>4. CASE \E e \in Engines : EngineRestart(e)
    BY <1>0, <1>1, <2>4, PEngineRestart
  <2>. QED  BY <1>4, <2>1, <2>2, <2>3, <2>4 DEF Faults
<1>5. CASE Stop \/ Start
  BY <1>0, <1>1, <1>5, PQuits, PStart
<1>6. CASE UNCHANGED vars
  <2>1. /\ mem' = mem /\ disk' = disk /\ engineOrders' = engineOrders /\ failed' = failed
        /\ op' = op /\ pc' = pc /\ after' = after /\ change' = change /\ todo' = todo
        /\ admitted' = admitted /\ taker' = taker /\ results' = results
        /\ listed' = listed /\ nextEid' = nextEid
    BY <1>6 DEF vars, service, control, scratch, engine
  <2>2. IdsHandedOut' /\ AnswersInOrder' /\ TakersInOrder'
    BY <1>1, <2>1 DEF PInv, IdsHandedOut, AnswersInOrder, TakersInOrder, AwaitingIds, FreshId,
                      SameMarket, EngineOf, SymbolOf
  <2>. QED  BY <1>0, <1>1, <2>1, <2>2, PEngineSteps
<1>. QED
  BY <1>1, <1>2, <1>3, <1>4, <1>5, <1>6 DEF Next

(* It holds in every reachable state. *)
LEMMA PInvariance == Spec => []PInv
BY InitPInv, NextPInv, PTL DEF Spec

(* Whenever the service serves, the index in which fills are looked up holds
   the active orders under their current engine ids and nothing else (apply's
   upkeep of s.engineOrders, RecoverEngine, the batch's own index). *)
THEOREM IndexHoldsActiveOrders == Spec => []EngineIndexExact
<1>1. PInv => EngineIndexExact
  <2>1. SUFFICES ASSUME PInv, Serving
                 PROVE  engineOrders = {<<mem.orders[id].market, mem.orders[id].eid, id>> :
                                          id \in ActiveOrders(mem)}
    BY DEF EngineIndexExact
  <2>2. \A id \in OrderIds : Active(mem.orders[id]) => mem.orders[id].eid # 0
    BY <2>1, PAtRest DEF Serving, Ready
  <2>3. ASSUME NEW id \in ActiveOrders(mem)
        PROVE  <<mem.orders[id].market, mem.orders[id].eid, id>> \in engineOrders
    BY <2>1, <2>2 DEF ActiveOrders, PInv, IndexComplete
  <2>4. ASSUME NEW e \in engineOrders
        PROVE  /\ e[3] \in ActiveOrders(mem)
               /\ e = <<mem.orders[e[3]].market, mem.orders[e[3]].eid, e[3]>>
    <3>1. e \in Markets \X Nat \X OrderIds
      BY <2>1 DEF PInv, SInv, IInv, TypeOK
    <3>2. e = <<e[1], e[2], e[3]>> /\ e[3] \in OrderIds
      BY <3>1
    <3>3. /\ Active(mem.orders[e[3]])
          /\ e[1] = mem.orders[e[3]].market /\ e[2] = mem.orders[e[3]].eid
      BY <2>1 DEF PInv, SInv, IndexKeys
    <3>. QED  BY <3>2, <3>3 DEF ActiveOrders
  <2>. QED  BY <2>3, <2>4
<1>. QED  BY <1>1, PInvariance, PTL

(* Whenever the service serves, no two active orders share a place, and of two
   on one market the one admitted first has the smaller engine id, which the
   book serves first: through batches, lone restarts of engines and recovery in
   Sequence order. *)
THEOREM TimePriorityKept == Spec => []PriorityKept
<1>1. PInv => PriorityKept
  <2>1. SUFFICES ASSUME PInv, Serving,
                        NEW i \in ActiveOrders(mem), NEW j \in ActiveOrders(mem),
                        i # j, mem.orders[i].market = mem.orders[j].market
                 PROVE  /\ mem.orders[i].seq # mem.orders[j].seq
                        /\ mem.orders[i].seq < mem.orders[j].seq
                             <=> mem.orders[i].eid < mem.orders[j].eid
    BY DEF PriorityKept
  <2>2. /\ i \in OrderIds /\ Active(mem.orders[i]) /\ mem.orders[i].eid # 0
        /\ j \in OrderIds /\ Active(mem.orders[j]) /\ mem.orders[j].eid # 0
    BY <2>1, PAtRest DEF Serving, Ready, ActiveOrders
  <2>3. /\ mem.orders[i].seq \in Nat /\ mem.orders[i].eid \in Nat
        /\ mem.orders[j].seq \in Nat /\ mem.orders[j].eid \in Nat
    BY <2>1, <2>2 DEF PInv, SInv, IInv, TypeOK, LedgerType, Order, Active
  <2>4. mem.orders[i].seq # mem.orders[j].seq
    BY <2>1, <2>2 DEF PInv, OwnPlaces, Active
  <2>5. /\ mem.orders[i].seq < mem.orders[j].seq => mem.orders[i].eid < mem.orders[j].eid
        /\ mem.orders[j].seq < mem.orders[i].seq => mem.orders[j].eid < mem.orders[i].eid
    BY <2>1, <2>2 DEF PInv, IdsInOrder
  <2>. QED  BY <2>3, <2>4, <2>5
<1>. QED  BY <1>1, PInvariance, PTL
=============================================================================
