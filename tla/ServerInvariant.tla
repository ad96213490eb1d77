-------------------------- MODULE ServerInvariant --------------------------
(***************************************************************************)
(* The inductive invariants behind the theorems of ServerProofs: what the  *)
(* phases of the process and of its shutdown exclude, whose names may be in *)
(* the ledger, how memory, snapshot, log and tables belong together, and   *)
(* that the rows of trades account for every fill.                         *)
(***************************************************************************)
EXTENDS Server

TablesType ==
  [order_events : SUBSET Nat,
   markets : [Markets -> Market \cup {NoMarket}],
   orders : [OrderIds -> Order \cup {NoOrder}],
   balances : [Users -> Int],
   positions : [Holdings -> Int],
   trades : SUBSET [seq : Nat, trade : Trades]]

Orders == Requests \cap OrderRequest

TypeOK ==
  /\ log \in Seq(Record)
  /\ snapshot \in LedgerType
  /\ tables \in TablesType
  /\ users \subseteq Users /\ tokens \subseteq Users
  /\ phase \in {"down", "migrate", "replay", "recover", "serve"}
  /\ mem \in LedgerType
  /\ failed \in BOOLEAN
  /\ todo \subseteq OrderIds
  /\ waiting \subseteq Requests
  /\ queue \in Seq(Orders)
  /\ placing \in Orders \cup {NoRequest}
  /\ op \in OperationType \cup {NoOp}
  /\ closed \in BOOLEAN /\ engineOpen \in BOOLEAN /\ dbOpen \in BOOLEAN
  /\ hook \in {"none", "stop", "snapshot", "close", "wait", "db", "done"}
  /\ ticker \in {"idle", "writing", "stopped"}
  /\ frozen \in LedgerType \cup {NoSnapshot}
  /\ faults \in 0..MaxFaults

-----------------------------------------------------------------------------
(* Handlers, the worker, checkpoints, the latch and the hook belong to a
   process that serves, operations to one that recovers or serves. *)
PhaseInv ==
  /\ phase # "serve" =>
       /\ waiting = {} /\ queue = <<>> /\ placing = NoRequest
       /\ hook = "none" /\ frozen = NoSnapshot /\ ~failed /\ ~closed
  /\ phase \notin {"recover", "serve"} => op = NoOp
  /\ phase # "recover" => todo = {}
  /\ failed => op = NoOp

(* The hook disconnects nothing before Close has turned new orders away and
   the worker has finished those it had. *)
HookInv ==
  /\ phase # "down" /\ hook \notin {"db", "done"} => engineOpen
  /\ phase # "down" /\ hook # "done" => dbOpen
  /\ hook \in {"wait", "db", "done"} => closed
  /\ hook \in {"db", "done"} => queue = <<>> /\ placing = NoRequest

(* What the operation that holds s.mu is about. *)
OpInv ==
  op # NoOp =>
    /\ op.kind \in {"relist", "refill"} <=> phase = "recover"
    /\ op.kind \in {"reserve", "complete", "relist", "refill", "cancel"} => op.id \in OrderIds
    /\ op.kind \in {"reserve", "relist"} =>
         op.change.orders[op.id] # NoOrder /\ op.step # "engine"
    /\ op.step = "engine" => /\ op.kind \in {"complete", "refill"}
                             /\ mem.orders[op.id] # NoOrder
    /\ \A id \in todo : op.id # id /\ op.change.orders[id] = NoOrder

(* An operation is recovering one of the orders whose engine id memory has
   forgotten. *)
Relisting(id) == op # NoOp /\ op.kind = "relist" /\ op.id = id

SInv == TypeOK /\ PhaseInv /\ HookInv /\ OpInv

-----------------------------------------------------------------------------
(* Whoever ledger or change l names is one of us. *)
KnownTo(us, l) ==
  /\ \A u \in Users : l.cash[u] # 0 => u \in us
  /\ \A m \in Markets : l.markets[m] # NoMarket => l.markets[m].owner \in us
  /\ \A id \in OrderIds : l.orders[id] # NoOrder => l.orders[id].user \in us

(* Everyone who acts, or whom a ledger names, has a row in users. *)
UsersInv ==
  /\ tokens \subseteq users
  /\ \A r \in waiting : r.user \in users
  /\ \A i \in 1..Len(queue) : queue[i].user \in users
  /\ placing # NoRequest => placing.user \in users
  /\ KnownTo(users, mem) /\ KnownTo(users, snapshot)
  /\ \A i \in 1..Len(log) : KnownTo(users, log[i].change)
  /\ frozen # NoSnapshot => KnownTo(users, frozen)
  /\ op # NoOp => KnownTo(users, op.change)
  /\ \A m \in Markets : tables.markets[m] # NoMarket => tables.markets[m].owner \in users

-----------------------------------------------------------------------------
(* replayFile's effect on the maps. *)
Replayed(l, r) == [Apply(l, r.change) EXCEPT !.sequence = r.seq]

(* The sequence of the last record. *)
LastSequence == snapshot.sequence + Len(log)

(* What every row of orders satisfies. *)
RowSound(t, o) ==
  /\ t.markets[o.market] # NoMarket
  /\ ValidPrice(o.price)
  /\ o.qty >= 1 /\ o.filled <= o.qty

TablesSound(t) ==
  /\ \A u \in Users : t.balances[u] >= 0
  /\ \A id \in OrderIds : t.orders[id] # NoOrder => RowSound(t, t.orders[id])

(* Order n continues order o: it differs in nothing that UpsertOrder would
   not write. *)
SameRow(n, o) ==
  <<n.user, n.market, n.side, n.price, n.qty, n.seq>>
    = <<o.user, o.market, o.side, o.price, o.qty, o.seq>>

(* The change c with its trades was made for tables t: but for the width of
   the columns, its transaction commits. *)
MadeFor(t, c, trades) ==
  /\ \A u \in Users : t.balances[u] + c.cash[u] >= 0
  /\ SymbolsFit(t, c)
  /\ PositionsFit(t, c)
  /\ \A id \in OrderIds : c.orders[id] # NoOrder =>
       /\ RowSound(t, c.orders[id])
       /\ t.orders[id] # NoOrder => SameRow(c.orders[id], t.orders[id])
  /\ \A x \in trades : \E id \in OrderIds :
       c.orders[id] # NoOrder /\ x.qty <= c.orders[id].qty
  /\ c.sequence = 0

(* h is the history the durable files tell: the ledger of the snapshot and of
   every record behind it, whose sequences leave no gap. *)
IsHistory(h) ==
  /\ h \in [0..Len(log) -> LedgerType]
  /\ h[0] = snapshot
  /\ \A i \in 1..Len(log) : /\ log[i].seq = snapshot.sequence + i
                            /\ h[i] = Replayed(h[i - 1], log[i])

(* PostgreSQL has every record up to p, and lacks at most the last one, which
   was made for the tables as they are. *)
ProjectedTo(h, p) ==
  /\ p \in snapshot.sequence..LastSequence /\ p >= LastSequence - 1
  /\ tables.order_events = 1..p
  /\ Mirrors(tables, h[p - snapshot.sequence])
  /\ p < LastSequence => MadeFor(tables, log[Len(log)].change, log[Len(log)].trades)

(* A checkpoint is of a ledger the history has and PostgreSQL has reached;
   replay has not got ahead of PostgreSQL. *)
LedgersOf(h, p) ==
  /\ frozen # NoSnapshot =>
       /\ frozen.sequence \in snapshot.sequence..p
       /\ frozen = h[frozen.sequence - snapshot.sequence]
  /\ phase = "replay" =>
       /\ mem.sequence \in snapshot.sequence..p
       /\ mem = h[mem.sequence - snapshot.sequence]

(* Without a failure memory is the ledger PostgreSQL has, but for the engine
   ids recovery has forgotten, and only a record whose projection is under way
   is behind it. *)
MemoryOf(h, p) ==
  phase \in {"recover", "serve"} /\ ~failed =>
    /\ mem.sequence = LastSequence
    /\ mem.markets = tables.markets /\ mem.cash = tables.balances
    /\ mem.pos = tables.positions
    /\ mem.deposited = h[p - snapshot.sequence].deposited
    /\ \A id \in OrderIds :
         mem.orders[id] = IF id \in todo \/ Relisting(id)
                          THEN [tables.orders[id] EXCEPT !.eid = 0]
                          ELSE tables.orders[id]
    /\ \A id \in OrderIds : id \in todo \/ Relisting(id) => tables.orders[id] # NoOrder
    /\ IF op # NoOp /\ op.step = "project"
       THEN p < LastSequence /\ log[Len(log)] = RecordOf(mem.sequence)
       ELSE p = LastSequence

(* A change that is about to be appended was made for the tables. *)
StagedFor ==
  op # NoOp /\ op.step = "append" => MadeFor(tables, op.change, op.trades)

DurableInv(h, p) ==
  /\ IsHistory(h) /\ ProjectedTo(h, p) /\ LedgersOf(h, p) /\ MemoryOf(h, p)

HistoryInv ==
  /\ TablesSound(tables)
  /\ StagedFor
  /\ \E h, p : DurableInv(h, p)

IInv == SInv /\ UsersInv /\ HistoryInv

-----------------------------------------------------------------------------
FilledOf(o) == IF o = NoOrder THEN 0 ELSE o.filled

(* What a trade fills of an order. *)
Share(x, id) == IF id \in {x.buy, x.sell} THEN x.qty ELSE 0

(* The change c fills orders of tables t by its one trade, or none. *)
AccountsFor(t, c, trades) ==
  LET filled(id) == FilledOf(IF c.orders[id] = NoOrder THEN t.orders[id] ELSE c.orders[id])
  IN  \/ /\ trades = {}
         /\ \A id \in OrderIds : filled(id) = FilledOf(t.orders[id])
      \/ \E x \in trades :
           /\ trades = {x}
           /\ \A id \in OrderIds : filled(id) = FilledOf(t.orders[id]) + Share(x, id)

(* A record that PostgreSQL lacks. *)
Lacks(r) == r.seq \notin tables.order_events

(* The trades of PostgreSQL are those of the records it has and account for
   every fill; so will those of the record it lacks and of the change that is
   about to be appended. *)
TradesInv ==
  /\ IsFiniteSet(tables.trades)
  /\ \A row \in tables.trades : row.seq \in tables.order_events
  /\ \A id \in OrderIds : Traded(id) = FilledOf(tables.orders[id])
  /\ op # NoOp /\ op.step = "append" => AccountsFor(tables, op.change, op.trades)
  /\ log # <<>> /\ Lacks(log[Len(log)]) =>
       AccountsFor(tables, log[Len(log)].change, log[Len(log)].trades)
=============================================================================
