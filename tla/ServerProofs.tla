---------------------------- MODULE ServerProofs ----------------------------
(***************************************************************************)
(* The API process, for every set of users, markets, orders and requests:  *)
(* the invariant of ServerInvariant holds of every behaviour of Spec.      *)
(*                                                                         *)
(* SInv is preserved action by action.  UsersInv follows names from a      *)
(* token to the request, the change, the record and the ledgers.  For      *)
(* HistoryInv a step exhibits the history h and the point p of the next    *)
(* state: a record that is appended extends h and leaves p behind it, its  *)
(* projection, now or during a later replay, moves p to the end, and a     *)
(* checkpoint cuts the beginning off h.  TradesInv follows from it: a      *)
(* record is projected once, so its trade is counted once.                 *)
(***************************************************************************)
EXTENDS ServerInvariant, LedgerProofs

(* In a log without gaps the records behind sequence n are its tail. *)
LEMMA RecordsAfterTail ==
  ASSUME NEW R, NEW s \in Seq(R), NEW b \in Nat, NEW n \in b..(b + Len(s)),
         \A i \in 1..Len(s) : s[i].seq = b + i
  PROVE  /\ RecordsAfter(s, n) \in Seq(R)
         /\ Len(RecordsAfter(s, n)) = b + Len(s) - n
         /\ \A j \in 1..(b + Len(s) - n) : RecordsAfter(s, n)[j] = s[n - b + j]
<1>. DEFINE Body(f) == [i \in 0..Len(s) |-> IF i = 0 THEN <<>>
                          ELSE IF s[i].seq > n THEN Append(f[i - 1], s[i]) ELSE f[i - 1]]
            size(i) == IF i > n - b THEN i - (n - b) ELSE 0
            part(i) == [j \in 1..size(i) |-> s[n - b + j]]
            g == [i \in 0..Len(s) |-> part(i)]
            f == CHOOSE f : f = Body(f)
<1>0. Len(s) \in Nat /\ n \in Nat /\ n >= b /\ n <= b + Len(s)
  OBVIOUS
<1>1. \A i \in 0..Len(s) : size(i) \in Nat /\ part(i) \in Seq(R) /\ Len(part(i)) = size(i)
  <2>. TAKE i \in 0..Len(s)
  <2>1. size(i) \in Nat /\ \A j \in 1..size(i) : s[n - b + j] \in R
    BY <1>0
  <2>. HIDE DEF size
  <2>. QED  BY SMTT(30), <2>1
<1>2. g = Body(g)
  <2>1. part(0) = <<>>
    BY <1>0
  <2>2. ASSUME NEW i \in 1..Len(s), s[i].seq > n
        PROVE  part(i) = Append(part(i - 1), s[i])
    <3>1. size(i) = size(i - 1) + 1 /\ n - b + size(i) = i
      BY <1>0, <2>2
    <3>2. part(i - 1) \in Seq(R) /\ Len(part(i - 1)) = size(i - 1) /\ size(i - 1) \in Nat
      BY <1>0, <1>1
    <3>. HIDE DEF size
    <3>. QED  BY SMTT(30), <3>1, <3>2
  <2>3. ASSUME NEW i \in 1..Len(s), ~(s[i].seq > n)
        PROVE  part(i) = part(i - 1)
    <3>1. size(i) = size(i - 1)
      BY <1>0, <2>3
    <3>. HIDE DEF size
    <3>. QED  BY <3>1
  <2>4. \A i \in 1..Len(s) : g[i - 1] = part(i - 1)
    BY <1>0
  <2>. HIDE DEF part
  <2>. QED  BY SMTT(30), <1>0, <2>1, <2>2, <2>3, <2>4
<1>3. f = Body(f)
  <2>. HIDE DEF Body, g
  <2>. QED  BY <1>2
<1>4. \A i \in 0..Len(s) : f[i] = part(i)
  <2>. DEFINE T == {i \in 0..Len(s) : f[i] # part(i)}
  <2>. SUFFICES ASSUME T # {}  PROVE FALSE
    OBVIOUS
  <2>1. T \subseteq Nat
    BY <1>0
  <2>2. PICK m \in T : \A k \in T : m <= k
    <3>. HIDE DEF T
    <3>. QED BY <2>1, LeastNatural
  <2>3. m \in 0..Len(s) /\ f[m] # part(m)
    OBVIOUS
  <2>4. f[m] = IF m = 0 THEN <<>>
               ELSE IF s[m].seq > n THEN Append(f[m - 1], s[m]) ELSE f[m - 1]
    <3>. HIDE DEF f
    <3>. QED  BY <1>3, <2>3
  <2>5. part(m) = IF m = 0 THEN <<>>
                  ELSE IF s[m].seq > n THEN Append(part(m - 1), s[m]) ELSE part(m - 1)
    <3>1. g[m] = part(m) /\ (m # 0 => g[m - 1] = part(m - 1))
      BY <1>0, <2>3
    <3>. HIDE DEF g, part
    <3>. QED  BY <1>2, <2>3, <3>1
  <2>6. m # 0 => f[m - 1] = part(m - 1)
    <3>1. m # 0 => m - 1 \in 0..Len(s) /\ m - 1 \notin T
      <4>. HIDE DEF T
      <4>. QED  BY <1>0, <2>2, <2>3
    <3>. HIDE DEF f, part
    <3>. QED  BY <3>1
  <2>. QED
    <3>. HIDE DEF f, part
    <3>. QED  BY <2>3, <2>4, <2>5, <2>6
<1>5. RecordsAfter(s, n) = f[Len(s)]
  BY DEF RecordsAfter
<1>6. RecordsAfter(s, n) = part(Len(s))
  <2>. HIDE DEF f, part
  <2>. QED BY <1>0, <1>4, <1>5
<1>7. size(Len(s)) = b + Len(s) - n
  BY <1>0
<1>8. part(Len(s)) \in Seq(R) /\ Len(part(Len(s))) = size(Len(s))
  BY <1>0, <1>1
<1>9. \A j \in 1..size(Len(s)) : part(Len(s))[j] = s[n - b + j]
  <2>. HIDE DEF size
  <2>. QED OBVIOUS
<1>. HIDE DEF part, size
<1>. QED  BY <1>6, <1>7, <1>8, <1>9
-----------------------------------------------------------------------------
(* Taking a sequence changes nothing else. *)
LEMMA SequenceMoved ==
  ASSUME NEW l \in LedgerType, NEW n \in Nat
  PROVE  /\ [l EXCEPT !.sequence = n] \in LedgerType
         /\ [l EXCEPT !.sequence = n].markets = l.markets
         /\ [l EXCEPT !.sequence = n].orders = l.orders
         /\ [l EXCEPT !.sequence = n].cash = l.cash
         /\ [l EXCEPT !.sequence = n].pos = l.pos
         /\ [l EXCEPT !.sequence = n].deposited = l.deposited
         /\ [l EXCEPT !.sequence = n].sequence = n
BY DEF LedgerType

(* The transaction of a record leaves well-formed tables. *)
LEMMA ApplyBatchType ==
  ASSUME NEW t \in TablesType, NEW r \in Record
  PROVE  ApplyBatch(t, r) \in TablesType
<1>. DEFINE c == r.change
            events == t.order_events \cup {r.seq}
            markets == [m \in Markets |->
                          IF c.markets[m] = NoMarket THEN t.markets[m] ELSE c.markets[m]]
            orders == [id \in OrderIds |->
                          IF c.orders[id] = NoOrder THEN t.orders[id]
                          ELSE UpsertOrder(t.orders[id], c.orders[id])]
            balances == [u \in Users |-> t.balances[u] + c.cash[u]]
            positions == [h \in Holdings |-> t.positions[h] + c.pos[h]]
            trades == t.trades \cup {[seq |-> r.seq, trade |-> x] : x \in r.trades}
<1>1. c \in LedgerType /\ r.seq \in Nat /\ r.trades \subseteq Trades
  BY DEF Record
<1>2. events \in SUBSET Nat
  BY <1>1 DEF TablesType
<1>3. markets \in [Markets -> Market \cup {NoMarket}]
  BY <1>1 DEF TablesType, LedgerType
<1>4. orders \in [OrderIds -> Order \cup {NoOrder}]
  <2>1. \A id \in OrderIds : t.orders[id] \in Order \cup {NoOrder}
                             /\ c.orders[id] \in Order \cup {NoOrder}
    BY <1>1 DEF TablesType, LedgerType
  <2>2. ASSUME NEW o \in Order, NEW n \in Order  PROVE UpsertOrder(o, n) \in Order
    BY DEF UpsertOrder, Order
  <2>3. \A n : UpsertOrder(NoOrder, n) = n
    BY DEF UpsertOrder
  <2>4. ASSUME NEW id \in OrderIds, c.orders[id] # NoOrder
        PROVE  UpsertOrder(t.orders[id], c.orders[id]) \in Order
    BY <2>1, <2>2, <2>3, <2>4
  <2>. QED  BY <2>1, <2>4
<1>5. balances \in [Users -> Int] /\ positions \in [Holdings -> Int]
  BY <1>1 DEF TablesType, LedgerType
<1>6. trades \in SUBSET [seq : Nat, trade : Trades]
  BY <1>1 DEF TablesType
<1>7. ~Admitted(t, r) => ApplyBatch(t, r) = t
  BY DEF ApplyBatch
<1>8. Admitted(t, r) =>
        ApplyBatch(t, r) = [order_events |-> events, markets |-> markets, orders |-> orders,
                            balances |-> balances, positions |-> positions, trades |-> trades]
  BY DEF ApplyBatch
<1>. HIDE DEF events, markets, orders, balances, positions, trades
<1>9. [order_events |-> events, markets |-> markets, orders |-> orders,
       balances |-> balances, positions |-> positions, trades |-> trades] \in TablesType
  BY <1>2, <1>3, <1>4, <1>5, <1>6 DEF TablesType
<1>. QED  BY <1>7, <1>8, <1>9

(* The record of an operation is one. *)
LEMMA RecordOfType ==
  ASSUME op \in OperationType, NEW n \in Nat \ {0}
  PROVE  RecordOf(n) \in Record /\ RecordOf(n).seq = n
         /\ RecordOf(n).change = op.change /\ RecordOf(n).trades = op.trades
BY DEF RecordOf, Record, OperationType

(* Before any record the tables are empty. *)
LEMMA EmptyTablesType == EmptyTables \in TablesType
<1>1. /\ Empty.markets \in [Markets -> Market \cup {NoMarket}]
      /\ Empty.orders \in [OrderIds -> Order \cup {NoOrder}]
      /\ Empty.cash \in [Users -> Int]
      /\ Empty.pos \in [Holdings -> Int]
  BY DEF Empty
<1>. QED  BY <1>1 DEF EmptyTables, TablesType

-----------------------------------------------------------------------------
(* The phases. *)

(* A host on which the server has never run. *)
LEMMA InitSInv ==
  ASSUME Init
  PROVE  SInv
<1>. USE DEF Init
<1>0. log \in Seq(Record) /\ queue \in Seq(Orders) /\ faults \in 0..MaxFaults
  BY ServerAssumption
<1>1. TypeOK
  BY <1>0, EmptyLedger, EmptyTablesType DEF TypeOK
<1>2. PhaseInv /\ HookInv /\ OpInv
  BY DEF PhaseInv, HookInv, OpInv
<1>. QED  BY <1>1, <1>2 DEF SInv

(* A process that ends leaves nothing behind but what is durable. *)
LEMMA ExitSInv ==
  ASSUME Exit, log' \in Seq(Record), snapshot' \in LedgerType, tables' \in TablesType,
         users' \subseteq Users, tokens' \subseteq Users, faults' \in 0..MaxFaults
  PROVE  SInv'
<1>. USE DEF Exit
<1>0. queue' \in Seq(Orders)
  OBVIOUS
<1>1. TypeOK'
  BY <1>0, EmptyLedger DEF TypeOK
<1>2. PhaseInv' /\ HookInv' /\ OpInv'
  BY DEF PhaseInv, HookInv, OpInv
<1>. QED  BY <1>1, <1>2 DEF SInv

(* The fault counter stays within its bound. *)
LEMMA FaultCounted ==
  ASSUME TypeOK, Fault
  PROVE  faults' \in 0..MaxFaults
BY ServerAssumption DEF TypeOK, Fault

(* Start-up connects, loads the snapshot, and lets the listener go. *)
LEMMA StartupSInv ==
  ASSUME SInv, Launch \/ Migrate \/ RecoverDone
  PROVE  SInv'
<1>1. CASE Launch
  BY <1>1 DEF SInv, TypeOK, PhaseInv, HookInv, OpInv, Launch, durable, access, handlers,
     checkpoint
<1>2. CASE Migrate
  BY <1>2 DEF SInv, TypeOK, PhaseInv, HookInv, OpInv, Migrate, durable, access, handlers,
     checkpoint, connections
<1>3. CASE RecoverDone
  BY <1>3 DEF SInv, TypeOK, PhaseInv, HookInv, OpInv, RecoverDone, durable, access, handlers,
     checkpoint, connections
<1>. QED  BY <1>1, <1>2, <1>3

(* Registration, login and new requests touch no operation. *)
LEMMA ClientSInv ==
  ASSUME SInv, Client
  PROVE  SInv'
<1>1. ASSUME NEW u \in Users, Register(u) \/ RegisterFails(u) \/ Login(u)
      PROVE  SInv'
  <2>1. faults' \in 0..MaxFaults
    BY <1>1, FaultCounted DEF SInv, TypeOK, Register, RegisterFails, Login
  <2>. QED
    BY <1>1, <2>1 DEF SInv, TypeOK, PhaseInv, HookInv, OpInv, Register, RegisterFails, Login,
       TokensAfterFailedInsert, durable, access, handlers, checkpoint, connections
<1>2. ASSUME NEW r \in Requests, Submit(r)
      PROVE  SInv'
  BY <1>2 DEF SInv, TypeOK, PhaseInv, HookInv, OpInv, Submit, Listening, durable, access,
     handlers, checkpoint, connections
<1>. QED  BY <1>1, <1>2 DEF Client

(* The hook goes step by step; it disconnects the engines only when the
   worker is done. *)
LEMMA ShutdownSInv ==
  ASSUME SInv, Signal \/ HookStopsTicker \/ HookSkipsSnapshot \/ HookCloses
               \/ HookClosesEngine \/ HookClosesDatabase
  PROVE  SInv'
<1>. USE DEF SInv, TypeOK, PhaseInv, HookInv, OpInv, durable, access, handlers, checkpoint,
     connections
<1>1. CASE Signal
  BY <1>1, FaultCounted DEF Signal, Listening
<1>2. CASE HookStopsTicker
  BY <1>2 DEF HookStopsTicker
<1>3. CASE HookSkipsSnapshot
  BY <1>3 DEF HookSkipsSnapshot
<1>4. CASE HookCloses
  BY <1>4 DEF HookCloses
<1>5. CASE HookClosesEngine
  BY <1>5 DEF HookClosesEngine, WorkersDone
<1>6. CASE HookClosesDatabase
  BY <1>6 DEF HookClosesDatabase
<1>. QED  BY <1>1, <1>2, <1>3, <1>4, <1>5, <1>6

(* The order queue: once Close has closed it, nothing is added. *)
LEMMA QueueSInv ==
  ASSUME SInv, TakeOrder \/ RejectOrder \/ \E r \in waiting : Enqueue(r) \/ Rejects(r)
  PROVE  SInv'
<1>. USE DEF SInv, TypeOK, PhaseInv, HookInv, OpInv, durable, access, handlers, checkpoint,
     connections
<1>1. CASE TakeOrder
  BY <1>1 DEF TakeOrder
<1>2. CASE RejectOrder
  BY <1>2 DEF RejectOrder
<1>3. ASSUME NEW r \in waiting, Enqueue(r)
      PROVE  SInv'
  <2>1. r \in Orders
    BY <1>3, ServerAssumption DEF Enqueue, Orders, OrderRequest, OtherRequest
  <2>2. queue' \in Seq(Orders)
    BY <1>3, <2>1 DEF Enqueue
  <2>. QED  BY <1>3, <2>2 DEF Enqueue
<1>4. ASSUME NEW r \in waiting, Rejects(r)
      PROVE  SInv'
  BY <1>4 DEF Rejects
<1>. QED  BY <1>1, <1>2, <1>3, <1>4

(* s.fail latches the failure, or ends a process that was recovering. *)
LEMMA FailSInv ==
  ASSUME SInv, op # NoOp, NEW n \in Nat, Fail(n),
         log' \in Seq(Record), tables' \in TablesType,
         UNCHANGED <<snapshot, access>>, faults' \in 0..MaxFaults
  PROVE  SInv'
<1>1. CASE phase = "recover"
  <2>1. Exit
    BY <1>1 DEF Fail
  <2>. QED  BY <2>1, ExitSInv DEF SInv, TypeOK, access
<1>2. CASE phase # "recover"
  <2>1. /\ failed' = TRUE /\ op' = NoOp /\ mem' = [mem EXCEPT !.sequence = n]
        /\ placing' \in {placing, NoRequest}
        /\ UNCHANGED <<phase, todo, waiting, queue, connections, hook, checkpoint>>
    BY <1>2 DEF Fail
  <2>2. mem' \in LedgerType
    BY <2>1, SequenceMoved DEF SInv, TypeOK
  <2>3. phase = "serve"
    BY <1>2 DEF SInv, TypeOK, PhaseInv
  <2>4. TypeOK'
    BY <2>1, <2>2 DEF SInv, TypeOK, connections, checkpoint, access
  <2>5. PhaseInv' /\ HookInv' /\ OpInv'
    BY <2>1, <2>3 DEF SInv, PhaseInv, HookInv, OpInv, connections, checkpoint
  <2>. QED  BY <2>4, <2>5 DEF SInv
<1>. QED  BY <1>1, <1>2

(* appendMany leaves the operation at its projection. *)
LEMMA AppendSInv ==
  ASSUME SInv, AppendRecord
  PROVE  SInv'
<1>1. op \in OperationType /\ mem.sequence + 1 \in Nat \ {0}
  BY DEF SInv, TypeOK, AppendRecord, LedgerType
<1>2. log' \in Seq(Record)
  BY <1>1, RecordOfType DEF SInv, TypeOK, AppendRecord
<1>3. mem' \in LedgerType /\ mem'.orders = mem.orders
  BY <1>1, SequenceMoved DEF SInv, TypeOK, AppendRecord
<1>4. /\ op' \in OperationType /\ op'.step = "project" /\ op'.kind = op.kind
      /\ op'.id = op.id /\ op'.change = op.change
  BY <1>1 DEF AppendRecord, OperationType
<1>5. TypeOK'
  BY <1>2, <1>3, <1>4 DEF SInv, TypeOK, AppendRecord, access, handlers, connections, checkpoint
<1>6. PhaseInv' /\ HookInv'
  BY DEF SInv, PhaseInv, HookInv, AppendRecord, access, handlers, connections, checkpoint
<1>7. OpInv'
  BY <1>3, <1>4 DEF SInv, OpInv, AppendRecord
<1>. QED  BY <1>5, <1>6, <1>7 DEF SInv

(* The tables after a transaction that failed: as they were, or with the record
   the operation has logged. *)
LEMMA ProjectedType ==
  ASSUME SInv, op # NoOp, mem.sequence \in Nat \ {0}
  PROVE  ApplyBatch(tables, RecordOf(mem.sequence)) \in TablesType
BY RecordOfType, ApplyBatchType DEF SInv, TypeOK

(* Every way a commit or an engine call can fail. *)
LEMMA CommitFailsSInv ==
  ASSUME SInv, AppendFails \/ ProjectRefused \/ ProjectFails \/ EngineFails,
         op # NoOp /\ op.step = "project" => mem.sequence \in Nat \ {0}
  PROVE  SInv'
<1>1. mem.sequence \in Nat /\ mem.sequence + 1 \in Nat \ {0}
  BY DEF SInv, TypeOK, LedgerType
<1>2. CASE AppendFails
  <2>1. op # NoOp /\ op \in OperationType
    BY <1>2 DEF SInv, TypeOK, AppendFails
  <2>2. log' \in Seq(Record)
    BY SMTT(30), <1>1, <1>2, <2>1, RecordOfType DEF SInv, TypeOK, AppendFails
  <2>3. faults' \in 0..MaxFaults
    BY <1>2, FaultCounted DEF SInv, AppendFails
  <2>. QED  BY <1>1, <1>2, <2>1, <2>2, <2>3, FailSInv DEF SInv, TypeOK, AppendFails
<1>3. CASE ProjectRefused
  BY <1>1, <1>3, FailSInv DEF SInv, TypeOK, ProjectRefused, durable
<1>4. CASE ProjectFails
  <2>1. op # NoOp /\ tables' \in TablesType
    BY <1>4, ProjectedType DEF SInv, TypeOK, ProjectFails
  <2>3. faults' \in 0..MaxFaults
    BY <1>4, FaultCounted DEF SInv, ProjectFails
  <2>. QED  BY <1>1, <1>4, <2>1, <2>3, FailSInv DEF SInv, TypeOK, ProjectFails
<1>5. CASE EngineFails
  <2>3. faults' \in 0..MaxFaults
    BY <1>5, FaultCounted DEF SInv, TypeOK, EngineFails
  <2>. QED  BY <1>1, <1>5, <2>3, FailSInv DEF SInv, TypeOK, EngineFails, durable
<1>. QED  BY <1>2, <1>3, <1>4, <1>5

(* A committed operation returns, or goes on to the engine. *)
LEMMA ProjectSInv ==
  ASSUME SInv, ProjectRecord, mem.sequence \in Nat \ {0}
  PROVE  SInv'
<1>1. op \in OperationType /\ op # NoOp /\ op.change \in LedgerType
  BY DEF SInv, TypeOK, ProjectRecord, OperationType
<1>2. tables' \in TablesType
  BY ProjectedType DEF ProjectRecord
<1>3. /\ mem' \in LedgerType
      /\ \A id \in OrderIds : op.change.orders[id] # NoOrder => mem'.orders[id] # NoOrder
  BY <1>1, ApplyLedger DEF SInv, TypeOK, ProjectRecord
<1>4. /\ placing' \in {placing, NoRequest}
      /\ \/ op' = NoOp
         \/ op.kind = "reserve" /\ op' = [op EXCEPT !.kind = "complete", !.step = "engine"]
         \/ op.kind = "relist" /\ op' = [op EXCEPT !.kind = "refill", !.step = "engine"]
  BY DEF ProjectRecord, AfterCommit
<1>5. op' # NoOp =>
        /\ op' \in OperationType /\ op'.step = "engine" /\ op'.id = op.id
        /\ op'.change = op.change /\ op.kind \in {"reserve", "relist"}
        /\ op'.kind = IF op.kind = "reserve" THEN "complete" ELSE "refill"
  BY <1>1, <1>4 DEF OperationType
<1>6. TypeOK'
  BY <1>2, <1>3, <1>4, <1>5 DEF SInv, TypeOK, ProjectRecord, access, connections, checkpoint
<1>7. PhaseInv' /\ HookInv'
  BY <1>1, <1>4 DEF SInv, PhaseInv, HookInv, ProjectRecord, access, connections, checkpoint
<1>8. OpInv'
  BY <1>1, <1>3, <1>5 DEF SInv, OpInv, ProjectRecord
<1>. QED  BY <1>6, <1>7, <1>8 DEF SInv

(* An operation that starts, or gets its answer from the engine, goes to its
   commit. *)
LEMMA OperationSInv ==
  ASSUME SInv, phase \in {"recover", "serve"}, ~failed,
         op' \in OperationType, op'.step = "append",
         op'.kind \in {"relist", "refill"} <=> phase = "recover",
         op'.kind \in {"reserve", "complete", "relist", "refill", "cancel"} => op'.id \in OrderIds,
         op'.kind \in {"reserve", "relist"} => op'.change.orders[op'.id] # NoOrder,
         \A id \in todo' : op'.id # id /\ op'.change.orders[id] = NoOrder,
         todo' \subseteq todo, waiting' \subseteq waiting,
         UNCHANGED <<durable, access, phase, mem, failed, queue, placing, connections,
                     hook, checkpoint, faults>>
  PROVE  SInv'
<1>1. TypeOK'
  BY DEF SInv, TypeOK, durable, access, connections, checkpoint
<1>2. PhaseInv' /\ HookInv' /\ OpInv'
  BY DEF SInv, PhaseInv, HookInv, OpInv, connections, checkpoint
<1>. QED  BY <1>1, <1>2 DEF SInv

(* Checkpoints change neither the operation nor the connections. *)
LEMMA CheckpointSInv ==
  ASSUME SInv, Freeze \/ CheckpointFails \/ (Publish /\ log' \in Seq(Record))
  PROVE  SInv'
<1>. USE DEF SInv, TypeOK, PhaseInv, HookInv, OpInv, durable, access, handlers, checkpoint,
     connections
<1>1. CASE Freeze
  BY <1>1 DEF Freeze, CanFreeze
<1>2. CASE CheckpointFails
  BY <1>2, FaultCounted DEF CheckpointFails, CheckpointEnds
<1>3. CASE Publish /\ log' \in Seq(Record)
  BY <1>3 DEF Publish, CheckpointEnds
<1>. QED  BY <1>1, <1>2, <1>3

(* A cancellation whose outcome is uncertain latches the failure. *)
LEMMA CancelUncertainSInv ==
  ASSUME SInv, NEW r \in waiting, CancelUncertain(r)
  PROVE  SInv'
<1>1. faults' \in 0..MaxFaults
  BY FaultCounted DEF SInv, TypeOK, CancelUncertain
<1>. QED
  BY <1>1 DEF SInv, TypeOK, PhaseInv, HookInv, OpInv, CancelUncertain, Holds, durable, access,
     handlers, checkpoint, connections
-----------------------------------------------------------------------------
(* The durable history. *)

(* A record's effect on the maps, and that of an operation's own commit. *)
LEMMA ReplayedLedger ==
  ASSUME NEW l \in LedgerType, NEW r \in Record
  PROVE  /\ Replayed(l, r) \in LedgerType
         /\ Replayed(l, r).markets = Apply(l, r.change).markets
         /\ Replayed(l, r).orders = Apply(l, r.change).orders
         /\ Replayed(l, r).cash = Apply(l, r.change).cash
         /\ Replayed(l, r).pos = Apply(l, r.change).pos
         /\ Replayed(l, r).deposited = Apply(l, r.change).deposited
         /\ Replayed(l, r).sequence = r.seq
<1>1. r.change \in LedgerType /\ r.seq \in Nat
  BY DEF Record
<1>2. Apply(l, r.change) \in LedgerType
  BY <1>1, ApplyLedger
<1>. QED  BY <1>1, <1>2, SequenceMoved DEF Replayed

(* The history has the sequences of its records. *)
LEMMA HistorySequences ==
  ASSUME SInv, NEW h, IsHistory(h)
  PROVE  \A i \in 0..Len(log) : h[i] \in LedgerType /\ h[i].sequence = snapshot.sequence + i
<1>1. Len(log) \in Nat /\ snapshot.sequence \in Nat /\ \A i \in 1..Len(log) : log[i] \in Record
  BY DEF SInv, TypeOK, LedgerType
<1>2. \A i \in 0..Len(log) : h[i] \in LedgerType
  BY DEF IsHistory
<1>3. ASSUME NEW i \in 1..Len(log)  PROVE h[i].sequence = snapshot.sequence + i
  <2>1. h[i] = Replayed(h[i - 1], log[i]) /\ log[i].seq = snapshot.sequence + i
    BY DEF IsHistory
  <2>2. h[i - 1] \in LedgerType /\ log[i] \in Record
    BY <1>1, <1>2
  <2>. QED  BY <2>1, <2>2, ReplayedLedger
<1>4. h[0].sequence = snapshot.sequence + 0
  BY <1>1 DEF IsHistory
<1>. QED  BY <1>1, <1>2, <1>3, <1>4

(* The records replay has yet to apply are the tail of the log. *)
LEMMA TailOfLog ==
  ASSUME SInv, NEW h, IsHistory(h), NEW n \in snapshot.sequence..LastSequence
  PROVE  /\ RecordsAfter(log, n) \in Seq(Record)
         /\ Len(RecordsAfter(log, n)) = LastSequence - n
         /\ \A j \in 1..(LastSequence - n) :
              RecordsAfter(log, n)[j] = log[n - snapshot.sequence + j]
<1>1. log \in Seq(Record) /\ snapshot.sequence \in Nat
  BY DEF SInv, TypeOK, LedgerType
<1>2. \A i \in 1..Len(log) : log[i].seq = snapshot.sequence + i
  BY DEF IsHistory
<1>3. n \in snapshot.sequence..(snapshot.sequence + Len(log)) /\ Len(log) \in Nat
  BY <1>1 DEF LastSequence
<1>4. LastSequence - n = snapshot.sequence + Len(log) - n
  BY <1>1, <1>3 DEF LastSequence
<1>5. /\ RecordsAfter(log, n) \in Seq(Record)
      /\ Len(RecordsAfter(log, n)) = snapshot.sequence + Len(log) - n
      /\ \A j \in 1..(snapshot.sequence + Len(log) - n) :
           RecordsAfter(log, n)[j] = log[n - snapshot.sequence + j]
  <2>. DEFINE b == snapshot.sequence
  <2>1. b \in Nat /\ n \in b..(b + Len(log)) /\ \A i \in 1..Len(log) : log[i].seq = b + i
    BY <1>1, <1>2, <1>3
  <2>. HIDE DEF b
  <2>2. /\ RecordsAfter(log, n) \in Seq(Record)
        /\ Len(RecordsAfter(log, n)) = b + Len(log) - n
        /\ \A j \in 1..(b + Len(log) - n) : RecordsAfter(log, n)[j] = log[n - b + j]
    BY <1>1, <2>1, RecordsAfterTail
  <2>. QED  BY <2>2 DEF b
<1>. QED  BY <1>4, <1>5

(* The next record to replay is the one behind the sequence replay has
   reached. *)
LEMMA NextToReplay ==
  ASSUME SInv, NEW h, NEW p, DurableInv(h, p), phase = "replay"
  PROVE  /\ Unreplayed # <<>> =>
              LET i == mem.sequence - snapshot.sequence + 1
              IN  /\ i \in 1..Len(log) /\ Head(Unreplayed) = log[i]
                  /\ log[i] \in Record
         /\ Unreplayed = <<>> => mem.sequence = LastSequence
<1>0. snapshot.sequence \in Nat /\ Len(log) \in Nat /\ log \in Seq(Record)
  BY DEF SInv, TypeOK, LedgerType
<1>1. mem.sequence \in snapshot.sequence..LastSequence
  <2>1. p \in snapshot.sequence..LastSequence /\ mem.sequence \in snapshot.sequence..p
    BY DEF DurableInv, LedgersOf, ProjectedTo
  <2>. QED  BY <1>0, <2>1 DEF LastSequence
<1>2. /\ Unreplayed \in Seq(Record)
      /\ Len(Unreplayed) = LastSequence - mem.sequence
      /\ \A j \in 1..(LastSequence - mem.sequence) :
           Unreplayed[j] = log[mem.sequence - snapshot.sequence + j]
  BY <1>1, TailOfLog DEF Unreplayed, DurableInv
<1>3. Unreplayed = <<>> <=> Len(Unreplayed) = 0
  BY <1>2
<1>4. ASSUME Unreplayed # <<>>
      PROVE  /\ mem.sequence - snapshot.sequence + 1 \in 1..Len(log)
             /\ Head(Unreplayed) = log[mem.sequence - snapshot.sequence + 1]
  <2>1. LastSequence - mem.sequence >= 1
    BY <1>0, <1>1, <1>2, <1>3, <1>4 DEF LastSequence
  <2>2. Head(Unreplayed) = Unreplayed[1]
    BY <1>2, <1>4
  <2>. QED  BY <1>0, <1>1, <1>2, <2>1, <2>2 DEF LastSequence
<1>. QED  BY SMTT(30), <1>0, <1>1, <1>2, <1>3, <1>4 DEF LastSequence

(* Replay is at a record PostgreSQL has, or at the last one. *)
LEMMA ReplayPlace ==
  ASSUME NEW p, snapshot.sequence \in Nat, Len(log) \in Nat, mem.sequence \in Nat,
         mem.sequence \in snapshot.sequence..p, p \in snapshot.sequence..LastSequence,
         p >= LastSequence - 1, mem.sequence - snapshot.sequence + 1 \in 1..Len(log)
  PROVE  LET i == mem.sequence - snapshot.sequence + 1 IN
         /\ mem.sequence < p => snapshot.sequence + i <= p
         /\ ~(mem.sequence < p) => p < LastSequence /\ i = Len(log) /\ mem.sequence = p
<1>1. PICK b, n, m : b = snapshot.sequence /\ n = Len(log) /\ m = mem.sequence
  OBVIOUS
<1>2. /\ b \in Nat /\ n \in Nat /\ m \in Nat /\ m \in b..p /\ p \in b..(b + n)
      /\ p >= b + n - 1 /\ m - b + 1 \in 1..n
  BY <1>1 DEF LastSequence
<1>3. /\ m < p => b + (m - b + 1) <= p
      /\ ~(m < p) => p < b + n /\ m - b + 1 = n /\ m = p
  BY <1>2
<1>. QED  BY <1>1, <1>3 DEF LastSequence

(* Logging a record that was made for the tables. *)
LEMMA RecordLogged ==
  ASSUME SInv, NEW h, IsHistory(h), NEW p, p = LastSequence, ProjectedTo(h, p),
         NEW r \in Record, r.seq = LastSequence + 1, MadeFor(tables, r.change, r.trades),
         log' = Append(log, r), UNCHANGED <<snapshot, tables>>
  PROVE  /\ LastSequence' = LastSequence + 1
         /\ log'[Len(log')] = r
         /\ \E g : /\ IsHistory(g)' /\ ProjectedTo(g, p)'
                   /\ \A i \in 0..Len(log) : g[i] = h[i]
<1>1. log \in Seq(Record) /\ Len(log) \in Nat /\ snapshot.sequence \in Nat
  BY DEF SInv, TypeOK, LedgerType
<1>2. /\ Len(log') = Len(log) + 1 /\ log'[Len(log) + 1] = r
      /\ \A i \in 1..Len(log) : log'[i] = log[i]
  BY <1>1
<1>3. LastSequence' = LastSequence + 1
  BY <1>1, <1>2 DEF LastSequence
<1>. DEFINE last == Replayed(h[Len(log)], r)
<1>4. last \in LedgerType /\ \A i \in 0..Len(log) : h[i] \in LedgerType
  <2>1. \A i \in 0..Len(log) : h[i] \in LedgerType
    BY DEF IsHistory
  <2>2. h[Len(log)] \in LedgerType
    BY <1>1, <2>1
  <2>. QED  BY <2>1, <2>2, ReplayedLedger
<1>5. PICK g : /\ g \in [0..(Len(log) + 1) -> LedgerType] /\ g[Len(log) + 1] = last
               /\ \A i \in 0..Len(log) : g[i] = h[i]
  <2>. DEFINE f == [i \in 0..(Len(log) + 1) |-> IF i = Len(log) + 1 THEN last ELSE h[i]]
  <2>1. /\ f \in [0..(Len(log) + 1) -> LedgerType] /\ f[Len(log) + 1] = last
        /\ \A i \in 0..Len(log) : f[i] = h[i]
    <3>. HIDE DEF last
    <3>. QED  BY <1>1, <1>4
  <2>. QED  BY <2>1
<1>6. IsHistory(g)'
  <2>1. g[0] = snapshot'
    BY <1>1, <1>5 DEF IsHistory
  <2>2. ASSUME NEW i \in 1..(Len(log) + 1)
        PROVE  log'[i].seq = snapshot'.sequence + i /\ g[i] = Replayed(g[i - 1], log'[i])
    <3>1. CASE i = Len(log) + 1
      <4>1. log'[i] = r /\ g[i] = last /\ g[i - 1] = h[Len(log)]
        BY <1>1, <1>2, <1>5, <3>1
      <4>2. log'[i].seq = snapshot'.sequence + i
        BY <1>1, <3>1, <4>1 DEF LastSequence
      <4>. QED  BY <4>1, <4>2
    <3>2. CASE i # Len(log) + 1
      <4>1. i \in 1..Len(log) /\ i - 1 \in 0..Len(log) /\ i \in 0..Len(log)
        BY <1>1, <3>2
      <4>2. log'[i] = log[i] /\ g[i] = h[i] /\ g[i - 1] = h[i - 1]
        BY <1>2, <1>5, <4>1
      <4>. QED  BY <4>1, <4>2 DEF IsHistory
    <3>. QED  BY <3>1, <3>2
  <2>3. g \in [0..Len(log') -> LedgerType]
    BY <1>2, <1>5
  <2>4. \A i \in 1..Len(log') : /\ log'[i].seq = snapshot'.sequence + i
                                 /\ g[i] = Replayed(g[i - 1], log'[i])
    BY <1>2, <2>2
  <2>. QED  BY <2>1, <2>3, <2>4 DEF IsHistory
<1>7. ProjectedTo(g, p)'
  <2>1. LastSequence \in Nat /\ LastSequence = snapshot.sequence + Len(log)
    BY <1>1 DEF LastSequence
  <2>2. p \in snapshot'.sequence..LastSequence' /\ p >= LastSequence' - 1
    BY <1>1, <1>3, <2>1
  <2>3. Mirrors(tables', g[p - snapshot'.sequence])
    <3>1. p - snapshot.sequence = Len(log)
      BY <1>1, <2>1
    <3>2. g[p - snapshot.sequence] = h[p - snapshot.sequence]
      BY <1>1, <1>5, <3>1
    <3>. QED  BY <3>2 DEF ProjectedTo, Mirrors
  <2>4. MadeFor(tables', log'[Len(log')].change, log'[Len(log')].trades)
    BY <1>2
  <2>. QED  BY <2>2, <2>3, <2>4 DEF ProjectedTo
<1>. QED  BY <1>2, <1>3, <1>5, <1>6, <1>7

(* An upsert of an order that continues the row makes the row that order. *)
LEMMA UpsertContinues ==
  ASSUME NEW o \in Order \cup {NoOrder}, NEW n \in Order, o # NoOrder => SameRow(n, o)
  PROVE  UpsertOrder(o, n) = n
<1>1. CASE o = NoOrder
  BY <1>1 DEF UpsertOrder
<1>2. CASE o # NoOrder
  <2>1. UpsertOrder(o, n) = [o EXCEPT !.eid = n.eid, !.filled = n.filled, !.status = n.status]
    BY <1>2 DEF UpsertOrder
  <2>2. /\ n.user = o.user /\ n.market = o.market /\ n.side = o.side /\ n.price = o.price
        /\ n.qty = o.qty /\ n.seq = o.seq
    BY <1>2 DEF SameRow
  <2>. QED  BY <1>2, <2>1, <2>2 DEF Order
<1>. QED  BY <1>1, <1>2

(* A transaction made for the tables does to them what the commit does to the
   maps, and leaves them sound. *)
LEMMA ApplyBatchMirrors ==
  ASSUME NEW t \in TablesType, NEW l \in LedgerType, NEW r \in Record,
         Mirrors(t, l), TablesSound(t), Admitted(t, r), MadeFor(t, r.change, r.trades)
  PROVE  /\ Mirrors(ApplyBatch(t, r), Apply(l, r.change))
         /\ TablesSound(ApplyBatch(t, r))
         /\ ApplyBatch(t, r).order_events = t.order_events \cup {r.seq}
         /\ Apply(l, r.change).sequence = l.sequence
<1>. DEFINE c == r.change
            a == ApplyBatch(t, r)
<1>1. /\ c \in LedgerType /\ c.sequence = 0
      /\ l.sequence \in Nat
  BY DEF Record, MadeFor, LedgerType
<1>2. /\ a.order_events = t.order_events \cup {r.seq}
      /\ a.markets = [m \in Markets |->
                    IF c.markets[m] = NoMarket THEN t.markets[m] ELSE c.markets[m]]
      /\ a.orders = [id \in OrderIds |->
                    IF c.orders[id] = NoOrder THEN t.orders[id]
                    ELSE UpsertOrder(t.orders[id], c.orders[id])]
      /\ a.balances = [u \in Users |-> t.balances[u] + c.cash[u]]
      /\ a.positions = [h \in Holdings |-> t.positions[h] + c.pos[h]]
  BY DEF ApplyBatch
<1>3. /\ \A id \in OrderIds : /\ t.orders[id] \in Order \cup {NoOrder}
                              /\ c.orders[id] \in Order \cup {NoOrder}
      /\ t.orders = l.orders
  BY <1>1 DEF TablesType, LedgerType, Mirrors
<1>. HIDE DEF a, c
<1>4. \A id \in OrderIds : c.orders[id] # NoOrder =>
        UpsertOrder(t.orders[id], c.orders[id]) = c.orders[id]
  BY <1>3, UpsertContinues DEF MadeFor, c
<1>5. a.orders = [id \in OrderIds |->
                    IF c.orders[id] = NoOrder THEN l.orders[id] ELSE c.orders[id]]
  BY <1>2, <1>3, <1>4
<1>6. Mirrors(a, Apply(l, c))
  <2>1. t.markets = l.markets /\ t.balances = l.cash /\ t.positions = l.pos
    BY DEF Mirrors
  <2>. QED  BY <1>2, <1>5, <2>1 DEF Mirrors, Apply
<1>7. Apply(l, c).sequence = l.sequence
  BY <1>1 DEF Apply
<1>8. TablesSound(a)
  <2>1. \A u \in Users : a.balances[u] >= 0
    BY <1>2 DEF MadeFor, c
  <2>2. \A m \in Markets : t.markets[m] # NoMarket => a.markets[m] # NoMarket
    BY <1>2
  <2>3. ASSUME NEW id \in OrderIds, a.orders[id] # NoOrder
        PROVE  RowSound(a, a.orders[id])
    <3>1. RowSound(t, a.orders[id]) /\ a.orders[id] \in Order
      BY <1>2, <1>3, <1>4, <2>3 DEF MadeFor, TablesSound, c
    <3>2. a.orders[id].market \in Markets
      BY <3>1 DEF Order
    <3>. QED  BY <2>2, <3>1, <3>2 DEF RowSound
  <2>. QED  BY <2>1, <2>3 DEF TablesSound
<1>. QED  BY <1>2, <1>6, <1>7, <1>8 DEF a, c

(* Projecting the record PostgreSQL lacks. *)
LEMMA RecordProjected ==
  ASSUME SInv, TablesSound(tables), NEW h, IsHistory(h), NEW p, ProjectedTo(h, p),
         p < LastSequence, tables' = ApplyBatch(tables, log[Len(log)]),
         UNCHANGED <<log, snapshot>>
  PROVE  /\ p + 1 = LastSequence /\ TablesSound(tables') /\ tables' \in TablesType
         /\ IsHistory(h)' /\ ProjectedTo(h, p + 1)'
         /\ LastSequence' = LastSequence
<1>. DEFINE r == log[Len(log)]
            n == Len(log)
<1>1. log \in Seq(Record) /\ snapshot.sequence \in Nat /\ n \in Nat /\ tables \in TablesType
  BY DEF SInv, TypeOK, LedgerType
<1>2. /\ p \in snapshot.sequence..LastSequence /\ p >= LastSequence - 1
      /\ tables.order_events = 1..p /\ Mirrors(tables, h[p - snapshot.sequence])
      /\ MadeFor(tables, r.change, r.trades)
  BY DEF ProjectedTo
<1>3. /\ LastSequence = snapshot.sequence + n /\ LastSequence' = LastSequence
      /\ p + 1 = LastSequence /\ n >= 1 /\ p - snapshot.sequence = n - 1 /\ p \in Nat
  BY <1>1, <1>2 DEF LastSequence
<1>4. r \in Record /\ r.seq = p + 1 /\ h[n] = Replayed(h[n - 1], r) /\ h[n - 1] \in LedgerType
  <2>1. n \in 1..Len(log) /\ n - 1 \in 0..Len(log)
    BY <1>1, <1>3
  <2>2. log[n].seq = snapshot.sequence + n /\ h[n] = Replayed(h[n - 1], log[n])
        /\ h[n - 1] \in LedgerType
    BY <2>1 DEF IsHistory
  <2>. QED  BY <1>1, <1>3, <2>1, <2>2
<1>5. Admitted(tables, r)
  BY <1>2, <1>3, <1>4 DEF Admitted
<1>6. Mirrors(tables, h[n - 1])
  BY <1>2, <1>3
<1>. HIDE DEF r, n
<1>7. /\ Mirrors(ApplyBatch(tables, r), Apply(h[n - 1], r.change))
      /\ TablesSound(ApplyBatch(tables, r))
      /\ ApplyBatch(tables, r).order_events = tables.order_events \cup {r.seq}
  BY <1>1, <1>2, <1>4, <1>5, <1>6, ApplyBatchMirrors
<1>8. tables' = ApplyBatch(tables, r)
  BY DEF r
<1>9. Mirrors(tables', h[n])
  <2>1. LET a == Apply(h[n - 1], r.change) IN
        /\ h[n].markets = a.markets /\ h[n].orders = a.orders
        /\ h[n].cash = a.cash /\ h[n].pos = a.pos
    BY <1>4, ReplayedLedger
  <2>. QED  BY <1>7, <1>8, <2>1 DEF Mirrors
<1>10. tables'.order_events = 1..(p + 1)
  <2>1. (1..p) \cup {p + 1} = 1..(p + 1)
    BY <1>3
  <2>2. tables'.order_events = (1..p) \cup {p + 1}
    BY <1>2, <1>4, <1>7, <1>8
  <2>. QED  BY <2>1, <2>2
<1>11. IsHistory(h)'
  BY DEF IsHistory
<1>12. ProjectedTo(h, p + 1)'
  <2>1. p + 1 \in snapshot'.sequence..LastSequence' /\ p + 1 >= LastSequence' - 1
        /\ ~(p + 1 < LastSequence')
    BY <1>1, <1>3
  <2>2. h[(p + 1) - snapshot'.sequence] = h[n]
    BY <1>1, <1>3
  <2>. QED  BY <1>9, <1>10, <2>1, <2>2 DEF ProjectedTo
<1>13. tables' \in TablesType
  BY <1>1, <1>4, <1>8, ApplyBatchType
<1>. QED  BY <1>3, <1>7, <1>8, <1>11, <1>12, <1>13

(* A record PostgreSQL has is skipped. *)
LEMMA RecordSkipped ==
  ASSUME SInv, NEW h, IsHistory(h), NEW p, ProjectedTo(h, p), NEW i \in 1..Len(log),
         snapshot.sequence + i <= p
  PROVE  ApplyBatch(tables, log[i]) = tables
<1>1. snapshot.sequence \in Nat /\ Len(log) \in Nat
  BY DEF SInv, TypeOK, LedgerType
<1>2. log[i].seq = snapshot.sequence + i /\ tables.order_events = 1..p
      /\ p \in snapshot.sequence..LastSequence
  BY DEF IsHistory, ProjectedTo
<1>3. log[i].seq \in tables.order_events
  BY <1>1, <1>2
<1>. QED  BY <1>3 DEF ApplyBatch, Admitted

(* The durable part of the invariant. *)
Durable == TablesSound(tables) /\ \E h, p : IsHistory(h) /\ ProjectedTo(h, p)

(* After an exit only what is durable has to hold. *)
LEMMA ExitHistory ==
  ASSUME Exit, Durable'
  PROVE  HistoryInv'
<1>. SUFFICES ASSUME NEW h, NEW p, IsHistory(h)', ProjectedTo(h, p)'
              PROVE  DurableInv(h, p)'
  BY DEF HistoryInv, Durable, StagedFor, Exit
<1>. QED  BY DEF DurableInv, LedgersOf, MemoryOf, Exit

(* What the durable files and PostgreSQL tell is not touched. *)
LEMMA DurableUnchanged ==
  ASSUME HistoryInv, UNCHANGED durable
  PROVE  Durable'
BY DEF HistoryInv, Durable, DurableInv, IsHistory, ProjectedTo, LastSequence, durable

(* Steps that change neither a ledger nor the operation. *)
LEMMA HistoryFrame ==
  ASSUME HistoryInv, UNCHANGED <<durable, mem, op, todo, phase, frozen>>, failed => failed'
  PROVE  HistoryInv'
<1>1. PICK h, p : DurableInv(h, p)
  BY DEF HistoryInv
<1>2. DurableInv(h, p)'
  BY <1>1 DEF DurableInv, IsHistory, ProjectedTo, LedgersOf, MemoryOf, LastSequence, Relisting,
     RecordOf, durable
<1>3. TablesSound(tables)' /\ StagedFor'
  BY DEF HistoryInv, StagedFor, durable
<1>. QED  BY <1>2, <1>3 DEF HistoryInv
-----------------------------------------------------------------------------
(* Memory, the operation and the history: one lemma per kind of step. *)

(* A host without a history. *)
LEMMA InitHistory ==
  ASSUME Init
  PROVE  HistoryInv
<1>. DEFINE h == [i \in 0..0 |-> Empty]
<1>1. Empty \in LedgerType /\ Empty.sequence = 0
  BY EmptyLedger DEF Empty
<1>2. Len(log) = 0 /\ snapshot = Empty /\ LastSequence = 0
  BY <1>1 DEF Init, LastSequence
<1>3. h \in [0..0 -> LedgerType] /\ h[0] = Empty
  BY <1>1
<1>4. IsHistory(h)
  <2>. HIDE DEF h
  <2>. QED  BY <1>2, <1>3 DEF IsHistory
<1>5. Mirrors(tables, Empty) /\ tables.order_events = {}
  BY DEF Init, EmptyTables, Mirrors
<1>6. ProjectedTo(h, 0)
  <2>. HIDE DEF h
  <2>1. 1..0 = {} /\ 0 - 0 = 0
    OBVIOUS
  <2>. QED  BY <1>1, <1>2, <1>3, <1>5, <2>1 DEF ProjectedTo
<1>7. TablesSound(tables)
  BY <1>5, EmptyLedger DEF TablesSound, Mirrors, Empty
<1>8. LedgersOf(h, 0) /\ MemoryOf(h, 0) /\ StagedFor
  BY DEF LedgersOf, MemoryOf, StagedFor, Init
<1>. HIDE DEF h
<1>. QED  BY <1>4, <1>6, <1>7, <1>8 DEF HistoryInv, DurableInv

(* Connecting, loading the snapshot and starting to serve. *)
LEMMA LaunchHistory ==
  ASSUME SInv, HistoryInv, Launch \/ Migrate \/ RecoverDone
  PROVE  HistoryInv'
<1>1. PICK h, p : DurableInv(h, p)
  BY DEF HistoryInv
<1>2. UNCHANGED <<log, snapshot, tables, op, todo, failed, frozen>>
  BY DEF Launch, Migrate, RecoverDone, durable, checkpoint
<1>3. IsHistory(h)' /\ ProjectedTo(h, p)' /\ LastSequence' = LastSequence
  BY <1>1, <1>2 DEF DurableInv, IsHistory, ProjectedTo, LastSequence
<1>4. TablesSound(tables)' /\ StagedFor'
  BY <1>2 DEF HistoryInv, StagedFor
<1>5. LedgersOf(h, p)' /\ MemoryOf(h, p)'
  <2>1. CASE Launch
    BY <1>1, <1>2, <2>1 DEF DurableInv, LedgersOf, MemoryOf, Launch
  <2>2. CASE Migrate
    <3>1. mem' = snapshot /\ phase' = "replay"
      BY <2>2 DEF Migrate
    <3>2. snapshot.sequence \in Nat /\ Len(log) \in Nat
      BY DEF SInv, TypeOK, LedgerType
    <3>3. snapshot.sequence \in snapshot.sequence..p /\ snapshot.sequence - snapshot.sequence = 0
      BY <1>1, <3>2 DEF DurableInv, ProjectedTo, LastSequence
    <3>4. h[0] = snapshot
      BY <1>1 DEF DurableInv, IsHistory
    <3>. QED  BY <1>1, <1>2, <3>1, <3>3, <3>4 DEF DurableInv, LedgersOf, MemoryOf
  <2>3. CASE RecoverDone
    <3>1. phase = "recover" /\ phase' = "serve" /\ mem' = mem
      BY <2>3 DEF RecoverDone
    <3>. QED  BY <1>1, <1>2, <1>3, <3>1 DEF DurableInv, LedgersOf, MemoryOf, Relisting, RecordOf
  <2>. QED  BY <2>1, <2>2, <2>3
<1>. QED  BY <1>3, <1>4, <1>5 DEF HistoryInv, DurableInv

(* The next record to replay is projected if PostgreSQL lacks it, and skipped
   otherwise. *)
LEMMA ReplayProjects ==
  ASSUME SInv, TablesSound(tables), NEW h, NEW p, DurableInv(h, p),
         phase = "replay", Unreplayed # <<>>,
         tables' = ApplyBatch(tables, Head(Unreplayed)), UNCHANGED <<log, snapshot>>
  PROVE  /\ TablesSound(tables') /\ tables' \in TablesType /\ IsHistory(h)'
         /\ \E q \in (mem.sequence + 1)..LastSequence : ProjectedTo(h, q)'
<1>. DEFINE i == mem.sequence - snapshot.sequence + 1
            r == log[i]
<1>1. tables' = ApplyBatch(tables, r) /\ i \in 1..Len(log) /\ r \in Record
  BY NextToReplay
<1>2. /\ snapshot.sequence \in Nat /\ Len(log) \in Nat /\ mem.sequence \in Nat
      /\ tables \in TablesType
  BY DEF SInv, TypeOK, LedgerType
<1>3. mem.sequence \in snapshot.sequence..p
  BY DEF DurableInv, LedgersOf
<1>4. p \in snapshot.sequence..LastSequence /\ p >= LastSequence - 1
      /\ LastSequence = snapshot.sequence + Len(log)
  BY DEF DurableInv, ProjectedTo, LastSequence
<1>. HIDE DEF r
<1>5. CASE mem.sequence < p
  <2>1. tables' = tables
    <3>1. snapshot.sequence + i <= p
      BY <1>1, <1>2, <1>3, <1>4, <1>5, ReplayPlace
    <3>2. IsHistory(h) /\ ProjectedTo(h, p)
      BY DEF DurableInv
    <3>. HIDE DEF i
    <3>3. ApplyBatch(tables, log[i]) = tables
      BY <1>1, <3>1, <3>2, RecordSkipped
    <3>. QED  BY <1>1, <3>3 DEF r
  <2>2. IsHistory(h)' /\ ProjectedTo(h, p)' /\ TablesSound(tables')
    BY <2>1 DEF DurableInv, IsHistory, ProjectedTo, LastSequence
  <2>3. p \in (mem.sequence + 1)..LastSequence
    BY <1>2, <1>3, <1>4, <1>5
  <2>. QED  BY <1>2, <2>1, <2>2, <2>3
<1>6. CASE ~(mem.sequence < p)
  <2>1. p < LastSequence /\ i = Len(log) /\ mem.sequence = p
    BY <1>1, <1>2, <1>3, <1>4, <1>6, ReplayPlace
  <2>2. tables' = ApplyBatch(tables, log[Len(log)])
    BY <1>1, <2>1 DEF r
  <2>3. /\ p + 1 = LastSequence /\ TablesSound(tables') /\ tables' \in TablesType
        /\ IsHistory(h)' /\ ProjectedTo(h, p + 1)'
    BY <2>1, <2>2, RecordProjected DEF DurableInv
  <2>4. p + 1 \in (mem.sequence + 1)..LastSequence
    BY <1>2, <1>3, <1>4, <2>1, <2>3
  <2>. QED  BY <2>3, <2>4
<1>. QED  BY <1>5, <1>6

(* replayFile takes one record. *)
LEMMA ReplayRecordHistory ==
  ASSUME SInv, HistoryInv, ReplayRecord
  PROVE  HistoryInv' /\ tables' \in TablesType /\ mem' \in LedgerType
<1>1. PICK h, p : DurableInv(h, p)
  BY DEF HistoryInv
<1>. DEFINE i == mem.sequence - snapshot.sequence + 1
<1>2. /\ phase = "replay" /\ Unreplayed # <<>>
      /\ tables' = ApplyBatch(tables, Head(Unreplayed))
      /\ mem' = Replayed(mem, log[i]) /\ i \in 1..Len(log) /\ log[i] \in Record
      /\ UNCHANGED <<log, snapshot, phase, failed, todo, op, frozen>>
  BY <1>1, NextToReplay DEF ReplayRecord, Replayed, handlers, connections, checkpoint
<1>3. /\ snapshot.sequence \in Nat /\ Len(log) \in Nat /\ mem.sequence \in Nat
      /\ mem \in LedgerType
  BY DEF SInv, TypeOK, LedgerType
<1>4. mem = h[i - 1]
  <2>1. mem = h[mem.sequence - snapshot.sequence]
    BY <1>1, <1>2 DEF DurableInv, LedgersOf
  <2>2. i - 1 = mem.sequence - snapshot.sequence
    BY <1>3
  <2>. QED  BY <2>1, <2>2
<1>5. log[i].seq = mem.sequence + 1 /\ h[i] = Replayed(h[i - 1], log[i])
  BY SMTT(30), <1>1, <1>2, <1>3 DEF DurableInv, IsHistory
<1>6. mem' = h[i] /\ mem'.sequence = mem.sequence + 1 /\ mem' \in LedgerType
  BY <1>2, <1>3, <1>4, <1>5, ReplayedLedger
<1>7. frozen = NoSnapshot /\ op = NoOp /\ StagedFor'
  BY <1>2 DEF SInv, PhaseInv, StagedFor
<1>8. /\ TablesSound(tables') /\ tables' \in TablesType /\ IsHistory(h)'
      /\ \E q \in (mem.sequence + 1)..LastSequence : ProjectedTo(h, q)'
  BY <1>1, <1>2, ReplayProjects DEF HistoryInv
<1>9. PICK q \in (mem.sequence + 1)..LastSequence : ProjectedTo(h, q)'
  BY <1>8
<1>10. mem'.sequence \in snapshot'.sequence..q /\ mem'.sequence - snapshot'.sequence = i
  <2>1. mem.sequence >= snapshot.sequence
    BY <1>2, <1>3
  <2>. QED  BY <1>2, <1>3, <1>6, <1>9, <2>1 DEF LastSequence
<1>11. LedgersOf(h, q)' /\ MemoryOf(h, q)'
  BY <1>2, <1>6, <1>7, <1>10 DEF LedgersOf, MemoryOf
<1>. QED  BY <1>6, <1>7, <1>8, <1>9, <1>11 DEF HistoryInv, DurableInv

(* Start-up that fails leaves the tables as they are, or with the record that
   was being replayed. *)
LEMMA StartupFailsHistory ==
  ASSUME SInv, HistoryInv, StartupFails
  PROVE  HistoryInv' /\ tables' \in TablesType
<1>1. Exit /\ UNCHANGED <<log, snapshot>>
  BY DEF StartupFails
<1>2. CASE tables' = tables
  BY <1>1, <1>2, ExitHistory, DurableUnchanged DEF SInv, TypeOK, durable
<1>3. CASE tables' # tables
  <2>1. phase = "replay" /\ Unreplayed # <<>> /\ tables' = ApplyBatch(tables, Head(Unreplayed))
    BY <1>3 DEF StartupFails
  <2>2. PICK h, p : DurableInv(h, p)
    BY DEF HistoryInv
  <2>3. /\ TablesSound(tables') /\ tables' \in TablesType /\ IsHistory(h)'
        /\ \E q \in (mem.sequence + 1)..LastSequence : ProjectedTo(h, q)'
    BY <1>1, <2>1, <2>2, ReplayProjects DEF HistoryInv
  <2>4. Durable'
    BY <2>3 DEF Durable
  <2>. QED  BY <1>1, <2>3, <2>4, ExitHistory
<1>. QED  BY <1>2, <1>3

(* When replay is done PostgreSQL has every record, and memory only forgets
   engine ids. *)
LEMMA ReplayDoneHistory ==
  ASSUME SInv, HistoryInv, ReplayDone
  PROVE  HistoryInv' /\ SInv'
<1>1. PICK h, p : DurableInv(h, p)
  BY DEF HistoryInv
<1>2. /\ phase = "replay" /\ phase' = "recover" /\ mem.sequence = LastSequence
      /\ todo' = {id \in OrderIds : Active(mem.orders[id])}
      /\ UNCHANGED <<log, snapshot, tables, failed, op, frozen>>
  BY <1>1, NextToReplay DEF ReplayDone, durable, checkpoint
<1>3. /\ snapshot.sequence \in Nat /\ Len(log) \in Nat /\ mem.sequence \in Nat
      /\ mem \in LedgerType /\ tables \in TablesType
  BY DEF SInv, TypeOK, LedgerType
<1>4. p = LastSequence /\ mem = h[p - snapshot.sequence] /\ mem.sequence = p
  <2>1. mem.sequence \in snapshot.sequence..p /\ mem = h[mem.sequence - snapshot.sequence]
    BY <1>1, <1>2 DEF DurableInv, LedgersOf
  <2>2. p \in snapshot.sequence..LastSequence
    BY <1>1 DEF DurableInv, ProjectedTo
  <2>. QED  BY <1>2, <1>3, <2>1, <2>2 DEF LastSequence
<1>. DEFINE orders == [id \in OrderIds |-> IF Active(mem.orders[id])
                         THEN [mem.orders[id] EXCEPT !.eid = 0] ELSE mem.orders[id]]
<1>5. mem' = [mem EXCEPT !.orders = orders]
  BY DEF ReplayDone
<1>6. orders \in [OrderIds -> Order \cup {NoOrder}]
  <2>1. ASSUME NEW id \in OrderIds
        PROVE  (IF Active(mem.orders[id]) THEN [mem.orders[id] EXCEPT !.eid = 0]
                ELSE mem.orders[id]) \in Order \cup {NoOrder}
    BY <1>3 DEF LedgerType, Order, Active
  <2>. QED  BY <2>1
<1>7. \A id \in OrderIds : orders[id] = IF id \in todo' THEN [mem.orders[id] EXCEPT !.eid = 0]
                                        ELSE mem.orders[id]
  BY <1>2
<1>. HIDE DEF orders
<1>8. /\ mem' \in LedgerType /\ mem'.orders = orders /\ mem'.markets = mem.markets
      /\ mem'.cash = mem.cash /\ mem'.pos = mem.pos /\ mem'.deposited = mem.deposited
      /\ mem'.sequence = mem.sequence
  BY <1>3, <1>5, <1>6 DEF LedgerType
<1>9. op = NoOp /\ frozen = NoSnapshot /\ ~failed
  BY <1>2 DEF SInv, PhaseInv
<1>10. Mirrors(tables, mem)
  BY <1>1, <1>4 DEF DurableInv, ProjectedTo
<1>11. \A id \in todo' : tables.orders[id] # NoOrder
  BY <1>2, <1>10 DEF Mirrors, Active
<1>12. MemoryOf(h, p)'
  <2>1. LastSequence' = LastSequence /\ ~Relisting(NoOrder)' /\ op' = NoOp
    BY <1>2, <1>9 DEF LastSequence, Relisting
  <2>2. \A id \in OrderIds : mem'.orders[id] = IF id \in todo' \/ Relisting(id)'
                               THEN [tables'.orders[id] EXCEPT !.eid = 0]
                               ELSE tables'.orders[id]
    BY <1>2, <1>7, <1>8, <1>10, <2>1 DEF Mirrors, Relisting
  <2>3. \A id \in OrderIds : id \in todo' \/ Relisting(id)' => tables'.orders[id] # NoOrder
    BY <1>2, <1>11, <2>1 DEF Relisting
  <2>. QED  BY <1>2, <1>4, <1>8, <1>10, <2>1, <2>2, <2>3 DEF MemoryOf, Mirrors
<1>13. IsHistory(h)' /\ ProjectedTo(h, p)' /\ LedgersOf(h, p)'
  BY <1>1, <1>2, <1>9 DEF DurableInv, IsHistory, ProjectedTo, LastSequence, LedgersOf
<1>14. TablesSound(tables') /\ StagedFor'
  BY <1>2, <1>9 DEF HistoryInv, StagedFor
<1>15. SInv'
  BY <1>2, <1>8, <1>9 DEF SInv, TypeOK, PhaseInv, HookInv, OpInv, ReplayDone, access, handlers,
     connections, checkpoint
<1>. QED  BY <1>12, <1>13, <1>14, <1>15 DEF HistoryInv, DurableInv

(* An operation that goes to its commit has staged a change made for the
   tables; one that ends here has staged none. *)
LEMMA OperationHistory ==
  ASSUME SInv, HistoryInv, phase \in {"recover", "serve"}, ~failed,
         op = NoOp \/ op.step = "engine",
         \/ op' = NoOp
         \/ op'.step = "append" /\ MadeFor(tables, op'.change, op'.trades),
         UNCHANGED <<durable, phase, mem, failed, frozen>>,
         \A id \in OrderIds : (id \in todo' \/ Relisting(id)') <=> (id \in todo \/ Relisting(id))
  PROVE  HistoryInv'
<1>1. PICK h, p : DurableInv(h, p)
  BY DEF HistoryInv
<1>2. UNCHANGED <<log, snapshot, tables>> /\ LastSequence' = LastSequence
  BY DEF durable, LastSequence
<1>3. IsHistory(h)' /\ ProjectedTo(h, p)' /\ LedgersOf(h, p)'
  BY <1>1, <1>2 DEF DurableInv, IsHistory, ProjectedTo, LedgersOf
<1>4. MemoryOf(h, p)'
  <2>1. p = LastSequence
    BY <1>1 DEF DurableInv, MemoryOf
  <2>2. ~(op' # NoOp /\ op'.step = "project")
    OBVIOUS
  <2>3. \A id \in OrderIds : mem'.orders[id] = IF id \in todo' \/ Relisting(id)'
                               THEN [tables'.orders[id] EXCEPT !.eid = 0]
                               ELSE tables'.orders[id]
    BY <1>1, <1>2 DEF DurableInv, MemoryOf
  <2>4. \A id \in OrderIds : id \in todo' \/ Relisting(id)' => tables'.orders[id] # NoOrder
    BY <1>1, <1>2 DEF DurableInv, MemoryOf
  <2>. QED  BY <1>1, <1>2, <2>1, <2>2, <2>3, <2>4 DEF DurableInv, MemoryOf
<1>5. TablesSound(tables') /\ StagedFor'
  BY <1>2 DEF HistoryInv, StagedFor
<1>. QED  BY <1>3, <1>4, <1>5 DEF HistoryInv, DurableInv

(* An operation that is about to append: its record and where it goes. *)
LEMMA AppendFacts ==
  ASSUME SInv, HistoryInv, op # NoOp, op.step = "append", NEW h, NEW p, DurableInv(h, p)
  PROVE  /\ p = LastSequence /\ mem.sequence = LastSequence
         /\ RecordOf(mem.sequence + 1) \in Record
         /\ RecordOf(mem.sequence + 1).seq = LastSequence + 1
         /\ MadeFor(tables, RecordOf(mem.sequence + 1).change, RecordOf(mem.sequence + 1).trades)
         /\ phase \in {"recover", "serve"} /\ ~failed
<1>1. phase \in {"recover", "serve"} /\ ~failed /\ op \in OperationType
  BY DEF SInv, TypeOK, PhaseInv
<1>2. p = LastSequence /\ mem.sequence = LastSequence
  BY <1>1 DEF DurableInv, MemoryOf
<1>3. mem.sequence + 1 \in Nat \ {0}
  BY DEF SInv, TypeOK, LedgerType
<1>4. MadeFor(tables, op.change, op.trades)
  BY DEF HistoryInv, StagedFor
<1>. QED  BY <1>1, <1>2, <1>3, <1>4, RecordOfType

(* appendMany: the history grows by a record that PostgreSQL still lacks. *)
LEMMA AppendHistory ==
  ASSUME SInv, HistoryInv, AppendRecord
  PROVE  HistoryInv'
<1>1. PICK h, p : DurableInv(h, p)
  BY DEF HistoryInv
<1>. DEFINE r == RecordOf(mem.sequence + 1)
<1>2. /\ op # NoOp /\ op.step = "append" /\ op \in OperationType
      /\ log' = Append(log, r) /\ mem' = [mem EXCEPT !.sequence = mem.sequence + 1]
      /\ op' = [op EXCEPT !.step = "project"]
      /\ UNCHANGED <<snapshot, tables, phase, failed, todo, frozen>>
  BY DEF AppendRecord, checkpoint, SInv, TypeOK
<1>3. /\ p = LastSequence /\ mem.sequence = LastSequence
      /\ r \in Record /\ r.seq = LastSequence + 1 /\ MadeFor(tables, r.change, r.trades)
      /\ phase \in {"recover", "serve"} /\ ~failed
  BY <1>1, <1>2, AppendFacts
<1>5. /\ op' \in OperationType /\ op'.step = "project" /\ op'.kind = op.kind /\ op'.id = op.id
      /\ op'.change = op.change /\ op'.trades = op.trades
  BY <1>2 DEF OperationType
<1>6. /\ mem'.sequence = mem.sequence + 1 /\ mem'.markets = mem.markets
      /\ mem'.orders = mem.orders /\ mem'.cash = mem.cash /\ mem'.pos = mem.pos
      /\ mem'.deposited = mem.deposited
  BY <1>2, SequenceMoved DEF SInv, TypeOK, LedgerType
<1>7. RecordOf(mem.sequence)' = r
  BY <1>5, <1>6 DEF RecordOf
<1>. HIDE DEF r
<1>8. /\ LastSequence' = LastSequence + 1 /\ log'[Len(log')] = r
      /\ \E g : /\ IsHistory(g)' /\ ProjectedTo(g, p)'
                /\ \A i \in 0..Len(log) : g[i] = h[i]
  BY <1>1, <1>2, <1>3, RecordLogged DEF DurableInv
<1>9. PICK g : /\ IsHistory(g)' /\ ProjectedTo(g, p)' /\ \A i \in 0..Len(log) : g[i] = h[i]
  BY <1>8
<1>10. snapshot.sequence \in Nat /\ Len(log) \in Nat /\ LastSequence = snapshot.sequence + Len(log)
  BY DEF SInv, TypeOK, LedgerType, LastSequence
<1>11. g[p - snapshot.sequence] = h[p - snapshot.sequence]
  BY <1>3, <1>9, <1>10
<1>12. LedgersOf(g, p)'
  <2>1. ASSUME frozen # NoSnapshot
        PROVE  /\ frozen.sequence \in snapshot.sequence..p
               /\ frozen = g[frozen.sequence - snapshot.sequence]
    <3>1. /\ frozen.sequence \in snapshot.sequence..p
          /\ frozen = h[frozen.sequence - snapshot.sequence]
      BY <1>1, <2>1 DEF DurableInv, LedgersOf
    <3>2. frozen.sequence - snapshot.sequence \in 0..Len(log)
      BY <1>3, <1>10, <3>1
    <3>. QED  BY <1>9, <3>1, <3>2
  <2>. QED  BY <1>2, <1>3, <2>1 DEF LedgersOf
<1>13. MemoryOf(g, p)'
  <2>1. \A id \in OrderIds : Relisting(id)' <=> Relisting(id)
    BY <1>2, <1>5, ServerAssumption DEF Relisting
  <2>2. p < LastSequence'
    BY <1>3, <1>8, <1>10
  <2>3. \A id \in OrderIds : mem'.orders[id] = IF id \in todo' \/ Relisting(id)'
                               THEN [tables'.orders[id] EXCEPT !.eid = 0]
                               ELSE tables'.orders[id]
    BY <1>1, <1>2, <1>3, <1>6, <2>1 DEF DurableInv, MemoryOf
  <2>4. \A id \in OrderIds : id \in todo' \/ Relisting(id)' => tables'.orders[id] # NoOrder
    BY <1>1, <1>2, <1>3, <2>1 DEF DurableInv, MemoryOf
  <2>5. /\ mem.markets = tables.markets /\ mem.cash = tables.balances
        /\ mem.pos = tables.positions
        /\ mem.deposited = h[p - snapshot.sequence].deposited
    BY <1>1, <1>3 DEF DurableInv, MemoryOf
  <2>. QED
    BY <1>2, <1>3, <1>5, <1>6, <1>7, <1>8, <1>11, <2>2, <2>3, <2>4, <2>5, ServerAssumption
       DEF MemoryOf
<1>14. TablesSound(tables') /\ StagedFor'
  BY <1>2, <1>5 DEF HistoryInv, StagedFor
<1>. QED  BY <1>9, <1>12, <1>13, <1>14 DEF HistoryInv, DurableInv

(* A failed commit leaves whatever of the record is durable behind. *)
LEMMA FailHistory ==
  ASSUME SInv, op # NoOp, NEW n, Fail(n), NEW g, NEW q, IsHistory(g)', ProjectedTo(g, q)',
         TablesSound(tables'), snapshot' = snapshot,
         frozen # NoSnapshot => /\ frozen.sequence \in snapshot.sequence..q
                                /\ frozen = g[frozen.sequence - snapshot.sequence]
  PROVE  HistoryInv'
<1>1. CASE phase = "recover"
  BY <1>1, ExitHistory DEF Fail, Durable
<1>2. CASE phase # "recover"
  <2>1. failed' = TRUE /\ op' = NoOp /\ UNCHANGED <<phase, frozen>> /\ phase = "serve"
    BY <1>2 DEF Fail, checkpoint, SInv, TypeOK, PhaseInv
  <2>2. LedgersOf(g, q)' /\ MemoryOf(g, q)' /\ StagedFor'
    BY <2>1 DEF LedgersOf, MemoryOf, StagedFor
  <2>. QED  BY <2>2 DEF HistoryInv, DurableInv
<1>. QED  BY <1>1, <1>2

(* A failed append leaves the history as it was, or with the record. *)
LEMMA AppendFailsHistory ==
  ASSUME SInv, HistoryInv, AppendFails
  PROVE  HistoryInv'
<1>1. PICK h, p : DurableInv(h, p)
  BY DEF HistoryInv
<1>. DEFINE r == RecordOf(mem.sequence + 1)
<1>2. /\ op # NoOp /\ op.step = "append" /\ Fail(mem.sequence + 1)
      /\ UNCHANGED <<snapshot, tables>>
  BY DEF AppendFails
<1>3. /\ p = LastSequence
      /\ r \in Record /\ r.seq = LastSequence + 1 /\ MadeFor(tables, r.change, r.trades)
  BY <1>1, <1>2, AppendFacts
<1>4. TablesSound(tables')
  BY <1>2 DEF HistoryInv
<1>5. frozen # NoSnapshot => /\ frozen.sequence \in snapshot.sequence..p
                             /\ frozen = h[frozen.sequence - snapshot.sequence]
  BY <1>1 DEF DurableInv, LedgersOf
<1>6. CASE log' = log
  <2>1. IsHistory(h)' /\ ProjectedTo(h, p)'
    BY <1>1, <1>2, <1>6 DEF DurableInv, IsHistory, ProjectedTo, LastSequence
  <2>. QED  BY <1>2, <1>4, <1>5, <2>1, FailHistory
<1>. HIDE DEF r
<1>7. CASE log' = Append(log, r)
  <2>1. PICK g : /\ IsHistory(g)' /\ ProjectedTo(g, p)' /\ \A i \in 0..Len(log) : g[i] = h[i]
    BY <1>1, <1>2, <1>3, <1>7, RecordLogged DEF DurableInv
  <2>2. snapshot.sequence \in Nat /\ Len(log) \in Nat /\ LastSequence = snapshot.sequence + Len(log)
    BY DEF SInv, TypeOK, LedgerType, LastSequence
  <2>3. frozen # NoSnapshot => frozen.sequence - snapshot.sequence \in 0..Len(log)
    BY <1>3, <1>5, <2>2
  <2>4. frozen # NoSnapshot => /\ frozen.sequence \in snapshot.sequence..p
                               /\ frozen = g[frozen.sequence - snapshot.sequence]
    BY <1>5, <2>1, <2>3
  <2>. QED  BY <1>2, <1>4, <2>1, <2>4, FailHistory
<1>. QED  BY <1>6, <1>7 DEF AppendFails, r

(* The tables are not touched by a failure of the engine or a transaction that
   PostgreSQL refuses. *)
LEMMA RefusedHistory ==
  ASSUME SInv, HistoryInv, ProjectRefused \/ EngineFails
  PROVE  HistoryInv'
<1>1. PICK h, p : DurableInv(h, p)
  BY DEF HistoryInv
<1>2. op # NoOp /\ Fail(mem.sequence) /\ UNCHANGED <<log, snapshot, tables>>
  BY DEF ProjectRefused, EngineFails, durable
<1>3. IsHistory(h)' /\ ProjectedTo(h, p)' /\ TablesSound(tables')
  BY <1>1, <1>2 DEF HistoryInv, DurableInv, IsHistory, ProjectedTo, LastSequence
<1>4. frozen # NoSnapshot => /\ frozen.sequence \in snapshot.sequence..p
                             /\ frozen = h[frozen.sequence - snapshot.sequence]
  BY <1>1 DEF DurableInv, LedgersOf
<1>. QED  BY <1>2, <1>3, <1>4, FailHistory

(* An operation that is about to be projected: its record is the last one, and
   the one PostgreSQL lacks. *)
LEMMA ProjectFacts ==
  ASSUME SInv, HistoryInv, op # NoOp, op.step = "project", NEW h, NEW p, DurableInv(h, p)
  PROVE  /\ p < LastSequence /\ log[Len(log)] = RecordOf(mem.sequence)
         /\ phase \in {"recover", "serve"} /\ ~failed /\ op \in OperationType
         /\ mem.sequence = LastSequence /\ mem.sequence \in Nat \ {0}
<1>1. phase \in {"recover", "serve"} /\ ~failed /\ op \in OperationType
  BY DEF SInv, TypeOK, PhaseInv
<1>2. /\ p < LastSequence /\ log[Len(log)] = RecordOf(mem.sequence)
      /\ mem.sequence = LastSequence
  BY <1>1 DEF DurableInv, MemoryOf
<1>3. p \in snapshot.sequence..LastSequence
  BY DEF DurableInv, ProjectedTo
<1>4. snapshot.sequence \in Nat /\ mem.sequence \in Nat
  BY DEF SInv, TypeOK, LedgerType
<1>. QED  BY <1>1, <1>2, <1>3, <1>4

(* A broken connection leaves PostgreSQL with the record or without it. *)
LEMMA ProjectFailsHistory ==
  ASSUME SInv, HistoryInv, ProjectFails
  PROVE  HistoryInv'
<1>1. PICK h, p : DurableInv(h, p)
  BY DEF HistoryInv
<1>2. op # NoOp /\ op.step = "project" /\ Fail(mem.sequence) /\ UNCHANGED <<log, snapshot>>
  BY DEF ProjectFails
<1>3. p < LastSequence /\ log[Len(log)] = RecordOf(mem.sequence)
  BY <1>1, <1>2, ProjectFacts
<1>4. frozen # NoSnapshot => /\ frozen.sequence \in snapshot.sequence..p
                             /\ frozen = h[frozen.sequence - snapshot.sequence]
  BY <1>1 DEF DurableInv, LedgersOf
<1>5. CASE tables' = tables
  <2>1. IsHistory(h)' /\ ProjectedTo(h, p)' /\ TablesSound(tables')
    BY <1>1, <1>2, <1>5 DEF HistoryInv, DurableInv, IsHistory, ProjectedTo, LastSequence
  <2>. QED  BY <1>2, <1>4, <2>1, FailHistory
<1>6. CASE tables' = ApplyBatch(tables, log[Len(log)])
  <2>1. TablesSound(tables') /\ IsHistory(h)' /\ ProjectedTo(h, p + 1)'
    BY <1>1, <1>2, <1>3, <1>6, RecordProjected DEF HistoryInv, DurableInv
  <2>2. p \in Int /\ snapshot.sequence \in Int
    BY <1>1 DEF DurableInv, ProjectedTo, SInv, TypeOK, LedgerType
  <2>3. frozen # NoSnapshot => frozen.sequence \in snapshot.sequence..(p + 1)
    BY <1>4, <2>2
  <2>. QED  BY <1>2, <1>4, <2>1, <2>3, FailHistory
<1>. QED  BY <1>3, <1>5, <1>6 DEF ProjectFails

(* The commit is complete: memory follows the tables. *)
LEMMA ProjectHistory ==
  ASSUME SInv, HistoryInv, ProjectRecord
  PROVE  HistoryInv'
<1>1. PICK h, p : DurableInv(h, p)
  BY DEF HistoryInv
<1>. DEFINE r == log[Len(log)]
            n == Len(log)
            c == op.change
<1>2. /\ op # NoOp /\ op.step = "project"
      /\ tables' = ApplyBatch(tables, RecordOf(mem.sequence)) /\ mem' = Apply(mem, c)
      /\ UNCHANGED <<log, snapshot, phase, failed, todo, frozen>>
      /\ op' # NoOp => op'.step = "engine" /\ op'.kind \in {"complete", "refill"}
  <2>1. /\ op # NoOp /\ op.step = "project"
        /\ tables' = ApplyBatch(tables, RecordOf(mem.sequence)) /\ mem' = Apply(mem, c)
        /\ UNCHANGED <<log, snapshot, phase, failed, todo, frozen>>
    BY DEF ProjectRecord, checkpoint
  <2>2. \/ op' = NoOp
        \/ op' = [op EXCEPT !.kind = "complete", !.step = "engine"]
        \/ op' = [op EXCEPT !.kind = "refill", !.step = "engine"]
    BY DEF ProjectRecord, AfterCommit
  <2>3. op \in OperationType
    BY <2>1 DEF SInv, TypeOK
  <2>. QED  BY <2>1, <2>2, <2>3 DEF OperationType
<1>3. /\ p < LastSequence /\ r = RecordOf(mem.sequence)
      /\ phase \in {"recover", "serve"} /\ ~failed /\ op \in OperationType
      /\ mem.sequence = LastSequence /\ mem.sequence \in Nat \ {0}
  BY <1>1, <1>2, ProjectFacts
<1>4. r \in Record /\ r.change = c /\ c \in LedgerType
  BY <1>3, RecordOfType DEF OperationType
<1>5. /\ p + 1 = LastSequence /\ TablesSound(tables') /\ IsHistory(h)' /\ ProjectedTo(h, p + 1)'
      /\ LastSequence' = LastSequence
  BY <1>1, <1>2, <1>3, RecordProjected DEF HistoryInv, DurableInv
<1>6. /\ snapshot.sequence \in Nat /\ n \in Nat /\ LastSequence = snapshot.sequence + n
      /\ mem \in LedgerType /\ p \in snapshot.sequence..LastSequence
  BY <1>1 DEF SInv, TypeOK, LedgerType, LastSequence, DurableInv, ProjectedTo
<1>7. n >= 1 /\ p - snapshot.sequence = n - 1 /\ (p + 1) - snapshot.sequence = n
  BY <1>5, <1>6
<1>8. h[n - 1] \in LedgerType /\ h[n] = Replayed(h[n - 1], r)
  <2>1. n \in 1..Len(log) /\ n - 1 \in 0..Len(log)
    BY <1>6, <1>7
  <2>. QED  BY <1>1, <2>1 DEF DurableInv, IsHistory
<1>9. Mirrors(tables, h[n - 1]) /\ Mirrors(tables', h[n])
  BY <1>1, <1>2, <1>5, <1>7 DEF DurableInv, ProjectedTo
<1>10. MadeFor(tables, c, r.trades)
  BY <1>1, <1>3, <1>4 DEF DurableInv, ProjectedTo
<1>. HIDE DEF r, n, c
<1>11. LET a == Apply(h[n - 1], c) IN
       /\ h[n].markets = a.markets /\ h[n].orders = a.orders /\ h[n].cash = a.cash
       /\ h[n].pos = a.pos /\ h[n].deposited = a.deposited
  BY <1>4, <1>8, ReplayedLedger
<1>12. /\ mem.markets = h[n - 1].markets /\ mem.cash = h[n - 1].cash /\ mem.pos = h[n - 1].pos
       /\ mem.deposited = h[n - 1].deposited
  BY <1>1, <1>3, <1>7, <1>9 DEF DurableInv, MemoryOf, Mirrors
<1>13. /\ mem'.markets = h[n].markets /\ mem'.cash = h[n].cash /\ mem'.pos = h[n].pos
       /\ mem'.deposited = h[n].deposited
  BY <1>2, <1>11, <1>12 DEF Apply
<1>14. mem'.sequence = LastSequence
  <2>1. c.sequence = 0
    BY <1>10 DEF MadeFor
  <2>. QED  BY <1>2, <1>3, <2>1 DEF Apply
<1>15. ASSUME NEW id \in OrderIds
       PROVE  /\ ~Relisting(id)'
              /\ mem'.orders[id] = IF id \in todo' THEN [tables'.orders[id] EXCEPT !.eid = 0]
                                   ELSE tables'.orders[id]
              /\ id \in todo' => tables'.orders[id] # NoOrder
  <2>1. ~Relisting(id)'
    BY <1>2 DEF Relisting
  <2>2. mem'.orders[id] = IF c.orders[id] = NoOrder THEN mem.orders[id] ELSE c.orders[id]
    BY <1>2, <1>4, <1>6, ApplyLedger
  <2>3. tables'.orders[id] = IF c.orders[id] = NoOrder THEN tables.orders[id] ELSE c.orders[id]
    BY <1>4, <1>8, <1>9, <1>11, ApplyLedger DEF Mirrors
  <2>4. /\ mem.orders[id] = IF id \in todo \/ Relisting(id)
                            THEN [tables.orders[id] EXCEPT !.eid = 0] ELSE tables.orders[id]
        /\ id \in todo => tables.orders[id] # NoOrder
    BY <1>1, <1>3 DEF DurableInv, MemoryOf
  <2>5. Relisting(id) => c.orders[id] # NoOrder
    BY DEF SInv, OpInv, Relisting, c
  <2>6. id \in todo => c.orders[id] = NoOrder
    BY <1>2 DEF SInv, OpInv, c
  <2>. QED  BY <1>2, <2>1, <2>2, <2>3, <2>4, <2>5, <2>6
<1>16. MemoryOf(h, p + 1)'
  <2>1. ~(op' # NoOp /\ op'.step = "project")
    BY <1>2
  <2>2. (p + 1) - snapshot'.sequence = n
    BY <1>2, <1>7
  <2>. QED
    BY <1>2, <1>5, <1>9, <1>13, <1>14, <1>15, <2>1, <2>2 DEF MemoryOf, Mirrors
<1>17. LedgersOf(h, p + 1)'
  <2>1. frozen # NoSnapshot => /\ frozen.sequence \in snapshot.sequence..p
                               /\ frozen = h[frozen.sequence - snapshot.sequence]
    BY <1>1 DEF DurableInv, LedgersOf
  <2>2. frozen # NoSnapshot => frozen.sequence \in snapshot.sequence..(p + 1)
    BY <1>6, <2>1
  <2>. QED  BY <1>2, <1>3, <2>1, <2>2 DEF LedgersOf
<1>18. StagedFor'
  BY <1>2 DEF StagedFor
<1>. QED  BY <1>5, <1>16, <1>17, <1>18 DEF HistoryInv, DurableInv

(* A checkpoint freezes the ledger the last record left. *)
LEMMA FreezeHistory ==
  ASSUME SInv, HistoryInv, Freeze
  PROVE  HistoryInv'
<1>1. PICK h, p : DurableInv(h, p)
  BY DEF HistoryInv
<1>2. /\ phase = "serve" /\ op = NoOp /\ ~failed /\ frozen' = mem
      /\ UNCHANGED <<log, snapshot, tables, mem, op, todo, phase, failed>>
  BY DEF Freeze, CanFreeze, durable
<1>3. /\ snapshot.sequence \in Nat /\ Len(log) \in Nat /\ LastSequence = snapshot.sequence + Len(log)
      /\ mem \in LedgerType
  BY DEF SInv, TypeOK, LedgerType, LastSequence
<1>4. /\ mem.sequence = LastSequence /\ p = LastSequence /\ todo = {}
      /\ \A id \in OrderIds : ~Relisting(id)
  BY <1>1, <1>2 DEF DurableInv, MemoryOf, SInv, PhaseInv, Relisting
<1>5. p - snapshot.sequence = Len(log)
  BY <1>3, <1>4
<1>. DEFINE l == h[Len(log)]
<1>6. l \in LedgerType /\ l.sequence = LastSequence /\ Mirrors(tables, l)
  <2>1. Len(log) \in 0..Len(log)
    BY <1>3
  <2>2. Mirrors(tables, l)
    BY <1>1, <1>5 DEF DurableInv, ProjectedTo
  <2>. QED  BY <1>1, <1>3, <2>1, <2>2, HistorySequences DEF DurableInv
<1>7. /\ mem.markets = l.markets /\ mem.cash = l.cash /\ mem.pos = l.pos
      /\ mem.deposited = l.deposited /\ mem.sequence = l.sequence
  BY <1>1, <1>2, <1>4, <1>5, <1>6 DEF DurableInv, MemoryOf, Mirrors
<1>8. mem.orders = l.orders
  <2>1. \A id \in OrderIds : mem.orders[id] = l.orders[id]
    BY <1>1, <1>2, <1>4, <1>6 DEF DurableInv, MemoryOf, Mirrors
  <2>. HIDE DEF l
  <2>. QED  BY <1>3, <1>6, <2>1 DEF LedgerType
<1>9. mem = l
  <2>. HIDE DEF l
  <2>. QED  BY <1>3, <1>6, <1>7, <1>8 DEF LedgerType
<1>10. LedgersOf(h, p)'
  <2>1. frozen'.sequence \in snapshot'.sequence..p /\ frozen'.sequence - snapshot'.sequence = Len(log)
    BY <1>2, <1>3, <1>4, <1>5
  <2>. QED  BY <1>2, <1>9, <2>1 DEF LedgersOf
<1>11. IsHistory(h)' /\ ProjectedTo(h, p)' /\ MemoryOf(h, p)'
  BY <1>1, <1>2 DEF DurableInv, IsHistory, ProjectedTo, MemoryOf, LastSequence, Relisting, RecordOf
<1>12. TablesSound(tables') /\ StagedFor'
  BY <1>2 DEF HistoryInv, StagedFor
<1>. QED  BY <1>10, <1>11, <1>12 DEF HistoryInv, DurableInv

(* A checkpoint that fails leaves no trace. *)
LEMMA CheckpointFailsHistory ==
  ASSUME SInv, HistoryInv, CheckpointFails
  PROVE  HistoryInv'
<1>1. PICK h, p : DurableInv(h, p)
  BY DEF HistoryInv
<1>2. frozen' = NoSnapshot /\ UNCHANGED <<log, snapshot, tables, mem, op, todo, phase, failed>>
  BY DEF CheckpointFails, CheckpointEnds
<1>3. DurableInv(h, p)'
  BY <1>1, <1>2 DEF DurableInv, IsHistory, ProjectedTo, LedgersOf, MemoryOf, LastSequence,
     Relisting, RecordOf
<1>4. TablesSound(tables') /\ StagedFor'
  BY <1>2 DEF HistoryInv, StagedFor
<1>. QED  BY <1>3, <1>4 DEF HistoryInv

(* A published snapshot takes the place of the records it covers: the history
   loses its beginning and nothing else. *)
LEMMA PublishHistory ==
  ASSUME SInv, HistoryInv, Publish
  PROVE  HistoryInv' /\ log' \in Seq(Record)
<1>1. PICK h, p : DurableInv(h, p)
  BY DEF HistoryInv
<1>2. /\ frozen # NoSnapshot /\ snapshot' = frozen /\ frozen' = NoSnapshot
      /\ log' = RecordsAfter(log, frozen.sequence)
      /\ UNCHANGED <<tables, mem, op, todo, phase, failed>>
  BY DEF Publish, CheckpointEnds
<1>. DEFINE n == frozen.sequence
            b == snapshot.sequence
<1>3. /\ b \in Nat /\ Len(log) \in Nat /\ LastSequence = b + Len(log) /\ log \in Seq(Record)
      /\ phase = "serve"
  BY <1>2 DEF SInv, TypeOK, LedgerType, LastSequence, PhaseInv
<1>4. /\ n \in b..p /\ frozen = h[n - b]
      /\ p \in b..LastSequence /\ p >= LastSequence - 1
  BY <1>1, <1>2 DEF DurableInv, LedgersOf, ProjectedTo
<1>5. n \in b..LastSequence
  BY <1>3, <1>4
<1>6. /\ log' \in Seq(Record) /\ Len(log') = LastSequence - n
      /\ \A j \in 1..(LastSequence - n) : log'[j] = log[(n - b) + j]
  BY <1>1, <1>2, <1>5, TailOfLog DEF DurableInv
<1>. HIDE DEF n, b
<1>7. n \in Nat /\ b \in Nat /\ LastSequence - n \in Nat /\ n - b \in Nat
      /\ (n - b) + (LastSequence - n) = Len(log)
  BY <1>3, <1>5
<1>8. LastSequence' = LastSequence
  <2>1. LastSequence' = n + (LastSequence - n)
    <3>1. LastSequence' = snapshot'.sequence + Len(log')
      BY DEF LastSequence
    <3>. QED  BY <1>2, <1>6, <3>1 DEF n
  <2>. QED  BY <1>3, <1>7, <2>1
<1>9. PICK g : g = [i \in 0..(LastSequence - n) |-> h[(n - b) + i]]
  OBVIOUS
<1>10. \A i \in 0..(LastSequence - n) : (n - b) + i \in 0..Len(log) /\ g[i] = h[(n - b) + i]
  BY <1>7, <1>9
<1>11. \A i \in 0..Len(log) : h[i] \in LedgerType
  BY <1>1 DEF DurableInv, IsHistory
<1>12. IsHistory(g)'
  <2>1. g \in [0..Len(log') -> LedgerType]
    BY <1>6, <1>9, <1>10, <1>11
  <2>2. g[0] = snapshot'
    <3>1. g[0] = h[(n - b) + 0] /\ (n - b) + 0 = n - b
      BY <1>7, <1>10
    <3>. QED  BY <1>2, <1>4, <3>1
  <2>3. ASSUME NEW i \in 1..Len(log')
        PROVE  log'[i].seq = snapshot'.sequence + i /\ g[i] = Replayed(g[i - 1], log'[i])
    <3>. DEFINE k == (n - b) + i
    <3>1. /\ k \in 1..Len(log) /\ i \in 1..(LastSequence - n)
          /\ i \in 0..(LastSequence - n) /\ i - 1 \in 0..(LastSequence - n)
          /\ (n - b) + (i - 1) = k - 1 /\ b + k = n + i
      BY <1>6, <1>7
    <3>2. log'[i] = log[k] /\ g[i] = h[k] /\ g[i - 1] = h[k - 1]
      BY <1>6, <1>10, <3>1
    <3>3. log[k].seq = b + k /\ h[k] = Replayed(h[k - 1], log[k])
      BY <1>1, <3>1 DEF DurableInv, IsHistory, b
    <3>. HIDE DEF k
    <3>4. log'[i].seq = snapshot'.sequence + i
      BY <1>2, <3>1, <3>2, <3>3 DEF n
    <3>. QED  BY <3>2, <3>3, <3>4
  <2>. QED  BY <2>1, <2>2, <2>3 DEF IsHistory
<1>13. g[p - n] = h[p - b]
  <2>1. p - n \in 0..(LastSequence - n) /\ (n - b) + (p - n) = p - b
    BY <1>3, <1>4, <1>7
  <2>. QED  BY <1>10, <2>1
<1>14. snapshot'.sequence = n
  BY <1>2 DEF n
<1>15. p < LastSequence => log'[Len(log')] = log[Len(log)]
  <2>1. p < LastSequence => LastSequence - n \in 1..(LastSequence - n)
    BY <1>3, <1>4, <1>7
  <2>. QED  BY <1>6, <1>7, <2>1
<1>16. ProjectedTo(g, p)'
  <2>1. p \in n..LastSequence
    BY <1>3, <1>4, <1>7
  <2>2. Mirrors(tables, g[p - n])
    BY <1>1, <1>13 DEF DurableInv, ProjectedTo, b
  <2>3. p < LastSequence => MadeFor(tables, log[Len(log)].change, log[Len(log)].trades)
    BY <1>1 DEF DurableInv, ProjectedTo
  <2>4. tables.order_events = 1..p
    BY <1>1 DEF DurableInv, ProjectedTo
  <2>. QED  BY <1>2, <1>4, <1>8, <1>14, <1>15, <2>1, <2>2, <2>3, <2>4 DEF ProjectedTo
<1>17. LedgersOf(g, p)'
  BY <1>2, <1>3 DEF LedgersOf
<1>18. MemoryOf(g, p)'
  <2>1. h[p - b].deposited = g[p - snapshot'.sequence].deposited
    BY <1>13, <1>14
  <2>. QED  BY <1>1, <1>2, <1>8, <1>15, <2>1 DEF DurableInv, MemoryOf, Relisting, RecordOf, b
<1>19. TablesSound(tables') /\ StagedFor'
  BY <1>2 DEF HistoryInv, StagedFor
<1>. QED  BY <1>6, <1>12, <1>16, <1>17, <1>18, <1>19 DEF HistoryInv, DurableInv

-----------------------------------------------------------------------------
(* A change, made of events for orders of memory, whose transaction the tables
   are ready for and that names registered users only. *)
Staged(c) ==
  /\ c \in LedgerType /\ c.sequence = 0
  /\ \A m \in Markets : c.markets[m] = NoMarket
  /\ \A u \in Users : tables.balances[u] + c.cash[u] >= 0 /\ (c.cash[u] # 0 => u \in users)
  /\ PositionsFit(tables, c)
  /\ \A id \in OrderIds : c.orders[id] # NoOrder =>
       /\ RowSound(tables, c.orders[id])
       /\ tables.orders[id] # NoOrder => SameRow(c.orders[id], tables.orders[id])
       /\ c.orders[id].user \in users

(* User u can be charged a on top of change c. *)
Chargeable(c, u, a) == tables.balances[u] + (c.cash[u] + a) >= 0

(* What an order event and a position event need to keep a change staged. *)
OrderReady(c, id, o, a) ==
  /\ Staged(c) /\ id \in OrderIds /\ o \in Order /\ a \in Int /\ o.user \in users
  /\ RowSound(tables, o)
  /\ tables.orders[id] # NoOrder => SameRow(o, tables.orders[id])
  /\ Chargeable(c, o.user, a)

PositionReady(c, u, m, x, n, a) ==
  /\ Staged(c) /\ m \in Markets /\ x \in Outcomes /\ n \in Int /\ a \in Int
  /\ u \in users /\ tables.markets[m] # NoMarket
  /\ Chargeable(c, u, a)

(* The change without events. *)
LEMMA StagedEmpty ==
  ASSUME SInv, TablesSound(tables)
  PROVE  Staged(Empty) /\ \A u \in Users : Empty.cash[u] = 0
<1>1. /\ \A u \in Users : Empty.cash[u] = 0
      /\ \A x \in Holdings : Empty.pos[x] = 0
      /\ Empty.sequence = 0
  BY DEF Empty
<1>2. \A u \in Users : tables.balances[u] \in Int /\ tables.balances[u] >= 0
  BY DEF SInv, TypeOK, TablesType, TablesSound
<1>. QED  BY <1>1, <1>2, EmptyLedger DEF Staged, PositionsFit

(* An order event for a row that is sound and continues the one that is there. *)
LEMMA StagedOrder ==
  ASSUME SInv, NEW c, NEW id, NEW o, NEW a, OrderReady(c, id, o, a)
  PROVE  /\ Staged(OrderEvent(c, id, o, a))
         /\ OrderEvent(c, id, o, a).orders = [c.orders EXCEPT ![id] = o]
<1>. DEFINE d == OrderEvent(c, id, o, a)
<1>0. /\ Staged(c) /\ id \in OrderIds /\ o \in Order /\ a \in Int /\ o.user \in users
      /\ RowSound(tables, o)
      /\ tables.orders[id] # NoOrder => SameRow(o, tables.orders[id])
      /\ Chargeable(c, o.user, a)
  BY DEF OrderReady
<1>1. c \in LedgerType /\ o.user \in Users /\ c.cash \in [Users -> Int]
      /\ c.orders \in [OrderIds -> Order \cup {NoOrder}]
  BY <1>0 DEF Staged, LedgerType, Order
<1>2. d \in LedgerType /\ d.orders = [c.orders EXCEPT ![id] = o] /\ d.markets = c.markets
  BY <1>0, <1>1, OrderEventLedger
<1>3. d.cash = [c.cash EXCEPT ![o.user] = @ + a] /\ d.pos = c.pos /\ d.sequence = c.sequence
  BY <1>0, <1>1 DEF OrderEvent, LedgerType
<1>. HIDE DEF d
<1>4. \A u \in Users : tables.balances[u] + d.cash[u] >= 0 /\ (d.cash[u] # 0 => u \in users)
  BY <1>0, <1>1, <1>3 DEF Staged, Chargeable
<1>5. PositionsFit(tables, d)
  BY <1>0, <1>3 DEF Staged, PositionsFit
<1>6. ASSUME NEW i \in OrderIds, d.orders[i] # NoOrder
      PROVE  /\ RowSound(tables, d.orders[i])
             /\ tables.orders[i] # NoOrder => SameRow(d.orders[i], tables.orders[i])
             /\ d.orders[i].user \in users
  <2>1. CASE i = id
    BY <1>0, <1>1, <1>2, <2>1
  <2>2. CASE i # id
    BY <1>0, <1>1, <1>2, <1>6, <2>2 DEF Staged
  <2>. QED  BY <2>1, <2>2
<1>7. Staged(d)
  BY <1>0, <1>2, <1>3, <1>4, <1>5, <1>6 DEF Staged
<1>. QED  BY <1>2, <1>7 DEF d

(* An order event without an amount leaves the owner's cash alone. *)
LEMMA OrderUncharged ==
  ASSUME NEW c \in LedgerType, NEW id, NEW o \in Order
  PROVE  OrderEvent(c, id, o, 0).cash[o.user] = c.cash[o.user]
<1>1. o.user \in Users /\ c.cash \in [Users -> Int]
  BY DEF LedgerType, Order
<1>2. OrderEvent(c, id, o, 0).cash = [c.cash EXCEPT ![o.user] = @ + 0]
  BY DEF OrderEvent, LedgerType
<1>. QED  BY <1>1, <1>2

(* A position event in a market that PostgreSQL has. *)
LEMMA StagedPosition ==
  ASSUME SInv, NEW c, NEW u, NEW m, NEW x, NEW n, NEW a, PositionReady(c, u, m, x, n, a)
  PROVE  /\ Staged(PositionEvent(c, u, m, x, n, a))
         /\ PositionEvent(c, u, m, x, n, a).orders = c.orders
<1>. DEFINE d == PositionEvent(c, u, m, x, n, a)
<1>0. /\ Staged(c) /\ m \in Markets /\ x \in Outcomes /\ n \in Int /\ a \in Int
      /\ u \in users /\ u \in Users /\ tables.markets[m] # NoMarket
      /\ Chargeable(c, u, a)
  BY DEF PositionReady, SInv, TypeOK
<1>1. c \in LedgerType /\ c.cash \in [Users -> Int] /\ c.pos \in [Holdings -> Int]
  BY <1>0 DEF Staged, LedgerType
<1>2. d \in LedgerType /\ d.orders = c.orders /\ d.markets = c.markets
  BY <1>0, <1>1, PositionEventLedger
<1>3. /\ d.cash = [c.cash EXCEPT ![u] = @ + a] /\ d.sequence = c.sequence
      /\ d.pos = [c.pos EXCEPT ![<<u, m, x>>] = @ + n]
  BY <1>0, <1>1 DEF PositionEvent, LedgerType
<1>. HIDE DEF d
<1>4. \A v \in Users : tables.balances[v] + d.cash[v] >= 0 /\ (d.cash[v] # 0 => v \in users)
  BY <1>0, <1>1, <1>3 DEF Staged, Chargeable
<1>5. PositionsFit(tables, d)
  <2>. SUFFICES ASSUME NEW y \in Holdings, d.pos[y] # 0  PROVE tables.markets[y[2]] # NoMarket
    BY DEF PositionsFit
  <2>1. CASE y = <<u, m, x>>
    BY <1>0, <2>1
  <2>2. CASE y # <<u, m, x>>
    <3>1. d.pos[y] = c.pos[y]
      BY <1>0, <1>1, <1>3, <2>2
    <3>. QED  BY <1>0, <3>1 DEF Staged, PositionsFit
  <2>. QED  BY <2>1, <2>2
<1>6. Staged(d)
  BY <1>0, <1>2, <1>3, <1>4, <1>5 DEF Staged
<1>. QED  BY <1>2, <1>3, <1>6 DEF d

(* What is staged was made for the tables, and names registered users. *)
LEMMA StagedMade ==
  ASSUME NEW c, Staged(c), NEW trades,
         \A x \in trades : \E id \in OrderIds :
           c.orders[id] # NoOrder /\ x.qty <= c.orders[id].qty
  PROVE  MadeFor(tables, c, trades) /\ KnownTo(users, c)
BY DEF Staged, MadeFor, KnownTo, SymbolsFit
-----------------------------------------------------------------------------
(* The orders memory has are the rows PostgreSQL has, but for an engine id. *)
LEMMA MemoryRows ==
  ASSUME SInv, HistoryInv, UsersInv, phase \in {"recover", "serve"}, ~failed
  PROVE  /\ mem.markets = tables.markets /\ mem.cash = tables.balances
         /\ \A id \in OrderIds : mem.orders[id] = NoOrder => tables.orders[id] = NoOrder
         /\ \A id \in OrderIds : mem.orders[id] # NoOrder =>
              /\ mem.orders[id] \in Order /\ tables.orders[id] # NoOrder
              /\ RowSound(tables, mem.orders[id])
              /\ SameRow(mem.orders[id], tables.orders[id])
              /\ mem.orders[id].user \in users
         /\ \A id \in todo : mem.orders[id] # NoOrder /\ mem.orders[id].eid = 0
<1>1. PICK h, p : DurableInv(h, p)
  BY DEF HistoryInv
<1>2. /\ mem.markets = tables.markets /\ mem.cash = tables.balances
      /\ \A id \in OrderIds :
           mem.orders[id] = IF id \in todo \/ Relisting(id)
                            THEN [tables.orders[id] EXCEPT !.eid = 0]
                            ELSE tables.orders[id]
      /\ \A id \in OrderIds : id \in todo \/ Relisting(id) => tables.orders[id] # NoOrder
  BY <1>1 DEF DurableInv, MemoryOf
<1>3. /\ \A id \in OrderIds : tables.orders[id] \in Order \cup {NoOrder}
      /\ todo \subseteq OrderIds
  BY DEF SInv, TypeOK, TablesType
<1>4. ASSUME NEW o \in Order
      PROVE  LET n == [o EXCEPT !.eid = 0] IN
             /\ n \in Order /\ n # NoOrder /\ n.eid = 0 /\ SameRow(n, o)
             /\ n.market = o.market /\ n.price = o.price /\ n.qty = o.qty /\ n.filled = o.filled
  BY ServerAssumption DEF Order, SameRow
<1>5. ASSUME NEW id \in OrderIds, tables.orders[id] # NoOrder
      PROVE  /\ mem.orders[id] \in Order /\ mem.orders[id] # NoOrder
             /\ RowSound(tables, mem.orders[id])
             /\ SameRow(mem.orders[id], tables.orders[id])
             /\ id \in todo => mem.orders[id].eid = 0
  <2>1. tables.orders[id] \in Order /\ RowSound(tables, tables.orders[id])
    BY <1>3, <1>5 DEF HistoryInv, TablesSound
  <2>2. CASE id \in todo \/ Relisting(id)
    <3>. DEFINE o == tables.orders[id]
                n == mem.orders[id]
    <3>1. n = [o EXCEPT !.eid = 0] /\ o \in Order
      BY <1>2, <2>1, <2>2
    <3>. HIDE DEF o, n
    <3>2. /\ n \in Order /\ n # NoOrder /\ n.eid = 0 /\ SameRow(n, o)
          /\ n.market = o.market /\ n.price = o.price /\ n.qty = o.qty /\ n.filled = o.filled
      BY <1>4, <3>1
    <3>. QED  BY <2>1, <3>2 DEF RowSound, o, n
  <2>3. CASE ~(id \in todo \/ Relisting(id))
    <3>1. mem.orders[id] = tables.orders[id]
      BY <1>2, <2>3
    <3>. QED  BY <1>5, <2>1, <2>3, <3>1, Zenon DEF SameRow
  <2>. QED  BY <2>2, <2>3
<1>6. \A id \in OrderIds : mem.orders[id] # NoOrder => tables.orders[id] # NoOrder
  BY <1>2
<1>7. \A id \in OrderIds : mem.orders[id] # NoOrder => mem.orders[id].user \in users
  BY DEF UsersInv, KnownTo
<1>8. \A id \in OrderIds : id \in todo => tables.orders[id] # NoOrder
  BY <1>2
<1>. QED  BY <1>2, <1>3, <1>5, <1>6, <1>7, <1>8
-----------------------------------------------------------------------------
(* Reserving for an order that is new and affordable. *)
LEMMA StagedReservation ==
  ASSUME SInv, TablesSound(tables), NEW id \in OrderIds, NEW o \in Order,
         RowSound(tables, o), tables.orders[id] = NoOrder, o.user \in users,
         IsBuy(o.side) => tables.balances[o.user] >= o.price * o.qty
  PROVE  /\ Staged(ReserveEvents(Empty, id, o))
         /\ ReserveEvents(Empty, id, o).orders[id] = o
<1>1. /\ o.user \in Users /\ o.market \in Markets /\ o.qty \in Nat /\ o.price \in Nat
      /\ OutcomeOf(o.side) \in Outcomes
  BY DEF Order, OutcomeOf, Outcomes
<1>2. Staged(Empty) /\ Empty.cash[o.user] = 0 /\ Empty \in LedgerType
  BY <1>1, StagedEmpty, EmptyLedger
<1>3. tables.balances[o.user] \in Int /\ tables.balances[o.user] >= 0
  BY <1>1 DEF SInv, TypeOK, TablesType, TablesSound
<1>4. ReserveEvents(Empty, id, o).orders[id] = o
  <2>1. ReserveEvents(Empty, id, o).orders = [Empty.orders EXCEPT ![id] = o]
    BY <1>2, ReserveLedger, Zenon
  <2>. QED  BY <1>2, <2>1 DEF LedgerType
<1>5. CASE IsBuy(o.side)
  <2>. DEFINE a == -(o.price * o.qty)
  <2>1. a \in Int /\ tables.balances[o.user] + (0 + a) >= 0
    <3>1. o.price * o.qty \in Int
      BY <1>1
    <3>. QED  BY <1>3, <1>5, <3>1
  <2>2. ReserveEvents(Empty, id, o) = OrderEvent(Empty, id, o, a)
    BY <1>5 DEF ReserveEvents
  <2>. HIDE DEF a
  <2>3. Chargeable(Empty, o.user, a)
    BY <1>2, <2>1 DEF Chargeable
  <2>4. OrderReady(Empty, id, o, a)
    BY <1>2, <2>1, <2>3 DEF OrderReady
  <2>5. Staged(OrderEvent(Empty, id, o, a))
    BY <2>4, StagedOrder
  <2>. QED  BY <1>4, <2>2, <2>5
<1>6. CASE ~IsBuy(o.side)
  <2>. DEFINE d == OrderEvent(Empty, id, o, 0)
  <2>1. Staged(d) /\ d.cash[o.user] = Empty.cash[o.user]
    <3>1. Chargeable(Empty, o.user, 0)
      BY <1>2, <1>3 DEF Chargeable
    <3>2. OrderReady(Empty, id, o, 0)
      BY <1>2, <3>1 DEF OrderReady
    <3>3. Staged(OrderEvent(Empty, id, o, 0))
      BY <3>2, StagedOrder
    <3>4. OrderEvent(Empty, id, o, 0).cash[o.user] = Empty.cash[o.user]
      BY <1>2, OrderUncharged
    <3>. QED  BY <3>3, <3>4
  <2>2. ReserveEvents(Empty, id, o)
          = PositionEvent(d, o.user, o.market, OutcomeOf(o.side), -o.qty, 0)
    BY <1>6 DEF ReserveEvents
  <2>. HIDE DEF d
  <2>3. Chargeable(d, o.user, 0) /\ -o.qty \in Int
    BY <1>1, <1>3, <2>1 DEF Staged, LedgerType, Chargeable
  <2>4. tables.markets[o.market] # NoMarket
    BY DEF RowSound
  <2>5. PositionReady(d, o.user, o.market, OutcomeOf(o.side), -o.qty, 0)
    BY <1>1, <2>1, <2>3, <2>4 DEF PositionReady
  <2>6. Staged(PositionEvent(d, o.user, o.market, OutcomeOf(o.side), -o.qty, 0))
    BY <2>5, StagedPosition
  <2>. QED  BY <1>4, <2>2, <2>6
<1>. QED  BY <1>5, <1>6

(* Releasing what an order of the tables has reserved. *)
LEMMA StagedRelease ==
  ASSUME SInv, TablesSound(tables), NEW id \in OrderIds, NEW o \in Order,
         RowSound(tables, o), tables.orders[id] # NoOrder => SameRow(o, tables.orders[id]),
         o.user \in users
  PROVE  Staged(ReleaseEvents(Empty, id, o))
<1>. DEFINE n == [o EXCEPT !.status = "cancelled"]
<1>1. /\ o.user \in Users /\ o.market \in Markets /\ o.qty \in Nat /\ o.price \in Nat
      /\ o.filled \in Nat /\ o.filled <= o.qty /\ OutcomeOf(o.side) \in Outcomes
  BY DEF Order, OutcomeOf, Outcomes, RowSound
<1>2. /\ n \in Order /\ n.user = o.user /\ RowSound(tables, n)
      /\ tables.orders[id] # NoOrder => SameRow(n, tables.orders[id])
  BY DEF Order, OrderStatuses, RowSound, SameRow
<1>3. Staged(Empty) /\ Empty.cash[o.user] = 0 /\ Empty \in LedgerType
  BY <1>1, StagedEmpty, EmptyLedger
<1>4. tables.balances[o.user] \in Int /\ tables.balances[o.user] >= 0
  BY <1>1 DEF SInv, TypeOK, TablesType, TablesSound
<1>5. Remaining(o) \in Nat
  BY <1>1 DEF Remaining
<1>6. CASE IsBuy(o.side)
  <2>. DEFINE a == Remaining(o) * o.price
  <2>1. a \in Nat
    BY <1>1, <1>5
  <2>2. ReleaseEvents(Empty, id, o) = OrderEvent(Empty, id, n, a)
    BY <1>6 DEF ReleaseEvents
  <2>. HIDE DEF a, n
  <2>3. a \in Int /\ Chargeable(Empty, n.user, a)
    BY <1>2, <1>3, <1>4, <2>1 DEF Chargeable
  <2>4. OrderReady(Empty, id, n, a)
    BY <1>2, <1>3, <2>3 DEF OrderReady
  <2>5. Staged(OrderEvent(Empty, id, n, a))
    BY <2>4, StagedOrder
  <2>. QED  BY <2>2, <2>5
<1>7. CASE ~IsBuy(o.side)
  <2>. DEFINE d == OrderEvent(Empty, id, n, 0)
  <2>1. ReleaseEvents(Empty, id, o)
          = PositionEvent(d, o.user, o.market, OutcomeOf(o.side), Remaining(o), 0)
    BY <1>7 DEF ReleaseEvents
  <2>2. Staged(d) /\ d.cash[o.user] = Empty.cash[o.user]
    <3>. HIDE DEF n
    <3>1. Chargeable(Empty, n.user, 0)
      BY <1>2, <1>3, <1>4 DEF Chargeable
    <3>2. OrderReady(Empty, id, n, 0)
      BY <1>2, <1>3, <3>1 DEF OrderReady
    <3>3. Staged(OrderEvent(Empty, id, n, 0))
      BY <3>2, StagedOrder
    <3>4. OrderEvent(Empty, id, n, 0).cash[n.user] = Empty.cash[n.user]
      BY <1>2, <1>3, OrderUncharged
    <3>. QED  BY <1>2, <3>3, <3>4
  <2>. HIDE DEF d
  <2>3. Chargeable(d, o.user, 0) /\ Remaining(o) \in Int
    BY <1>1, <1>4, <1>5, <2>2 DEF Staged, LedgerType, Chargeable
  <2>4. tables.markets[o.market] # NoMarket
    BY DEF RowSound
  <2>5. PositionReady(d, o.user, o.market, OutcomeOf(o.side), Remaining(o), 0)
    BY <1>1, <2>2, <2>3, <2>4 DEF PositionReady
  <2>6. Staged(PositionEvent(d, o.user, o.market, OutcomeOf(o.side), Remaining(o), 0))
    BY <2>5, StagedPosition
  <2>. QED  BY <2>1, <2>6
<1>. QED  BY <1>6, <1>7

(* A fill within what remains of an order, on top of what is staged. *)
LEMMA StagedFill ==
  ASSUME SInv, NEW c, Staged(c), NEW id \in OrderIds, NEW o \in Order,
         RowSound(tables, o), tables.orders[id] # NoOrder => SameRow(o, tables.orders[id]),
         o.user \in users, NEW q \in Nat, o.filled + q <= o.qty, NEW p \in Nat,
         FillCredit(o, q, p) \in Nat
  PROVE  /\ Staged(FillEvents(c, id, o, q, p))
         /\ FillEvents(c, id, o, q, p).orders = [c.orders EXCEPT ![id] = FilledOrder(o, q)]
<1>. DEFINE n == FilledOrder(o, q)
            shares == IF IsBuy(o.side) THEN q ELSE 0
            credit == FillCredit(o, q, p)
            x == OutcomeOf(o.side)
            d == OrderEvent(c, id, n, 0)
<1>1. /\ o.user \in Users /\ o.market \in Markets /\ x \in Outcomes /\ shares \in Int
      /\ credit \in Nat
  BY DEF Order, OutcomeOf, Outcomes
<1>2. n \in Order /\ SameOrder(n, o) /\ n.seq = o.seq /\ n.filled = o.filled + q
  BY FilledOrderKept DEF FilledOrder, Order
<1>3. FillEvents(c, id, o, q, p) = PositionEvent(d, o.user, o.market, x, shares, credit)
  BY DEF FillEvents
<1>. HIDE DEF n, shares, credit, x
<1>4. /\ n.user = o.user /\ RowSound(tables, n)
      /\ tables.orders[id] # NoOrder => SameRow(n, tables.orders[id])
  BY <1>2 DEF SameOrder, RowSound, SameRow
<1>5. c.cash[o.user] \in Int /\ Chargeable(c, o.user, 0)
  BY <1>1 DEF Staged, LedgerType, Chargeable
<1>6. /\ Staged(d) /\ d.cash[o.user] = c.cash[o.user]
      /\ d.orders = [c.orders EXCEPT ![id] = n]
  <2>1. OrderReady(c, id, n, 0)
    BY <1>2, <1>4, <1>5 DEF OrderReady
  <2>2. /\ Staged(OrderEvent(c, id, n, 0))
        /\ OrderEvent(c, id, n, 0).orders = [c.orders EXCEPT ![id] = n]
    BY <2>1, StagedOrder
  <2>3. OrderEvent(c, id, n, 0).cash[n.user] = c.cash[n.user]
    BY <1>2, OrderUncharged DEF Staged
  <2>. QED  BY <1>4, <2>2, <2>3
<1>. HIDE DEF d
<1>7. Chargeable(d, o.user, credit)
  <2>1. d.cash[o.user] = c.cash[o.user]
    BY <1>1, <1>5, <1>6 DEF Staged, LedgerType
  <2>2. tables.balances[o.user] \in Int
    BY <1>1 DEF SInv, TypeOK, TablesType
  <2>. QED  BY <1>1, <1>5, <2>1, <2>2 DEF Chargeable
<1>8. tables.markets[o.market] # NoMarket
  BY DEF RowSound
<1>9. /\ Staged(PositionEvent(d, o.user, o.market, x, shares, credit))
      /\ PositionEvent(d, o.user, o.market, x, shares, credit).orders = d.orders
  <2>1. PositionReady(d, o.user, o.market, x, shares, credit)
    BY <1>1, <1>6, <1>7, <1>8 DEF PositionReady
  <2>. QED  BY <2>1, StagedPosition
<1>. QED  BY <1>3, <1>6, <1>9 DEF n

(* The owner of an order whose price the engine respects is never charged for
   a fill. *)
LEMMA FillCreditNatural ==
  ASSUME NEW o \in Order, ValidPrice(o.price), NEW q \in Nat, NEW p \in 1..99,
         IF EngineSide(o.side) = "buy" THEN EnginePrice(o.side, o.price) >= p
         ELSE p >= EnginePrice(o.side, o.price)
  PROVE  FillCredit(o, q, p) \in Nat
<1>1. o.price \in 1..99 /\ o.side \in Sides
  BY DEF ValidPrice, Order
<1>2. CASE o.side = "buy_yes"
  <2>1. o.price - p \in Nat
    BY <1>1, <1>2 DEF EngineSide, EnginePrice
  <2>2. (o.price - p) * q \in Nat
    BY <2>1
  <2>. QED  BY <1>2, <2>2 DEF FillCredit
<1>3. CASE o.side = "buy_no"
  <2>1. o.price - (100 - p) \in Nat
    BY <1>1, <1>3 DEF EngineSide, EnginePrice
  <2>2. (o.price - (100 - p)) * q \in Nat
    BY <2>1
  <2>. QED  BY <1>3, <2>2 DEF FillCredit
<1>4. CASE o.side = "sell_yes"
  <2>1. p * q \in Nat
    OBVIOUS
  <2>. QED  BY <1>4, <2>1 DEF FillCredit
<1>5. CASE o.side = "sell_no"
  <2>1. 100 - p \in Nat
    OBVIOUS
  <2>2. (100 - p) * q \in Nat
    BY <2>1
  <2>. QED  BY <1>5, <2>2 DEF FillCredit
<1>. QED  BY <1>1, <1>2, <1>3, <1>4, <1>5 DEF Sides

-----------------------------------------------------------------------------
(* Names in the ledger, when only the operation and the waiting handlers
   change. *)
LEMMA OperationUsers ==
  ASSUME UsersInv, op' = NoOp \/ KnownTo(users, op'.change), waiting' \subseteq waiting,
         UNCHANGED <<durable, access, mem, frozen, queue, placing>>
  PROVE  UsersInv'
<1>1. UNCHANGED <<log, snapshot, tables, users, tokens, mem, frozen, queue, placing>>
  BY DEF durable, access
<1>. QED  BY <1>1 DEF UsersInv, KnownTo

(* An operation that goes to its commit, or ends without one. *)
LEMMA OperationGoesOn ==
  ASSUME IInv, phase \in {"recover", "serve"}, ~failed,
         op = NoOp \/ op.step = "engine",
         op' \in OperationType, op'.step = "append",
         MadeFor(tables, op'.change, op'.trades), KnownTo(users, op'.change),
         op'.kind \in {"relist", "refill"} <=> phase = "recover",
         op'.kind \in {"reserve", "complete", "relist", "refill", "cancel"} => op'.id \in OrderIds,
         op'.kind \in {"reserve", "relist"} => op'.change.orders[op'.id] # NoOrder,
         \A id \in todo' : op'.id # id /\ op'.change.orders[id] = NoOrder,
         todo' \subseteq todo, waiting' \subseteq waiting,
         \A id \in OrderIds : (id \in todo' \/ Relisting(id)') <=> (id \in todo \/ Relisting(id)),
         UNCHANGED <<durable, access, phase, mem, failed, queue, placing, connections,
                     hook, checkpoint, faults>>
  PROVE  IInv'
<1>1. SInv'
  BY OperationSInv DEF IInv
<1>2. HistoryInv'
  BY OperationHistory DEF IInv, checkpoint
<1>3. UsersInv'
  BY OperationUsers DEF IInv, checkpoint
<1>. QED  BY <1>1, <1>2, <1>3 DEF IInv

(* Order o may be written into the row of id. *)
Continues(id, o) ==
  /\ o \in Order /\ o # NoOrder /\ RowSound(tables, o) /\ o.user \in users
  /\ tables.orders[id] # NoOrder => SameRow(o, tables.orders[id])

(* An order that is given an engine id and a status is the same row. *)
LEMMA Relabelled ==
  ASSUME NEW id, NEW o, Continues(id, o), NEW s \in OrderStatuses, NEW n,
         n = [o EXCEPT !.eid = 1, !.status = s]
  PROVE  /\ Continues(id, n)
         /\ n.market = o.market /\ n.side = o.side /\ n.price = o.price
         /\ n.qty = o.qty /\ n.filled = o.filled
<1>. USE DEF Continues
<1>1. /\ n \in Order /\ n.user = o.user /\ n.market = o.market /\ n.side = o.side
      /\ n.price = o.price /\ n.qty = o.qty /\ n.filled = o.filled /\ n.seq = o.seq
  BY DEF Order
<1>2. n # NoOrder
  BY <1>1, ServerAssumption
<1>3. RowSound(tables, n) /\ (tables.orders[id] # NoOrder => SameRow(n, tables.orders[id]))
  BY <1>1 DEF RowSound, SameRow
<1>. QED  BY <1>1, <1>2, <1>3

(* Staging an order of memory again, with nothing charged. *)
LEMMA StagedListing ==
  ASSUME SInv, TablesSound(tables), NEW id \in OrderIds, NEW n, Continues(id, n)
  PROVE  /\ Staged(OrderEvent(Empty, id, n, 0))
         /\ OrderEvent(Empty, id, n, 0).orders = [Empty.orders EXCEPT ![id] = n]
<1>1. n \in Order /\ n.user \in Users
  BY DEF Order, Continues
<1>2. Staged(Empty) /\ Empty.cash[n.user] = 0
  BY <1>1, StagedEmpty
<1>3. tables.balances[n.user] \in Int /\ tables.balances[n.user] >= 0
  BY <1>1 DEF SInv, TypeOK, TablesType, TablesSound
<1>4. Chargeable(Empty, n.user, 0)
  BY <1>2, <1>3 DEF Chargeable
<1>5. OrderReady(Empty, id, n, 0)
  BY <1>2, <1>4 DEF OrderReady, Continues
<1>6. Staged(OrderEvent(Empty, id, n, 0))
  BY <1>5, StagedOrder
<1>7. OrderEvent(Empty, id, n, 0).orders = [Empty.orders EXCEPT ![id] = n]
  BY <1>1, EmptyLedger, OrderEventLedger
<1>. QED  BY <1>6, <1>7

(* RecoverEngine submits the next order again. *)
LEMMA RecoverNextIInv ==
  ASSUME IInv, NEW id, RecoverNext(id)
  PROVE  IInv'
<1>. DEFINE s == IF mem.orders[id].filled > 0 THEN "partial" ELSE "open"
            n == [mem.orders[id] EXCEPT !.eid = 1, !.status = s]
            c == OrderEvent(Empty, id, n, 0)
<1>1. /\ phase = "recover" /\ op = NoOp /\ id \in todo /\ todo' = todo \ {id}
      /\ op' = [kind |-> "relist", step |-> "append", id |-> id, trades |-> {}, change |-> c]
      /\ UNCHANGED <<durable, access, phase, mem, failed, handlers, connections, hook,
                     checkpoint, faults>>
  BY DEF RecoverNext
<1>2. SInv /\ HistoryInv /\ UsersInv /\ TablesSound(tables) /\ todo \subseteq OrderIds
  BY DEF IInv, HistoryInv, SInv, TypeOK
<1>3. ~failed /\ id \in OrderIds
  BY <1>1, <1>2 DEF SInv, PhaseInv
<1>4. Continues(id, mem.orders[id])
  BY <1>1, <1>2, <1>3, MemoryRows DEF Continues
<1>5. s \in OrderStatuses
  BY DEF OrderStatuses, ActiveStatuses
<1>. HIDE DEF s
<1>6. Continues(id, n)
  BY <1>4, <1>5, Relabelled
<1>. HIDE DEF n
<1>7. Staged(c) /\ c.orders = [Empty.orders EXCEPT ![id] = n]
  BY <1>2, <1>3, <1>6, StagedListing
<1>. HIDE DEF c
<1>8. MadeFor(tables, c, {}) /\ KnownTo(users, c) /\ c \in LedgerType
  <2>1. Staged(c)
    BY <1>7
  <2>. QED  BY <2>1, StagedMade DEF Staged
<1>9. c.orders[id] = n /\ \A i \in OrderIds \ {id} : c.orders[i] = NoOrder
  <2>1. Empty.orders \in [OrderIds -> Order \cup {NoOrder}]
    BY EmptyLedger DEF LedgerType
  <2>. QED  BY <1>3, <1>7, <2>1, EmptyLedger
<1>10. /\ op' \in OperationType /\ op'.kind = "relist" /\ op'.step = "append" /\ op'.id = id
       /\ op'.change = c /\ op'.trades = {} /\ op' # NoOp
  BY <1>1, <1>3, <1>8, ServerAssumption DEF OperationType
<1>11. \A i \in OrderIds : (i \in todo' \/ Relisting(i)') <=> (i \in todo \/ Relisting(i))
  BY <1>1, <1>10 DEF Relisting
<1>12. \A i \in todo' : op'.id # i /\ op'.change.orders[i] = NoOrder
  BY <1>1, <1>2, <1>9, <1>10
<1>13. UNCHANGED <<waiting, queue, placing>>
  BY <1>1 DEF handlers
<1>14. n # NoOrder
  BY <1>6 DEF Continues
<1>. QED  BY <1>1, <1>3, <1>8, <1>9, <1>10, <1>11, <1>12, <1>13, <1>14, OperationGoesOn

(* What a handler commits. *)
LEMMA CommitsIInv ==
  ASSUME IInv, NEW r, NEW k \in {"create", "deposit", "cancel"}, NEW id \in OrderIds \cup {NoOrder},
         k = "cancel" => id \in OrderIds, NEW c \in LedgerType,
         phase = "serve", op = NoOp, ~failed, Commits(r, k, id, c),
         MadeFor(tables, c, {}), KnownTo(users, c)
  PROVE  IInv'
<1>1. /\ op' = [kind |-> k, step |-> "append", id |-> id, trades |-> {}, change |-> c]
      /\ waiting' = waiting \ {r}
      /\ UNCHANGED <<durable, access, phase, mem, failed, todo, queue, placing,
                     connections, hook, checkpoint, faults>>
  BY DEF Commits
<1>2. /\ op' \in OperationType /\ op'.kind = k /\ op'.step = "append" /\ op'.id = id
      /\ op'.change = c /\ op'.trades = {} /\ op' # NoOp
  BY <1>1, ServerAssumption DEF OperationType
<1>3. todo = {}
  BY DEF IInv, SInv, PhaseInv
<1>4. \A i \in OrderIds : (i \in todo' \/ Relisting(i)') <=> (i \in todo \/ Relisting(i))
  BY <1>1, <1>2 DEF Relisting
<1>. QED  BY <1>1, <1>2, <1>3, <1>4, OperationGoesOn

(* Deposit. *)
LEMMA DepositIInv ==
  ASSUME IInv, NEW r \in waiting, Deposit(r)
  PROVE  IInv'
<1>. DEFINE c == BalanceEvent(Empty, r.user, r.cents)
<1>1. /\ phase = "serve" /\ op = NoOp /\ ~failed /\ r.kind = "deposit"
      /\ Commits(r, "deposit", NoOrder, c)
  BY DEF Deposit, Holds
<1>2. SInv /\ HistoryInv /\ UsersInv /\ TablesSound(tables) /\ r \in Requests
  BY DEF IInv, HistoryInv, SInv, TypeOK
<1>3. r.user \in Users /\ r.cents \in Nat /\ r.user \in users
  BY <1>1, <1>2, ServerAssumption DEF OrderRequest, OtherRequest, UsersInv
<1>4. /\ c \in LedgerType /\ c.orders = Empty.orders /\ c.markets = Empty.markets
  BY <1>3, EmptyLedger, BalanceEventLedger
<1>5. /\ c.cash = [Empty.cash EXCEPT ![r.user] = @ + r.cents]
      /\ c.pos = Empty.pos /\ c.sequence = Empty.sequence
  BY DEF BalanceEvent, Empty
<1>. HIDE DEF c
<1>6. Staged(Empty) /\ \A u \in Users : Empty.cash[u] = 0 /\ Empty.cash \in [Users -> Int]
  BY <1>2, StagedEmpty, EmptyLedger DEF LedgerType
<1>7. Staged(c)
  <2>1. \A u \in Users : tables.balances[u] \in Int /\ tables.balances[u] >= 0
    BY <1>2 DEF SInv, TypeOK, TablesType, TablesSound
  <2>2. \A u \in Users : tables.balances[u] + c.cash[u] >= 0 /\ (c.cash[u] # 0 => u \in users)
    BY <1>3, <1>5, <1>6, <2>1
  <2>. QED  BY <1>4, <1>5, <1>6, <2>2 DEF Staged, PositionsFit
<1>8. MadeFor(tables, c, {}) /\ KnownTo(users, c)
  BY <1>7, StagedMade
<1>. QED  BY <1>1, <1>4, <1>8, CommitsIInv

(* Cancel, once the order is off the book. *)
LEMMA CancelIInv ==
  ASSUME IInv, NEW r \in waiting, Cancel(r)
  PROVE  IInv'
<1>. DEFINE o == mem.orders[r.id]
            c == ReleaseEvents(Empty, r.id, o)
<1>1. /\ phase = "serve" /\ op = NoOp /\ ~failed /\ r.kind = "cancel" /\ o # NoOrder
      /\ Commits(r, "cancel", r.id, c)
  BY DEF Cancel, Holds, CanCancel, OnBook
<1>2. SInv /\ HistoryInv /\ UsersInv /\ TablesSound(tables) /\ r \in Requests
  BY DEF IInv, HistoryInv, SInv, TypeOK
<1>3. r.id \in OrderIds
  BY <1>1, <1>2, ServerAssumption DEF OrderRequest, OtherRequest
<1>4. /\ o \in Order /\ RowSound(tables, o)
      /\ tables.orders[r.id] # NoOrder => SameRow(o, tables.orders[r.id])
      /\ o.user \in users
  BY <1>1, <1>2, <1>3, MemoryRows
<1>. HIDE DEF o
<1>5. Staged(c)
  BY <1>2, <1>3, <1>4, StagedRelease
<1>. HIDE DEF c
<1>6. MadeFor(tables, c, {}) /\ KnownTo(users, c) /\ c \in LedgerType
  BY <1>5, StagedMade DEF Staged
<1>. QED  BY <1>1, <1>3, <1>6, CommitsIInv

(* CreateMarketFor: the symbol is free in PostgreSQL because it is in memory. *)
LEMMA CreateMarketIInv ==
  ASSUME IInv, NEW r \in waiting, CreateMarket(r)
  PROVE  IInv'
<1>. DEFINE market == [symbol |-> r.symbol, owner |-> r.user, status |-> "open"]
            c == MarketEvent(Empty, r.market, market)
<1>1. /\ phase = "serve" /\ op = NoOp /\ ~failed /\ r.kind = "create"
      /\ mem.markets[r.market] = NoMarket /\ SymbolFree(r.symbol)
      /\ Commits(r, "create", NoOrder, c)
  BY DEF CreateMarket, Holds, CanCreate
<1>2. SInv /\ HistoryInv /\ UsersInv /\ TablesSound(tables) /\ r \in Requests
  BY DEF IInv, HistoryInv, SInv, TypeOK
<1>3. r.user \in Users /\ r.market \in Markets /\ r.symbol \in Symbols /\ r.user \in users
  BY <1>1, <1>2, ServerAssumption DEF OrderRequest, OtherRequest, UsersInv
<1>4. market \in Market /\ market.symbol = r.symbol /\ market.owner = r.user
  BY <1>3 DEF Market, MarketStatuses
<1>. HIDE DEF market
<1>5. /\ c \in LedgerType /\ c.orders = Empty.orders
      /\ c.markets = [Empty.markets EXCEPT ![r.market] = market]
  BY <1>3, <1>4, EmptyLedger, MarketEventLedger
<1>6. c.cash = Empty.cash /\ c.pos = Empty.pos /\ c.sequence = Empty.sequence
  BY DEF MarketEvent, Empty
<1>7. \A m \in Markets : c.markets[m] = IF m = r.market THEN market ELSE NoMarket
  <2>1. Empty.markets \in [Markets -> Market \cup {NoMarket}]
    BY EmptyLedger DEF LedgerType
  <2>. QED  BY <1>3, <1>5, <2>1, EmptyLedger
<1>. HIDE DEF c
<1>8. mem.markets = tables.markets
  BY <1>1, <1>2, MemoryRows
<1>9. SymbolsFit(tables, c)
  BY <1>1, <1>4, <1>7, <1>8 DEF SymbolsFit, SymbolFree
<1>10. Staged(Empty) /\ \A u \in Users : Empty.cash[u] = 0
  BY <1>2, StagedEmpty
<1>11. MadeFor(tables, c, {})
  BY <1>5, <1>6, <1>9, <1>10 DEF MadeFor, Staged, PositionsFit
<1>12. KnownTo(users, c)
  BY <1>3, <1>4, <1>5, <1>6, <1>7, <1>10, EmptyLedger DEF KnownTo
<1>. QED  BY <1>1, <1>5, <1>11, <1>12, CommitsIInv

(* prepareOrder: what memory says can be afforded, PostgreSQL can debit. *)
LEMMA PlaceOrderIInv ==
  ASSUME IInv, PlaceOrder
  PROVE  IInv'
<1>. DEFINE r == placing
            o == [user |-> r.user, market |-> r.market, side |-> r.side, price |-> r.price,
                  qty |-> r.qty, filled |-> 0, status |-> "pending",
                  seq |-> mem.sequence + 1, eid |-> 0]
            c == ReserveEvents(Empty, r.id, o)
<1>1. /\ phase = "serve" /\ op = NoOp /\ ~failed /\ r # NoRequest /\ Admissible(r)
      /\ op' = [kind |-> "reserve", step |-> "append", id |-> r.id, trades |-> {}, change |-> c]
      /\ UNCHANGED <<durable, access, phase, mem, failed, todo, handlers, connections,
                     hook, checkpoint, faults>>
  BY DEF PlaceOrder
<1>2. SInv /\ HistoryInv /\ UsersInv /\ TablesSound(tables) /\ r \in OrderRequest
      /\ mem.sequence \in Nat /\ todo = {}
  BY <1>1 DEF IInv, HistoryInv, SInv, TypeOK, Orders, LedgerType, PhaseInv
<1>3. /\ r.user \in Users /\ r.id \in OrderIds /\ r.market \in Markets /\ r.side \in Sides
      /\ r.price \in Nat /\ r.qty \in Nat /\ r.user \in users
  BY <1>1, <1>2 DEF OrderRequest, UsersInv
<1>4. /\ o \in Order /\ o.user = r.user /\ o.market = r.market /\ o.side = r.side
      /\ o.price = r.price /\ o.qty = r.qty /\ o.filled = 0
  BY <1>2, <1>3 DEF Order, OrderStatuses, ActiveStatuses
<1>. HIDE DEF o, r
<1>5. /\ mem.markets = tables.markets /\ mem.cash = tables.balances
      /\ mem.orders[r.id] = NoOrder => tables.orders[r.id] = NoOrder
  BY <1>1, <1>2, <1>3, MemoryRows
<1>6. tables.orders[r.id] = NoOrder
  BY <1>1, <1>5 DEF Admissible
<1>7. RowSound(tables, o)
  BY <1>1, <1>3, <1>4, <1>5, ServerAssumption DEF RowSound, Admissible
<1>8. IsBuy(o.side) => tables.balances[o.user] >= o.price * o.qty
  BY <1>1, <1>4, <1>5 DEF Admissible, Affordable
<1>9. Staged(c) /\ c.orders[r.id] = o
  BY <1>2, <1>3, <1>4, <1>6, <1>7, <1>8, StagedReservation
<1>. HIDE DEF c
<1>10. MadeFor(tables, c, {}) /\ KnownTo(users, c) /\ c \in LedgerType
  <2>1. Staged(c)
    BY <1>9
  <2>. QED  BY <2>1, StagedMade DEF Staged
<1>11. /\ op' \in OperationType /\ op'.kind = "reserve" /\ op'.step = "append" /\ op'.id = r.id
       /\ op'.change = c /\ op'.trades = {} /\ op' # NoOp
  BY <1>1, <1>3, <1>10, ServerAssumption DEF OperationType
<1>12. \A i \in OrderIds : (i \in todo' \/ Relisting(i)') <=> (i \in todo \/ Relisting(i))
  BY <1>1, <1>11 DEF Relisting
<1>13. UNCHANGED <<waiting, queue, placing>>
  BY <1>1 DEF handlers
<1>14. op'.change.orders[op'.id] # NoOrder
  BY <1>4, <1>9, <1>11, ServerAssumption
<1>. QED  BY <1>1, <1>2, <1>3, <1>10, <1>11, <1>12, <1>13, <1>14, OperationGoesOn

-----------------------------------------------------------------------------
(* The quantity of a trade. *)
LEMMA MinOfTwo ==
  ASSUME NEW a \in Nat, NEW b \in Nat
  PROVE  Min({a, b}) \in Nat /\ Min({a, b}) <= a /\ Min({a, b}) <= b
<1>1. \E x \in {a, b} : \A y \in {a, b} : x <= y
  OBVIOUS
<1>2. Min({a, b}) \in {a, b} /\ \A y \in {a, b} : Min({a, b}) <= y
  <2>. DEFINE m == CHOOSE x \in {a, b} : \A y \in {a, b} : x <= y
  <2>1. m \in {a, b} /\ \A y \in {a, b} : m <= y
    <3>. QED  BY <1>1
  <2>2. Min({a, b}) = m
    BY DEF Min
  <2>. QED  BY <2>1, <2>2
<1>. QED  BY <1>2

(* Both sides of a trade at the maker's price. *)
LEMMA TradeCredits ==
  ASSUME NEW o \in Order, NEW maker \in Order, ValidPrice(o.price), ValidPrice(maker.price),
         EngineSide(maker.side) # EngineSide(o.side),
         IF EngineSide(o.side) = "buy" THEN Crosses(o, maker) ELSE Crosses(maker, o),
         NEW q \in Nat, NEW p, p = EnginePrice(maker.side, maker.price)
  PROVE  p \in Nat /\ FillCredit(o, q, p) \in Nat /\ FillCredit(maker, q, p) \in Nat
<1>1. p \in 1..99
  BY DEF EnginePrice, ValidPrice
<1>2. FillCredit(o, q, p) \in Nat
  <2>1. IF EngineSide(o.side) = "buy" THEN EnginePrice(o.side, o.price) >= p
        ELSE p >= EnginePrice(o.side, o.price)
    BY DEF Crosses
  <2>. QED  BY <1>1, <2>1, FillCreditNatural
<1>3. FillCredit(maker, q, p) \in Nat
  <2>1. IF EngineSide(maker.side) = "buy" THEN EnginePrice(maker.side, maker.price) >= p
        ELSE p >= EnginePrice(maker.side, maker.price)
    BY <1>1
  <2>. QED  BY <1>1, <2>1, FillCreditNatural
<1>. QED  BY <1>1, <1>2, <1>3

(* An operation that has its answer: the common part. *)
LEMMA AnswerIInv ==
  ASSUME IInv, op # NoOp, op.step = "engine", NEW c, Staged(c), NEW trades \in SUBSET Trades,
         op' = [op EXCEPT !.step = "append", !.change = c, !.trades = trades],
         \A x \in trades : \E i \in OrderIds :
           c.orders[i] # NoOrder /\ x.qty <= c.orders[i].qty,
         \A i \in todo : c.orders[i] = NoOrder,
         UNCHANGED <<durable, access, phase, mem, failed, todo, handlers,
                     connections, hook, checkpoint, faults>>
  PROVE  IInv'
<1>1. /\ op \in OperationType /\ phase \in {"recover", "serve"} /\ ~failed
      /\ op.kind \in {"complete", "refill"} /\ op.id \in OrderIds
      /\ op.kind \in {"relist", "refill"} <=> phase = "recover"
      /\ \A i \in todo : op.id # i
  BY DEF IInv, SInv, TypeOK, PhaseInv, OpInv
<1>2. MadeFor(tables, c, trades) /\ KnownTo(users, c)
  BY StagedMade
<1>3. /\ op' \in OperationType /\ op'.kind = op.kind /\ op'.step = "append" /\ op'.id = op.id
      /\ op'.change = c /\ op'.trades = trades /\ op' # NoOp
  BY <1>1, ServerAssumption DEF OperationType, Staged
<1>4. \A i \in OrderIds : (i \in todo' \/ Relisting(i)') <=> (i \in todo \/ Relisting(i))
  BY <1>1, <1>3 DEF Relisting
<1>5. UNCHANGED <<waiting, queue, placing>>
  BY DEF handlers
<1>. QED  BY <1>1, <1>2, <1>3, <1>4, <1>5, OperationGoesOn

(* The answer of the engine, without a trade or with one. *)
LEMMA EngineAnswersIInv ==
  ASSUME IInv, EngineAnswers
  PROVE  IInv'
<1>. DEFINE id == op.id
            s == IF mem.orders[id].status = "pending" THEN "open" ELSE mem.orders[id].status
            o == [mem.orders[id] EXCEPT !.eid = 1, !.status = s]
            listed == IF op.kind = "complete" THEN OrderEvent(Empty, id, o, 0) ELSE Empty
            q(other) == Min({Remaining(o), Remaining(mem.orders[other])})
            p(other) == EnginePrice(mem.orders[other].side, mem.orders[other].price)
            trade(other) == IF EngineSide(o.side) = "buy"
                            THEN [buy |-> id, sell |-> other, qty |-> q(other)]
                            ELSE [buy |-> other, sell |-> id, qty |-> q(other)]
            fill(other) == FillEvents(FillEvents(listed, id, o, q(other), p(other)),
                                      other, mem.orders[other], q(other), p(other))
<1>1. /\ op # NoOp /\ op.step = "engine"
      /\ UNCHANGED <<durable, access, phase, mem, failed, todo, handlers,
                     connections, hook, checkpoint, faults>>
      /\ \/ op.kind = "complete" /\ op' = [op EXCEPT !.step = "append", !.change = listed, !.trades = {}]
         \/ op.kind # "complete" /\ op' = NoOp
         \/ \E other \in Counterparties(o) \ {id} :
              op' = [op EXCEPT !.step = "append", !.trades = {trade(other)}, !.change = fill(other)]
  BY DEF EngineAnswers
<1>2. SInv /\ HistoryInv /\ UsersInv /\ TablesSound(tables) /\ op \in OperationType
  BY <1>1 DEF IInv, HistoryInv, SInv, TypeOK
<1>3. /\ id \in OrderIds /\ mem.orders[id] # NoOrder /\ phase \in {"recover", "serve"} /\ ~failed
      /\ op.kind \in {"complete", "refill"} /\ \A i \in todo : i # id
  BY <1>1, <1>2 DEF SInv, OpInv, PhaseInv, TypeOK
<1>4. \A i \in OrderIds : mem.orders[i] # NoOrder => Continues(i, mem.orders[i])
  BY <1>2, <1>3, MemoryRows DEF Continues
<1>5. s \in OrderStatuses
  <2>1. mem.orders[id] \in Order
    BY <1>3, <1>4 DEF Continues
  <2>. QED  BY <2>1 DEF Order, OrderStatuses, ActiveStatuses
<1>6. Continues(id, o)
  <2>1. Continues(id, mem.orders[id])
    BY <1>3, <1>4
  <2>. HIDE DEF s
  <2>. QED  BY <1>5, <2>1, Relabelled
<1>. HIDE DEF o, s
<1>7. Staged(listed) /\ \A i \in OrderIds \ {id} : listed.orders[i] = NoOrder
  <2>1. Empty.orders \in [OrderIds -> Order \cup {NoOrder}]
    BY EmptyLedger DEF LedgerType
  <2>2. CASE op.kind = "complete"
    <3>1. listed = OrderEvent(Empty, id, o, 0)
      BY <2>2
    <3>2. /\ Staged(OrderEvent(Empty, id, o, 0))
          /\ OrderEvent(Empty, id, o, 0).orders = [Empty.orders EXCEPT ![id] = o]
      <4>. HIDE DEF id
      <4>. QED  BY <1>2, <1>3, <1>6, StagedListing
    <3>3. \A i \in OrderIds \ {id} : [Empty.orders EXCEPT ![id] = o][i] = NoOrder
      BY <2>1, EmptyLedger
    <3>. QED  BY <3>1, <3>2, <3>3
  <2>3. CASE op.kind # "complete"
    BY <1>2, <2>3, StagedEmpty, EmptyLedger
  <2>. QED  BY <2>2, <2>3
<1>8. \A i \in todo : i \in OrderIds \ {id} /\ mem.orders[i].eid = 0
  BY <1>2, <1>3, MemoryRows DEF SInv, TypeOK
<1>. HIDE DEF listed, id
<1>9. CASE op.kind = "complete" /\ op' = [op EXCEPT !.step = "append", !.change = listed, !.trades = {}]
  <2>. DEFINE none == {}
  <2>1. /\ none \in SUBSET Trades
        /\ \A x \in none : \E i \in OrderIds :
             listed.orders[i] # NoOrder /\ x.qty <= listed.orders[i].qty
        /\ op' = [op EXCEPT !.step = "append", !.change = listed, !.trades = none]
    BY <1>9
  <2>2. \A i \in todo : listed.orders[i] = NoOrder
    BY <1>7, <1>8
  <2>. HIDE DEF none
  <2>. QED  BY <1>1, <1>7, <2>1, <2>2, AnswerIInv
<1>10. CASE op.kind # "complete" /\ op' = NoOp
  <2>1. SInv'
    BY <1>1, <1>2, <1>3, <1>10 DEF SInv, TypeOK, PhaseInv, HookInv, OpInv, durable, access, handlers,
       checkpoint, connections
  <2>2. HistoryInv'
    <3>1. \A i \in OrderIds : (i \in todo' \/ Relisting(i)') <=> (i \in todo \/ Relisting(i))
      BY <1>1, <1>3, <1>10 DEF Relisting
    <3>. QED  BY <1>1, <1>2, <1>3, <1>10, <3>1, OperationHistory DEF checkpoint
  <2>3. UsersInv'
    BY <1>1, <1>2, <1>10, OperationUsers DEF checkpoint, handlers
  <2>. QED  BY <2>1, <2>2, <2>3 DEF IInv
<1>11. ASSUME NEW other \in Counterparties(o) \ {id},
              op' = [op EXCEPT !.step = "append", !.trades = {trade(other)}, !.change = fill(other)]
       PROVE  IInv'
  <2>. DEFINE maker == mem.orders[other]
              n == q(other)
              x == p(other)
              c == FillEvents(listed, id, o, n, x)
              d == FillEvents(c, other, maker, n, x)
  <2>1. /\ other \in OrderIds /\ other # id /\ maker # NoOrder /\ maker.eid # 0
        /\ EngineSide(maker.side) # EngineSide(o.side)
        /\ IF EngineSide(o.side) = "buy" THEN Crosses(o, maker) ELSE Crosses(maker, o)
    BY DEF Counterparties, OnBook
  <2>2. Continues(other, maker)
    BY <1>4, <2>1
  <2>3. /\ o \in Order /\ maker \in Order /\ ValidPrice(o.price) /\ ValidPrice(maker.price)
        /\ Remaining(o) \in Nat /\ Remaining(maker) \in Nat
    BY <1>6, <2>2 DEF Continues, RowSound, Order, Remaining
  <2>4. n \in Nat /\ n <= Remaining(o) /\ n <= Remaining(maker)
    BY <2>3, MinOfTwo
  <2>5. x = EnginePrice(maker.side, maker.price)
    OBVIOUS
  <2>6. d = fill(other)
    OBVIOUS
  <2>7. trade(other) \in Trades /\ trade(other).qty = n
    <3>1. id \in OrderIds
      BY <1>3 DEF id
    <3>2. trade(other) = IF EngineSide(o.side) = "buy"
                         THEN [buy |-> id, sell |-> other, qty |-> n]
                         ELSE [buy |-> other, sell |-> id, qty |-> n]
      OBVIOUS
    <3>. HIDE DEF n, trade
    <3>. QED  BY <2>1, <2>4, <3>1, <3>2 DEF Trades
  <2>. HIDE DEF n, x, maker
  <2>8. x \in Nat /\ FillCredit(o, n, x) \in Nat /\ FillCredit(maker, n, x) \in Nat
    BY <2>1, <2>3, <2>4, <2>5, TradeCredits
  <2>9. o.filled + n <= o.qty /\ maker.filled + n <= maker.qty /\ n <= o.qty
    BY <2>3, <2>4 DEF Remaining, Order
  <2>10. id \in OrderIds
    BY <1>3 DEF id
  <2>11. Staged(c) /\ c.orders = [listed.orders EXCEPT ![id] = FilledOrder(o, n)]
    BY <1>2, <1>6, <1>7, <2>3, <2>4, <2>8, <2>9, <2>10, StagedFill DEF Continues
  <2>. HIDE DEF c
  <2>12. Staged(d) /\ d.orders = [c.orders EXCEPT ![other] = FilledOrder(maker, n)]
    BY <1>2, <2>1, <2>2, <2>3, <2>4, <2>8, <2>9, <2>11, StagedFill DEF Continues
  <2>. HIDE DEF d
  <2>13. /\ listed.orders \in [OrderIds -> Order \cup {NoOrder}]
         /\ c.orders \in [OrderIds -> Order \cup {NoOrder}]
    BY <1>7, <2>11 DEF Staged, LedgerType
  <2>14. /\ d.orders[id] = FilledOrder(o, n)
         /\ \A i \in OrderIds \ {id, other} : d.orders[i] = NoOrder
    BY <1>7, <2>1, <2>10, <2>11, <2>12, <2>13
  <2>15. FilledOrder(o, n) # NoOrder /\ FilledOrder(o, n).qty = o.qty
    BY <2>3, <2>4, FilledOrderKept, ServerAssumption DEF SameOrder
  <2>16. \A i \in todo : d.orders[i] = NoOrder
    <3>1. \A i \in todo : i # other
      BY <1>8, <2>1 DEF maker
    <3>. QED  BY <1>8, <2>14, <3>1
  <2>17. \A y \in {trade(other)} : \E i \in OrderIds :
           d.orders[i] # NoOrder /\ y.qty <= d.orders[i].qty
    BY <2>7, <2>9, <2>10, <2>14, <2>15
  <2>18. op' = [op EXCEPT !.step = "append", !.change = d, !.trades = {trade(other)}]
    <3>. HIDE DEF trade, fill
    <3>. QED  BY <1>11, <2>6
  <2>19. {trade(other)} \in SUBSET Trades
    BY <2>7
  <2>. HIDE DEF trade
  <2>. QED  BY <1>1, <2>12, <2>16, <2>17, <2>18, <2>19, AnswerIInv
<1>. QED  BY <1>1, <1>9, <1>10, <1>11

-----------------------------------------------------------------------------
(* Whoever is registered stays so. *)
LEMMA KnownMonotone ==
  ASSUME NEW us, NEW vs, us \subseteq vs, NEW l, KnownTo(us, l)
  PROVE  KnownTo(vs, l)
BY DEF KnownTo

(* A commit and a replayed record name whom the ledger or the change named. *)
LEMMA KnownApply ==
  ASSUME NEW us, NEW l \in LedgerType, NEW c \in LedgerType, KnownTo(us, l), KnownTo(us, c)
  PROVE  KnownTo(us, Apply(l, c))
<1>1. \A u \in Users : Apply(l, c).cash[u] = l.cash[u] + c.cash[u]
  BY DEF Apply
<1>2. \A u \in Users : l.cash[u] \in Int /\ c.cash[u] \in Int
  BY DEF LedgerType
<1>3. \A u \in Users : Apply(l, c).cash[u] # 0 => l.cash[u] # 0 \/ c.cash[u] # 0
  BY <1>1, <1>2
<1>. QED  BY <1>3, ApplyLedger DEF KnownTo

(* replayFile names nobody new. *)
LEMMA KnownReplayed ==
  ASSUME NEW us, NEW l \in LedgerType, NEW r \in Record, KnownTo(us, l), KnownTo(us, r.change)
  PROVE  KnownTo(us, Replayed(l, r))
<1>1. KnownTo(us, Apply(l, r.change))
  BY KnownApply DEF Record
<1>. QED  BY <1>1, ReplayedLedger DEF KnownTo

(* A sequence names nobody. *)
LEMMA KnownMoved ==
  ASSUME NEW us, NEW l \in LedgerType, KnownTo(us, l), NEW n \in Nat
  PROVE  KnownTo(us, [l EXCEPT !.sequence = n])
BY SequenceMoved DEF KnownTo

(* The owners in the tables. *)
OwnersKnown(us, t) ==
  \A m \in Markets : t.markets[m] # NoMarket => t.markets[m].owner \in us

(* A projected record brings owners its change names. *)
LEMMA OwnersProjected ==
  ASSUME NEW us, NEW t, OwnersKnown(us, t), NEW r, KnownTo(us, r.change)
  PROVE  OwnersKnown(us, ApplyBatch(t, r))
<1>1. CASE ~Admitted(t, r)
  BY <1>1 DEF ApplyBatch
<1>2. CASE Admitted(t, r)
  <2>1. ApplyBatch(t, r).markets = [m \in Markets |->
          IF r.change.markets[m] = NoMarket THEN t.markets[m] ELSE r.change.markets[m]]
    BY <1>2 DEF ApplyBatch
  <2>. QED  BY <2>1 DEF OwnersKnown, KnownTo
<1>. QED  BY <1>1, <1>2

(* The names in what is durable. *)
DurableUsers ==
  /\ tokens \subseteq users
  /\ KnownTo(users, snapshot)
  /\ \A i \in 1..Len(log) : KnownTo(users, log[i].change)
  /\ OwnersKnown(users, tables)

(* The durable part of UsersInv. *)
LEMMA UsersDurable ==
  ASSUME UsersInv
  PROVE  DurableUsers
BY DEF UsersInv, DurableUsers, OwnersKnown

(* After an exit only the durable names are left. *)
LEMMA ExitUsers ==
  ASSUME Exit, DurableUsers'
  PROVE  UsersInv'
<1>1. KnownTo(users', Empty)
  BY EmptyLedger DEF KnownTo, Empty
<1>2. /\ mem' = Empty /\ waiting' = {} /\ placing' = NoRequest /\ frozen' = NoSnapshot
      /\ op' = NoOp /\ queue' = <<>>
  BY DEF Exit
<1>3. \A i \in 1..Len(queue') : queue'[i].user \in users'
  BY <1>2
<1>. QED  BY <1>1, <1>2, <1>3 DEF UsersInv, DurableUsers, OwnersKnown

(* s.fail keeps the names there were. *)
LEMMA FailUsers ==
  ASSUME SInv, UsersInv, op # NoOp, NEW n \in Nat, Fail(n), DurableUsers', UNCHANGED access
  PROVE  UsersInv'
<1>1. CASE phase = "recover"
  BY <1>1, ExitUsers DEF Fail
<1>2. CASE phase # "recover"
  <2>1. /\ op' = NoOp /\ mem' = [mem EXCEPT !.sequence = n]
        /\ placing' \in {placing, NoRequest}
        /\ UNCHANGED <<waiting, queue, frozen, users, tokens>>
    BY <1>2 DEF Fail, checkpoint, access
  <2>2. KnownTo(users, mem')
    BY <2>1, KnownMoved DEF SInv, TypeOK, UsersInv
  <2>. QED  BY <2>1, <2>2 DEF UsersInv, DurableUsers, OwnersKnown
<1>. QED  BY <1>1, <1>2

(* A record that is appended names whom its change names. *)
LEMMA LoggedKnown ==
  ASSUME SInv, UsersInv, op # NoOp, NEW n \in Nat \ {0}, log' = Append(log, RecordOf(n)),
         UNCHANGED users
  PROVE  \A i \in 1..Len(log') : KnownTo(users', log'[i].change)
<1>1. log \in Seq(Record) /\ op \in OperationType
  BY DEF SInv, TypeOK
<1>2. KnownTo(users, RecordOf(n).change)
  BY <1>1, RecordOfType DEF UsersInv
<1>3. /\ Len(log') = Len(log) + 1 /\ log'[Len(log) + 1] = RecordOf(n)
      /\ \A i \in 1..Len(log) : log'[i] = log[i] /\ Len(log) \in Nat
  BY <1>1, RecordOfType
<1>. QED  BY <1>2, <1>3 DEF UsersInv

(* Appending, projecting and failing to. *)
LEMMA CommitUsers ==
  ASSUME SInv, UsersInv, op # NoOp /\ op.step = "project" => mem.sequence \in Nat \ {0},
         \/ AppendRecord \/ AppendFails \/ ProjectRecord \/ ProjectRefused \/ ProjectFails
         \/ EngineFails
  PROVE  UsersInv'
<1>0. /\ DurableUsers /\ op # NoOp /\ op \in OperationType /\ op.change \in LedgerType
      /\ KnownTo(users, op.change) /\ mem \in LedgerType /\ KnownTo(users, mem)
      /\ mem.sequence \in Nat /\ mem.sequence + 1 \in Nat \ {0}
  BY UsersDurable DEF AppendRecord, AppendFails, ProjectRecord, ProjectRefused, ProjectFails,
     EngineFails, SInv, TypeOK, OperationType, UsersInv, LedgerType
<1>1. UNCHANGED <<users, tokens>>
  BY DEF AppendRecord, AppendFails, ProjectRecord, ProjectRefused, ProjectFails, EngineFails,
     access
<1>2. ASSUME log' = Append(log, RecordOf(mem.sequence + 1))
      PROVE  \A i \in 1..Len(log') : KnownTo(users', log'[i].change)
  BY <1>0, <1>1, <1>2, LoggedKnown
<1>3. ASSUME mem.sequence \in Nat \ {0}, tables' = ApplyBatch(tables, RecordOf(mem.sequence))
      PROVE  OwnersKnown(users', tables')
  <2>1. KnownTo(users, RecordOf(mem.sequence).change)
    BY <1>0, <1>3, RecordOfType
  <2>. QED  BY <1>0, <1>1, <1>3, <2>1, OwnersProjected DEF DurableUsers
<1>4. CASE AppendRecord
  <2>1. /\ op'.change = op.change /\ mem' = [mem EXCEPT !.sequence = mem.sequence + 1]
        /\ log' = Append(log, RecordOf(mem.sequence + 1))
        /\ UNCHANGED <<snapshot, tables, waiting, queue, placing, frozen>>
    BY <1>0, <1>4 DEF AppendRecord, OperationType, handlers, checkpoint
  <2>2. KnownTo(users, mem')
    BY <1>0, <2>1, KnownMoved
  <2>. QED  BY <1>0, <1>1, <1>2, <2>1, <2>2 DEF UsersInv
<1>5. CASE AppendFails
  <2>1. DurableUsers'
    BY <1>0, <1>1, <1>2, <1>5 DEF AppendFails, DurableUsers
  <2>. QED  BY <1>0, <1>5, <2>1, FailUsers DEF AppendFails
<1>6. CASE ProjectRecord
  <2>1. /\ tables' = ApplyBatch(tables, RecordOf(mem.sequence)) /\ mem' = Apply(mem, op.change)
        /\ placing' \in {placing, NoRequest} /\ op.step = "project"
        /\ UNCHANGED <<log, snapshot, waiting, queue, frozen>>
    BY <1>6 DEF ProjectRecord, AfterCommit, checkpoint
  <2>2. op' # NoOp => op'.change = op.change
    BY <1>0, <1>6 DEF ProjectRecord, AfterCommit, OperationType
  <2>3. KnownTo(users, mem') /\ OwnersKnown(users', tables')
    BY <1>0, <1>3, <2>1, KnownApply
  <2>. QED  BY <1>0, <1>1, <2>1, <2>2, <2>3 DEF UsersInv, OwnersKnown
<1>7. CASE ProjectRefused \/ EngineFails
  <2>1. DurableUsers'
    BY <1>0, <1>1, <1>7 DEF ProjectRefused, EngineFails, durable, DurableUsers
  <2>. QED  BY <1>0, <1>7, <2>1, FailUsers DEF ProjectRefused, EngineFails
<1>8. CASE ProjectFails
  <2>1. DurableUsers'
    BY <1>0, <1>1, <1>3, <1>8 DEF ProjectFails, DurableUsers
  <2>. QED  BY <1>0, <1>8, <2>1, FailUsers DEF ProjectFails
<1>. QED  BY <1>4, <1>5, <1>6, <1>7, <1>8

(* Requests and registrations. *)
LEMMA ClientUsers ==
  ASSUME SInv, UsersInv, Client
  PROVE  UsersInv'
<1>1. ASSUME NEW u \in Users, Register(u) \/ RegisterFails(u) \/ Login(u)
      PROVE  UsersInv'
  <2>1. /\ users \subseteq users' /\ tokens' \subseteq users'
        /\ UNCHANGED <<log, snapshot, tables, mem, waiting, queue, placing, op, frozen>>
    BY <1>1 DEF Register, RegisterFails, Login, TokensAfterFailedInsert, UsersInv, durable,
       handlers, checkpoint
  <2>2. /\ KnownTo(users', mem) /\ KnownTo(users', snapshot)
        /\ \A i \in 1..Len(log) : KnownTo(users', log[i].change)
        /\ frozen # NoSnapshot => KnownTo(users', frozen)
        /\ op # NoOp => KnownTo(users', op.change)
    BY <2>1, KnownMonotone DEF UsersInv
  <2>. QED  BY <2>1, <2>2 DEF UsersInv
<1>2. ASSUME NEW r \in Requests, Submit(r)
      PROVE  UsersInv'
  BY <1>2 DEF UsersInv, Submit, durable, access, checkpoint
<1>. QED  BY <1>1, <1>2 DEF Client

(* The queue and the worker. *)
LEMMA QueueUsers ==
  ASSUME SInv, UsersInv, TakeOrder \/ RejectOrder \/ \E r \in waiting : Enqueue(r) \/ Rejects(r)
  PROVE  UsersInv'
<1>1. UNCHANGED <<log, snapshot, tables, users, tokens, mem, op, frozen>>
  BY DEF TakeOrder, RejectOrder, Enqueue, Rejects, durable, access, checkpoint
<1>2. queue \in Seq(Orders)
  BY DEF SInv, TypeOK
<1>. DEFINE Named == /\ waiting' \subseteq waiting
                     /\ \A i \in 1..Len(queue') : queue'[i].user \in users
                     /\ placing' # NoRequest => placing'.user \in users
<1>3. CASE TakeOrder
  <2>1. /\ Len(queue) >= 1 /\ queue' = Tail(queue) /\ placing' = queue[1]
        /\ waiting' = waiting
    BY <1>2, <1>3 DEF TakeOrder
  <2>2. /\ Len(queue') = Len(queue) - 1 /\ Len(queue) \in Nat
        /\ \A i \in 1..Len(queue') : queue'[i] = queue[i + 1]
    BY <1>2, <2>1
  <2>3. \A i \in 1..Len(queue) : queue[i].user \in users
    BY DEF UsersInv
  <2>4. \A i \in 1..Len(queue') : queue'[i].user \in users
    <3>1. \A i \in 1..Len(queue') : i + 1 \in 1..Len(queue)
      BY <2>2
    <3>. QED  BY <2>2, <2>3, <3>1
  <2>5. placing'.user \in users
    BY <2>1, <2>2, <2>3
  <2>6. Named
    BY <2>1, <2>4, <2>5
  <2>. QED  BY <1>1, <2>6 DEF UsersInv
<1>4. CASE RejectOrder
  <2>1. Named
    BY <1>4 DEF RejectOrder, UsersInv
  <2>. QED  BY <1>1, <2>1 DEF UsersInv
<1>5. ASSUME NEW r \in waiting, Rejects(r)
      PROVE  UsersInv'
  <2>1. Named
    BY <1>5 DEF Rejects, UsersInv
  <2>. QED  BY <1>1, <2>1 DEF UsersInv
<1>6. ASSUME NEW r \in waiting, Enqueue(r)
      PROVE  UsersInv'
  <2>1. r \in Orders /\ r.user \in users
    BY <1>6, ServerAssumption DEF Enqueue, Orders, OrderRequest, OtherRequest, UsersInv, SInv, TypeOK
  <2>2. \A i \in 1..Len(queue') : queue'[i].user \in users
    <3>1. CASE queue' = queue
      BY <3>1 DEF UsersInv
    <3>2. CASE queue' = Append(queue, r)
      <4>1. /\ Len(queue') = Len(queue) + 1 /\ queue'[Len(queue) + 1] = r /\ Len(queue) \in Nat
            /\ \A i \in 1..Len(queue) : queue'[i] = queue[i]
        BY <1>2, <2>1, <3>2
      <4>. QED  BY <2>1, <4>1 DEF UsersInv
    <3>. QED  BY <1>6, <3>1, <3>2 DEF Enqueue
  <2>3. Named
    BY <1>6, <2>2 DEF Enqueue, UsersInv
  <2>. QED  BY <1>1, <2>3 DEF UsersInv
<1>. QED  BY <1>3, <1>4, <1>5, <1>6

-----------------------------------------------------------------------------
(* A checkpoint freezes, publishes and covers what is there. *)
LEMMA CheckpointUsers ==
  ASSUME SInv, HistoryInv, UsersInv, Freeze \/ Publish \/ CheckpointFails
  PROVE  UsersInv'
<1>1. CASE Freeze
  BY <1>1 DEF Freeze, UsersInv, durable, access, handlers
<1>2. CASE CheckpointFails
  BY <1>2 DEF CheckpointFails, CheckpointEnds, UsersInv, access, handlers
<1>3. CASE Publish
  <2>1. /\ frozen # NoSnapshot /\ snapshot' = frozen /\ frozen' = NoSnapshot
        /\ log' = RecordsAfter(log, frozen.sequence)
        /\ UNCHANGED <<tables, users, tokens, mem, op, waiting, queue, placing>>
    BY <1>3 DEF Publish, CheckpointEnds, access, handlers
  <2>2. PICK h, p : DurableInv(h, p)
    BY DEF HistoryInv
  <2>. DEFINE b == snapshot.sequence
              n == frozen.sequence
  <2>3. b \in Nat /\ Len(log) \in Nat /\ LastSequence = b + Len(log)
    BY DEF SInv, TypeOK, LedgerType, LastSequence
  <2>4. n \in b..LastSequence
    <3>1. n \in b..p /\ p \in b..LastSequence
      BY <2>1, <2>2 DEF DurableInv, LedgersOf, ProjectedTo
    <3>. QED  BY <2>3, <3>1
  <2>5. /\ Len(log') = LastSequence - n
        /\ \A j \in 1..(LastSequence - n) : log'[j] = log[n - b + j]
    BY <2>1, <2>2, <2>4, TailOfLog DEF DurableInv
  <2>. HIDE DEF n, b
  <2>6. \A j \in 1..(LastSequence - n) : n - b + j \in 1..Len(log)
    BY <2>3, <2>4
  <2>7. \A j \in 1..Len(log') : KnownTo(users, log'[j].change)
    BY <2>5, <2>6 DEF UsersInv
  <2>. QED  BY <2>1, <2>7 DEF UsersInv
<1>. QED  BY <1>1, <1>2, <1>3

(* Start-up reads names and brings in none. *)
LEMMA StartupUsers ==
  ASSUME SInv, HistoryInv, UsersInv,
         Launch \/ Migrate \/ RecoverDone \/ ReplayRecord \/ ReplayDone \/ StartupFails
  PROVE  UsersInv'
<1>1. CASE Launch \/ Migrate \/ RecoverDone
  BY <1>1 DEF Launch, Migrate, RecoverDone, UsersInv, durable, access, handlers, checkpoint
<1>2. ASSUME phase = "replay", Unreplayed # <<>>
      PROVE  Head(Unreplayed) \in Record /\ KnownTo(users, Head(Unreplayed).change)
  <2>1. PICK h, p : DurableInv(h, p)
    BY DEF HistoryInv
  <2>. DEFINE i == mem.sequence - snapshot.sequence + 1
  <2>2. i \in 1..Len(log) /\ Head(Unreplayed) = log[i] /\ log[i] \in Record
    BY <1>2, <2>1, NextToReplay
  <2>. QED  BY <2>2 DEF UsersInv
<1>3. OwnersKnown(users, tables)
  BY UsersDurable DEF DurableUsers
<1>4. CASE ReplayRecord
  <2>. DEFINE r == Head(Unreplayed)
  <2>1. /\ r \in Record /\ KnownTo(users, r.change)
        /\ tables' = ApplyBatch(tables, r) /\ mem' = Replayed(mem, r)
        /\ UNCHANGED <<log, snapshot, users, tokens, waiting, queue, placing, op, frozen>>
    BY <1>2, <1>4 DEF ReplayRecord, Replayed, access, handlers, checkpoint
  <2>. HIDE DEF r
  <2>2. KnownTo(users, mem') /\ OwnersKnown(users, tables')
    BY <1>3, <2>1, KnownReplayed, OwnersProjected DEF SInv, TypeOK, UsersInv
  <2>. QED  BY <2>1, <2>2 DEF UsersInv, OwnersKnown
<1>5. CASE ReplayDone
  <2>1. UNCHANGED <<log, snapshot, tables, users, tokens, waiting, queue, placing, op, frozen>>
    BY <1>5 DEF ReplayDone, durable, access, handlers, checkpoint
  <2>2. mem \in LedgerType
    BY DEF SInv, TypeOK
  <2>3. mem'.cash = mem.cash /\ mem'.markets = mem.markets
    BY <1>5, <2>2 DEF ReplayDone, LedgerType
  <2>4. \A id \in OrderIds : mem'.orders[id] # NoOrder =>
          mem.orders[id] # NoOrder /\ mem'.orders[id].user = mem.orders[id].user
    <3>. DEFINE orders == [id \in OrderIds |-> IF Active(mem.orders[id])
                             THEN [mem.orders[id] EXCEPT !.eid = 0] ELSE mem.orders[id]]
    <3>1. mem'.orders = orders
      BY <1>5, <2>2 DEF ReplayDone, LedgerType
    <3>2. \A id \in OrderIds : mem.orders[id] \in Order \cup {NoOrder}
      BY <2>2 DEF LedgerType
    <3>3. \A id \in OrderIds : orders[id] # NoOrder =>
            mem.orders[id] # NoOrder /\ orders[id].user = mem.orders[id].user
      BY <3>2 DEF Active, Order
    <3>. QED  BY <3>1, <3>3
  <2>5. KnownTo(users, mem')
    BY <2>3, <2>4 DEF UsersInv, KnownTo
  <2>. QED  BY <2>1, <2>5 DEF UsersInv
<1>6. CASE StartupFails
  <2>1. Exit /\ UNCHANGED <<log, snapshot, users, tokens>>
    BY <1>6 DEF StartupFails, access
  <2>2. OwnersKnown(users, tables')
    <3>1. CASE tables' = tables
      BY <1>3, <3>1
    <3>2. CASE tables' # tables
      <4>1. /\ phase = "replay" /\ Unreplayed # <<>>
            /\ tables' = ApplyBatch(tables, Head(Unreplayed))
        BY <1>6, <3>2 DEF StartupFails
      <4>. QED  BY <1>2, <1>3, <4>1, OwnersProjected
    <3>. QED  BY <3>1, <3>2
  <2>3. DurableUsers'
    BY <2>1, <2>2, UsersDurable DEF DurableUsers
  <2>. QED  BY <2>1, <2>3, ExitUsers
<1>. QED  BY <1>1, <1>4, <1>5, <1>6
-----------------------------------------------------------------------------
(* The invariant, step by step. *)

(* Start-up and its failure. *)
LEMMA StartupIInv ==
  ASSUME IInv, Startup \/ StartupFails
  PROVE  IInv'
<1>0. SInv /\ HistoryInv /\ UsersInv
  BY DEF IInv
<1>1. CASE Launch \/ Migrate \/ RecoverDone
  BY <1>0, <1>1, StartupSInv, LaunchHistory, StartupUsers DEF IInv
<1>2. CASE ReplayRecord
  <2>1. HistoryInv' /\ tables' \in TablesType /\ mem' \in LedgerType
    BY <1>0, <1>2, ReplayRecordHistory
  <2>2. SInv'
    BY <1>0, <1>2, <2>1 DEF SInv, TypeOK, PhaseInv, HookInv, OpInv, ReplayRecord, access,
       handlers, connections, checkpoint
  <2>. QED  BY <1>0, <1>2, <2>1, <2>2, StartupUsers DEF IInv
<1>3. CASE ReplayRefused
  <2>1. Exit /\ UNCHANGED <<durable, access, faults>>
    BY <1>3 DEF ReplayRefused
  <2>2. SInv'
    BY <1>0, <2>1, ExitSInv DEF SInv, TypeOK, durable, access
  <2>3. HistoryInv'
    BY <1>0, <2>1, ExitHistory, DurableUnchanged
  <2>4. DurableUsers'
    BY <1>0, <2>1, UsersDurable DEF DurableUsers, durable, access
  <2>. QED  BY <2>1, <2>2, <2>3, <2>4, ExitUsers DEF IInv
<1>4. CASE ReplayDone
  BY <1>0, <1>4, ReplayDoneHistory, StartupUsers DEF IInv
<1>5. CASE \E id \in todo : RecoverNext(id)
  BY <1>5, RecoverNextIInv
<1>6. CASE StartupFails
  <2>1. HistoryInv' /\ tables' \in TablesType
    BY <1>0, <1>6, StartupFailsHistory
  <2>2. faults' \in 0..MaxFaults
    BY <1>0, <1>6, FaultCounted DEF SInv, StartupFails
  <2>3. SInv'
    BY <1>0, <1>6, <2>1, <2>2, ExitSInv DEF SInv, TypeOK, StartupFails, access
  <2>. QED  BY <1>0, <1>6, <2>1, <2>3, StartupUsers DEF IInv
<1>. QED  BY <1>1, <1>2, <1>3, <1>4, <1>5, <1>6 DEF Startup

(* An operation under s.mu, and its failure. *)
LEMMA CommitIInv ==
  ASSUME IInv, Operation \/ AppendFails \/ ProjectFails
  PROVE  IInv'
<1>0. SInv /\ HistoryInv /\ UsersInv
  BY DEF IInv
<1>1. op # NoOp /\ op.step = "project" => mem.sequence \in Nat \ {0}
  <2>1. PICK h, p : DurableInv(h, p)
    BY <1>0 DEF HistoryInv
  <2>. QED  BY <1>0, <2>1, ProjectFacts
<1>2. CASE AppendRecord
  BY <1>0, <1>1, <1>2, AppendSInv, AppendHistory, CommitUsers DEF IInv
<1>3. CASE ProjectRecord
  <2>1. SInv'
    BY <1>0, <1>1, <1>3, ProjectSInv DEF ProjectRecord
  <2>. QED  BY <1>0, <1>1, <1>3, <2>1, ProjectHistory, CommitUsers DEF IInv
<1>4. CASE ProjectRefused \/ EngineFails
  BY <1>0, <1>1, <1>4, CommitFailsSInv, RefusedHistory, CommitUsers DEF IInv
<1>5. CASE AppendFails
  BY <1>0, <1>1, <1>5, CommitFailsSInv, AppendFailsHistory, CommitUsers DEF IInv
<1>6. CASE ProjectFails
  BY <1>0, <1>1, <1>6, CommitFailsSInv, ProjectFailsHistory, CommitUsers DEF IInv
<1>7. CASE EngineAnswers
  BY <1>7, EngineAnswersIInv
<1>. QED  BY <1>2, <1>3, <1>4, <1>5, <1>6, <1>7 DEF Operation

(* Clients, handlers and the worker. *)
LEMMA HandlerIInv ==
  ASSUME IInv, Client \/ Handler
  PROVE  IInv'
<1>0. SInv /\ HistoryInv /\ UsersInv
  BY DEF IInv
<1>1. CASE Client
  <2>1. UNCHANGED <<durable, mem, op, todo, phase, frozen, failed>>
    BY <1>1 DEF Client, Register, RegisterFails, Login, Submit, checkpoint
  <2>2. HistoryInv'
    BY <1>0, <2>1, HistoryFrame
  <2>. QED  BY <1>0, <1>1, <2>2, ClientSInv, ClientUsers DEF IInv
<1>2. CASE TakeOrder \/ RejectOrder \/ \E r \in waiting : Enqueue(r) \/ Rejects(r)
  <2>1. UNCHANGED <<durable, mem, op, todo, phase, frozen, failed>>
    BY <1>2 DEF TakeOrder, RejectOrder, Enqueue, Rejects, checkpoint
  <2>2. HistoryInv'
    BY <1>0, <2>1, HistoryFrame
  <2>. QED  BY <1>0, <1>2, <2>2, QueueSInv, QueueUsers DEF IInv
<1>3. ASSUME NEW r \in waiting, CancelUncertain(r)
      PROVE  IInv'
  <2>1. /\ UNCHANGED <<durable, access, mem, op, todo, phase, frozen, queue, placing>>
        /\ failed' = TRUE /\ op = NoOp /\ waiting' = waiting \ {r}
    BY <1>3 DEF CancelUncertain, Holds, checkpoint
  <2>2. HistoryInv'
    BY <1>0, <2>1, HistoryFrame
  <2>3. UsersInv'
    BY <1>0, <2>1, OperationUsers
  <2>. QED  BY <1>0, <1>3, <2>2, <2>3, CancelUncertainSInv DEF IInv
<1>4. CASE \E r \in waiting : CreateMarket(r) \/ Deposit(r) \/ Cancel(r)
  BY <1>4, CreateMarketIInv, DepositIInv, CancelIInv
<1>5. CASE PlaceOrder
  BY <1>5, PlaceOrderIInv
<1>. QED  BY <1>1, <1>2, <1>3, <1>4, <1>5 DEF Handler

(* Checkpoints. *)
LEMMA CheckpointIInv ==
  ASSUME IInv, Checkpoint
  PROVE  IInv'
<1>0. SInv /\ HistoryInv /\ UsersInv
  BY DEF IInv
<1>1. UsersInv'
  BY <1>0, CheckpointUsers DEF Checkpoint
<1>2. CASE Freeze
  BY <1>0, <1>1, <1>2, CheckpointSInv, FreezeHistory DEF IInv
<1>3. CASE CheckpointFails
  BY <1>0, <1>1, <1>3, CheckpointSInv, CheckpointFailsHistory DEF IInv
<1>4. CASE Publish
  BY <1>0, <1>1, <1>4, CheckpointSInv, PublishHistory DEF IInv
<1>. QED  BY <1>2, <1>3, <1>4 DEF Checkpoint

(* The hook, and the ways a process ends. *)
LEMMA ShutdownIInv ==
  ASSUME IInv, Shutdown \/ OperatorStops \/ Crash
  PROVE  IInv'
<1>0. SInv /\ HistoryInv /\ UsersInv
  BY DEF IInv
<1>1. CASE Signal \/ HookStopsTicker \/ HookSkipsSnapshot \/ HookCloses
           \/ HookClosesEngine \/ HookClosesDatabase
  <2>1. /\ UNCHANGED <<durable, access, mem, op, todo, phase, frozen, failed, queue, placing>>
        /\ waiting' = waiting
    BY <1>1 DEF Signal, HookStopsTicker, HookSkipsSnapshot, HookCloses, HookClosesEngine,
       HookClosesDatabase, checkpoint, handlers
  <2>2. HistoryInv'
    BY <1>0, <2>1, HistoryFrame
  <2>3. UsersInv'
    BY <1>0, <2>1 DEF UsersInv, durable, access
  <2>. QED  BY <1>0, <1>1, <2>2, <2>3, ShutdownSInv DEF IInv
<1>2. CASE MainReturns \/ OperatorStops \/ Crash
  <2>1. Exit /\ UNCHANGED <<durable, access>>
    BY <1>2 DEF MainReturns, OperatorStops, Crash
  <2>2. faults' \in 0..MaxFaults
    BY <1>0, <1>2, FaultCounted DEF SInv, TypeOK, MainReturns, OperatorStops, Crash
  <2>3. SInv'
    BY <1>0, <2>1, <2>2, ExitSInv DEF SInv, TypeOK, durable, access
  <2>4. HistoryInv'
    BY <1>0, <2>1, ExitHistory, DurableUnchanged
  <2>5. DurableUsers'
    BY <1>0, <2>1, UsersDurable DEF DurableUsers, durable, access
  <2>. QED  BY <2>1, <2>3, <2>4, <2>5, ExitUsers DEF IInv
<1>. QED  BY <1>1, <1>2 DEF Shutdown

(* A step of something else. *)
LEMMA StutterIInv ==
  ASSUME IInv, UNCHANGED vars
  PROVE  IInv'
<1>1. UNCHANGED <<durable, access, mem, op, todo, phase, frozen, failed, waiting, queue, placing>>
  BY DEF vars, handlers, checkpoint
<1>2. SInv'
  BY DEF IInv, SInv, TypeOK, PhaseInv, HookInv, OpInv, vars, durable, access, handlers,
     connections, checkpoint
<1>3. HistoryInv'
  BY <1>1, HistoryFrame DEF IInv
<1>4. UsersInv'
  BY <1>1 DEF IInv, UsersInv, durable, access
<1>. QED  BY <1>2, <1>3, <1>4 DEF IInv

(* The invariant holds at first. *)
LEMMA InitIInv ==
  ASSUME Init
  PROVE  IInv
<1>1. KnownTo(users, Empty)
  BY EmptyLedger DEF KnownTo, Empty
<1>2. UsersInv
  BY <1>1, EmptyLedger DEF UsersInv, Init, EmptyTables
<1>. QED  BY <1>2, InitSInv, InitHistory DEF IInv

(* Every step preserves it. *)
LEMMA NextIInv ==
  ASSUME IInv, [Next]_vars
  PROVE  IInv'
<1>1. CASE Next
  BY <1>1, StartupIInv, CommitIInv, HandlerIInv, CheckpointIInv, ShutdownIInv DEF Next
<1>2. CASE UNCHANGED vars
  BY <1>2, StutterIInv
<1>. QED  BY <1>1, <1>2

-----------------------------------------------------------------------------
(* A record made for the tables fits them unless a value is too wide for its
   column. *)
LEMMA MadeFits ==
  ASSUME tables \in TablesType, NEW r \in Record, MadeFor(tables, r.change, r.trades),
         ~TooWide(r)
  PROVE  Fits(tables, r)
<1>. DEFINE c == r.change
<1>1. c \in LedgerType /\ r.trades \subseteq Trades
  BY DEF Record
<1>2. /\ \A u \in Users : tables.balances[u] + c.cash[u] \in Int
      /\ \A id \in OrderIds : c.orders[id] \in Order \cup {NoOrder}
  BY <1>1 DEF TablesType, LedgerType
<1>3. BalancesFit(tables, c)
  BY <1>2, WidthAssumption DEF BalancesFit, MadeFor, TooWide
<1>4. ASSUME NEW id \in OrderIds, c.orders[id] # NoOrder
      PROVE  /\ OrderFits(tables, c, c.orders[id])
             /\ c.orders[id].qty \in Nat /\ c.orders[id].qty <= MaxInt
  <2>. DEFINE o == c.orders[id]
  <2>1. o \in Order /\ RowSound(tables, o) /\ ~(o.qty > MaxInt)
    BY <1>2, <1>4 DEF MadeFor, TooWide
  <2>. HIDE DEF o
  <2>2. o.qty \in 1..MaxInt /\ o.filled \in 0..MaxInt
    BY <2>1, WidthAssumption DEF RowSound, Order
  <2>. QED  BY <2>1, <2>2 DEF OrderFits, RowSound, o
<1>5. ASSUME NEW x \in r.trades
      PROVE  x.qty <= MaxInt
  <2>1. PICK id \in OrderIds : c.orders[id] # NoOrder /\ x.qty <= c.orders[id].qty
    BY <1>5 DEF MadeFor
  <2>2. x.qty \in Nat
    BY <1>1 DEF Trades
  <2>3. c.orders[id].qty \in Nat /\ c.orders[id].qty <= MaxInt
    BY <1>4, <2>1
  <2>. QED  BY <2>1, <2>2, <2>3, WidthAssumption
<1>6. SymbolsFit(tables, c) /\ PositionsFit(tables, c)
  BY DEF MadeFor
<1>. QED  BY <1>3, <1>4, <1>5, <1>6 DEF Fits

(* The next record to replay is one PostgreSQL has, and skips, or the last one,
   which was made for it. *)
LEMMA WidthFromIInv ==
  ASSUME IInv
  PROVE  OnlyWidthStopsReplay
<1>. SUFFICES ASSUME phase = "replay", Unreplayed # <<>>, ~Fits(tables, Head(Unreplayed)),
                     ~TooWide(Head(Unreplayed))
              PROVE  FALSE
  BY DEF OnlyWidthStopsReplay
<1>1. PICK h, p : DurableInv(h, p)
  BY DEF IInv, HistoryInv
<1>2. SInv /\ tables \in TablesType
  BY DEF IInv, SInv, TypeOK
<1>. DEFINE i == mem.sequence - snapshot.sequence + 1
<1>3. i \in 1..Len(log) /\ Head(Unreplayed) = log[i] /\ log[i] \in Record
  BY <1>1, <1>2, NextToReplay
<1>4. /\ snapshot.sequence \in Nat /\ Len(log) \in Nat /\ mem.sequence \in Nat
      /\ LastSequence = snapshot.sequence + Len(log)
  BY <1>2 DEF SInv, TypeOK, LedgerType, LastSequence
<1>5. /\ mem.sequence \in snapshot.sequence..p /\ p \in snapshot.sequence..LastSequence
      /\ p >= LastSequence - 1 /\ tables.order_events = 1..p
      /\ p < LastSequence => MadeFor(tables, log[Len(log)].change, log[Len(log)].trades)
      /\ log[i].seq = snapshot.sequence + i
  BY <1>1, <1>3 DEF DurableInv, LedgersOf, ProjectedTo, IsHistory
<1>6. log[i].seq = mem.sequence + 1
  BY <1>4, <1>5
<1>7. CASE mem.sequence < p
  <2>1. log[i].seq \in tables.order_events
    BY <1>4, <1>5, <1>6, <1>7
  <2>. QED  BY <1>3, <2>1 DEF Fits, Admitted
<1>8. CASE ~(mem.sequence < p)
  <2>1. p < LastSequence /\ i = Len(log)
    BY SMTT(30), <1>3, <1>4, <1>5, <1>8
  <2>2. MadeFor(tables, log[i].change, log[i].trades)
    BY <1>5, <2>1
  <2>. QED  BY <1>2, <1>3, <2>2, MadeFits
<1>. QED  BY <1>7, <1>8

(* Between operations no engine id is forgotten and no record is behind. *)
LEMMA MirrorsFromIInv ==
  ASSUME IInv, Serving, op = NoOp
  PROVE  Mirrors(tables, mem)
<1>1. PICK h, p : DurableInv(h, p)
  BY DEF IInv, HistoryInv
<1>2. phase = "serve" /\ ~failed /\ todo = {} /\ mem \in LedgerType /\ tables \in TablesType
  BY DEF Serving, IInv, SInv, TypeOK, PhaseInv
<1>3. /\ mem.markets = tables.markets /\ mem.cash = tables.balances /\ mem.pos = tables.positions
      /\ \A id \in OrderIds : mem.orders[id] = tables.orders[id]
  BY <1>1, <1>2 DEF DurableInv, MemoryOf, Relisting
<1>4. mem.orders = tables.orders
  BY <1>2, <1>3 DEF LedgerType, TablesType
<1>. QED  BY <1>3, <1>4 DEF Mirrors

(* Whom a ledger names is registered. *)
LEMMA UsersFromIInv ==
  ASSUME IInv
  PROVE  LedgerUsersRegistered
<1>1. UsersInv /\ log \in Seq(Record)
  BY DEF IInv, SInv, TypeOK
<1>2. DOMAIN log = 1..Len(log)
  BY <1>1
<1>. QED  BY <1>1, <1>2 DEF UsersInv, KnownTo, LedgerUsersRegistered

(* At most the last record is missing. *)
LEMMA LagFromIInv ==
  ASSUME IInv
  PROVE  \E p \in Nat : tables.order_events = 1..p /\ p \in {LastSequence - 1, LastSequence}
<1>1. PICK h, p : DurableInv(h, p)
  BY DEF IInv, HistoryInv
<1>2. snapshot.sequence \in Nat /\ Len(log) \in Nat /\ LastSequence = snapshot.sequence + Len(log)
  BY DEF IInv, SInv, TypeOK, LedgerType, LastSequence
<1>3. /\ p \in snapshot.sequence..LastSequence /\ p >= LastSequence - 1
      /\ tables.order_events = 1..p
  BY <1>1 DEF DurableInv, ProjectedTo
<1>4. p \in Nat /\ p \in {LastSequence - 1, LastSequence}
  BY <1>2, <1>3
<1>. QED  BY <1>3, <1>4

(* The state of the process, of its log and snapshot and of the tables is
   well-formed, and the invariant of ServerInvariant holds of it. *)
THEOREM ServerInvariantHolds == Spec => [](TypeOK /\ IInv)
<1>1. Init => IInv
  BY InitIInv
<1>2. IInv /\ [Next]_vars => IInv'
  BY NextIInv
<1>3. IInv => TypeOK
  BY DEF IInv, SInv
<1>. QED  BY <1>1, <1>2, <1>3, PTL DEF Spec

(* The shutdown hook disconnects the engines and PostgreSQL only when no
   admitted order is left, in the queue or in the hands of the worker. *)
THEOREM ShutdownLetsOrdersFinish == Spec => []ShutdownSparesOrders
<1>1. IInv => ShutdownSparesOrders
  BY DEF IInv, SInv, HookInv, ShutdownSparesOrders
<1>. QED  BY <1>1, ServerInvariantHolds, PTL

(* Money, markets and records are of users PostgreSQL has a row for, whatever
   registration, commit or process failed on the way. *)
THEOREM LedgerKnowsRegistered == Spec => []LedgerUsersRegistered
<1>1. IInv => LedgerUsersRegistered
  BY UsersFromIInv
<1>. QED  BY <1>1, ServerInvariantHolds, PTL

(* However a process died, replay meets the tables its next record was made
   for: PostgreSQL refuses only values that are too wide for a column. *)
THEOREM ReplayStopsAtWidth == Spec => []OnlyWidthStopsReplay
<1>1. IInv => OnlyWidthStopsReplay
  BY WidthFromIInv
<1>. QED  BY <1>1, ServerInvariantHolds, PTL

(* PostgreSQL has exactly the records the durable history has, but for at most
   the last one; no record is projected twice or skipped. *)
THEOREM ProjectionLagsByOne ==
  Spec => [](\E p \in Nat : /\ tables.order_events = 1..p
                            /\ p \in {LastSequence - 1, LastSequence})
<1>1. IInv => \E p \in Nat : /\ tables.order_events = 1..p
                             /\ p \in {LastSequence - 1, LastSequence}
  BY LagFromIInv
<1>. QED  BY <1>1, ServerInvariantHolds, PTL

-----------------------------------------------------------------------------
(* The trades of PostgreSQL account for every fill. *)

(* The rows of t and what each fills of an order. *)
Shares(t, id) == [row \in t.trades |-> Share(row.trade, id)]

(* Traded is their sum. *)
LEMMA TradedSum ==
  ASSUME NEW id
  PROVE  Traded(id) = SumFunctionOnSet(Shares(tables, id), tables.trades)
<1>1. Traded(id) = SumFunction(Shares(tables, id))
  BY DEF Traded, Shares, Share
<1>2. DOMAIN Shares(tables, id) = tables.trades
  BY DEF Shares
<1>. QED  BY <1>1, <1>2 DEF SumFunction

(* A row that was not there adds what it fills. *)
LEMMA RowAdded ==
  ASSUME tables \in TablesType, IsFiniteSet(tables.trades), NEW id,
         NEW row \in [seq : Nat, trade : Trades], row \notin tables.trades,
         tables'.trades = tables.trades \cup {row}
  PROVE  Traded(id)' = Traded(id) + Share(row.trade, id)
<1>. DEFINE S == tables.trades
            f == Shares(tables, id)
            g == Shares(tables, id)'
<1>1. \A x \in S \cup {row} : Share(x.trade, id) \in Int
  BY DEF TablesType, Trades, Share
<1>2. /\ \A x \in S : f[x] = Share(x.trade, id)
      /\ \A x \in S \cup {row} : g[x] = Share(x.trade, id)
  BY DEF Shares
<1>3. Summable(f, S) /\ Summable(g, S) /\ g[row] = Share(row.trade, id) /\ g[row] \in Int
  BY <1>1, <1>2 DEF Summable
<1>4. /\ Traded(id) = SumFunctionOnSet(f, S)
      /\ Traded(id)' = SumFunctionOnSet(g, S \cup {row})
  <2>1. Traded(id)' = SumFunctionOnSet(Shares(tables', id), tables'.trades)
    <3>1. Traded(id)' = SumFunction(Shares(tables', id))
      BY DEF Traded, Shares, Share
    <3>2. DOMAIN Shares(tables', id) = tables'.trades
      BY DEF Shares
    <3>. QED  BY <3>1, <3>2 DEF SumFunction
  <2>. QED  BY <2>1, TradedSum
<1>5. \A x \in S : g[x] = f[x]
  BY <1>2
<1>. HIDE DEF S, f, g
<1>6. SumFunctionOnSet(g, S) = SumFunctionOnSet(f, S)
  BY <1>3, <1>5, SumSame
<1>7. row \notin S
  BY DEF S
<1>8. SumFunctionOnSet(g, S \cup {row}) = SumFunctionOnSet(g, S) + g[row]
  BY <1>3, <1>7, SumAdd
<1>. QED  BY <1>3, <1>4, <1>6, <1>8

(* A sum over the same rows is the same. *)
LEMMA RowsKept ==
  ASSUME NEW id, tables'.trades = tables.trades
  PROVE  Traded(id)' = Traded(id)
BY DEF Traded

(* What an upsert leaves filled is what it writes. *)
LEMMA UpsertFilled ==
  ASSUME NEW o \in Order \cup {NoOrder}, NEW n \in Order
  PROVE  FilledOf(UpsertOrder(o, n)) = FilledOf(n)
<1>1. CASE o = NoOrder
  BY <1>1 DEF UpsertOrder
<1>2. CASE o # NoOrder
  <2>. DEFINE u == [o EXCEPT !.eid = n.eid, !.filled = n.filled, !.status = n.status]
  <2>1. o \in Order /\ UpsertOrder(o, n) = u
    BY <1>2 DEF UpsertOrder
  <2>2. u \in Order /\ u.filled = n.filled
    BY <2>1 DEF Order
  <2>. HIDE DEF u
  <2>. QED  BY <2>1, <2>2, ServerAssumption DEF FilledOf
<1>. QED  BY <1>1, <1>2

(* A transaction whose trades account for what it fills leaves tables whose
   trades do. *)
LEMMA BatchAccounted ==
  ASSUME tables \in TablesType, NEW r \in Record, Lacks(r),
         AccountsFor(tables, r.change, r.trades),
         IsFiniteSet(tables.trades),
         \A row \in tables.trades : row.seq \in tables.order_events,
         \A id \in OrderIds : Traded(id) = FilledOf(tables.orders[id]),
         tables' = ApplyBatch(tables, r)
  PROVE  /\ IsFiniteSet(tables'.trades)
         /\ \A row \in tables'.trades : row.seq \in tables'.order_events
         /\ \A id \in OrderIds : Traded(id)' = FilledOf(tables'.orders[id])
         /\ r.seq \in tables'.order_events
<1>. DEFINE c == r.change
            filled(id) == FilledOf(IF c.orders[id] = NoOrder THEN tables.orders[id] ELSE c.orders[id])
<1>1. c \in LedgerType /\ r.trades \subseteq Trades /\ r.seq \in Nat
  BY DEF Record
<1>2. /\ tables'.order_events = tables.order_events \cup {r.seq}
      /\ tables'.trades = tables.trades \cup {[seq |-> r.seq, trade |-> x] : x \in r.trades}
      /\ tables'.orders = [id \in OrderIds |->
           IF c.orders[id] = NoOrder THEN tables.orders[id]
           ELSE UpsertOrder(tables.orders[id], c.orders[id])]
  BY DEF ApplyBatch, Admitted, Lacks
<1>3. ASSUME NEW id \in OrderIds
      PROVE  FilledOf(tables'.orders[id]) = filled(id)
  <2>1. tables.orders[id] \in Order \cup {NoOrder} /\ c.orders[id] \in Order \cup {NoOrder}
    BY <1>1 DEF TablesType, LedgerType
  <2>2. CASE c.orders[id] = NoOrder
    BY <1>2, <2>2
  <2>3. CASE c.orders[id] # NoOrder
    BY <1>2, <2>1, <2>3, UpsertFilled
  <2>. QED  BY <2>2, <2>3
<1>4. CASE r.trades = {} /\ \A id \in OrderIds : filled(id) = FilledOf(tables.orders[id])
  <2>1. tables'.trades = tables.trades
    BY <1>2, <1>4
  <2>2. \A id \in OrderIds : Traded(id)' = Traded(id)
    BY <2>1, RowsKept
  <2>. HIDE DEF filled
  <2>. QED  BY <1>2, <1>3, <1>4, <2>1, <2>2
<1>5. ASSUME NEW x \in r.trades, r.trades = {x},
             \A id \in OrderIds : filled(id) = FilledOf(tables.orders[id]) + Share(x, id)
      PROVE  /\ IsFiniteSet(tables'.trades)
             /\ \A row \in tables'.trades : row.seq \in tables'.order_events
             /\ \A id \in OrderIds : Traded(id)' = FilledOf(tables'.orders[id])
  <2>. DEFINE new == [seq |-> r.seq, trade |-> x]
  <2>1. /\ tables'.trades = tables.trades \cup {new} /\ new \in [seq : Nat, trade : Trades]
        /\ new.seq = r.seq /\ new.trade = x
    BY <1>1, <1>2, <1>5
  <2>2. new \notin tables.trades
    BY <2>1 DEF Lacks
  <2>. HIDE DEF new, filled
  <2>3. IsFiniteSet(tables'.trades)
    BY <2>1, FS_AddElement
  <2>4. \A row \in tables'.trades : row.seq \in tables'.order_events
    BY <1>2, <2>1
  <2>5. ASSUME NEW id \in OrderIds PROVE Traded(id)' = FilledOf(tables'.orders[id])
    <3>1. Traded(id)' = Traded(id) + Share(new.trade, id)
      BY <2>1, <2>2, RowAdded
    <3>. QED  BY <1>3, <1>5, <2>1, <3>1
  <2>. QED  BY <2>3, <2>4, <2>5
<1>6. r.seq \in tables'.order_events
  BY <1>2
<1>. QED  BY <1>4, <1>5, <1>6 DEF AccountsFor

-----------------------------------------------------------------------------
(* Memory and PostgreSQL agree on what is filled, also of an order whose
   engine id recovery has forgotten. *)
LEMMA MemoryFilled ==
  ASSUME IInv, phase \in {"recover", "serve"}, ~failed, NEW id \in OrderIds
  PROVE  /\ FilledOf(mem.orders[id]) = FilledOf(tables.orders[id])
         /\ mem.orders[id] # NoOrder => mem.orders[id] \in Order
<1>0. SInv /\ HistoryInv /\ UsersInv
  BY DEF IInv
<1>1. PICK h, p : DurableInv(h, p)
  BY <1>0 DEF HistoryInv
<1>. DEFINE o == tables.orders[id]
<1>2. /\ mem.orders[id] = IF id \in todo \/ Relisting(id) THEN [o EXCEPT !.eid = 0] ELSE o
      /\ id \in todo \/ Relisting(id) => o # NoOrder
  BY <1>1 DEF DurableInv, MemoryOf
<1>3. o \in Order \cup {NoOrder}
  BY <1>0 DEF SInv, TypeOK, TablesType
<1>. HIDE DEF o
<1>4. CASE id \in todo \/ Relisting(id)
  <2>. DEFINE n == [o EXCEPT !.eid = 0]
  <2>1. n \in Order /\ n.filled = o.filled /\ mem.orders[id] = n /\ o # NoOrder
    BY <1>2, <1>3, <1>4 DEF Order
  <2>. HIDE DEF n
  <2>. QED  BY <2>1, ServerAssumption DEF FilledOf, o
<1>5. CASE ~(id \in todo \/ Relisting(id))
  BY <1>2, <1>3, <1>5 DEF o
<1>. QED  BY <1>4, <1>5

(* A change without a trade that writes at most one order, filled as before. *)
LEMMA NothingTraded ==
  ASSUME NEW c, NEW id, \A i \in OrderIds \ {id} : c.orders[i] = NoOrder,
         id \in OrderIds /\ c.orders[id] # NoOrder =>
           FilledOf(c.orders[id]) = FilledOf(tables.orders[id])
  PROVE  AccountsFor(tables, c, {})
<1>1. \A i \in OrderIds :
        FilledOf(IF c.orders[i] = NoOrder THEN tables.orders[i] ELSE c.orders[i])
          = FilledOf(tables.orders[i])
  OBVIOUS
<1>. QED  BY <1>1 DEF AccountsFor

(* A step that leaves log and tables alone and stages nothing new, or what its
   trades account for. *)
LEMMA TradesFrame ==
  ASSUME TradesInv, UNCHANGED <<log, tables>>,
         \/ op' = op \/ op' = NoOp \/ op'.step # "append"
         \/ AccountsFor(tables, op'.change, op'.trades)
  PROVE  TradesInv'
<1>1. \A id \in OrderIds : Traded(id)' = Traded(id)
  BY RowsKept
<1>2. op' # NoOp /\ op'.step = "append" => AccountsFor(tables', op'.change, op'.trades)
  BY DEF TradesInv
<1>3. log' # <<>> /\ Lacks(log[Len(log)])' =>
        AccountsFor(tables', log'[Len(log')].change, log'[Len(log')].trades)
  BY DEF TradesInv, Lacks
<1>4. /\ IsFiniteSet(tables'.trades)
      /\ \A row \in tables'.trades : row.seq \in tables'.order_events
      /\ \A id \in OrderIds : Traded(id)' = FilledOf(tables'.orders[id])
  BY <1>1 DEF TradesInv
<1>. QED  BY <1>2, <1>3, <1>4 DEF TradesInv, Lacks

(* The record behind the tables, once it is projected. *)
LEMMA TradesProjected ==
  ASSUME SInv, TradesInv, NEW h, NEW p, DurableInv(h, p), p < LastSequence,
         tables' = ApplyBatch(tables, log[Len(log)]), log' = log,
         op' = NoOp \/ op'.step # "append"
  PROVE  TradesInv'
<1>. DEFINE r == log[Len(log)]
<1>1. /\ log \in Seq(Record) /\ Len(log) \in Nat /\ snapshot.sequence \in Nat
      /\ tables \in TablesType
  BY DEF SInv, TypeOK, LedgerType
<1>2. /\ p \in snapshot.sequence..(snapshot.sequence + Len(log)) /\ p < snapshot.sequence + Len(log)
      /\ tables.order_events = 1..p
  BY DEF DurableInv, ProjectedTo, LastSequence
<1>3. Len(log) \in 1..Len(log) /\ log # <<>>
  BY <1>1, <1>2
<1>4. r \in Record /\ r.seq = snapshot.sequence + Len(log)
  BY <1>1, <1>3 DEF DurableInv, IsHistory
<1>5. Lacks(r)
  BY <1>1, <1>2, <1>4 DEF Lacks
<1>6. AccountsFor(tables, r.change, r.trades)
  BY <1>3, <1>5 DEF TradesInv
<1>. HIDE DEF r
<1>7. /\ IsFiniteSet(tables'.trades)
      /\ \A row \in tables'.trades : row.seq \in tables'.order_events
      /\ \A id \in OrderIds : Traded(id)' = FilledOf(tables'.orders[id])
      /\ r.seq \in tables'.order_events
  BY <1>1, <1>4, <1>5, <1>6, BatchAccounted DEF TradesInv, r
<1>8. ~Lacks(log[Len(log)])'
  BY <1>7 DEF Lacks, r
<1>. QED  BY <1>7, <1>8 DEF TradesInv

(* A staged record that is logged. *)
LEMMA TradesLogged ==
  ASSUME SInv, TradesInv, op # NoOp, op.step = "append", NEW n,
         log' = Append(log, RecordOf(n)), tables' = tables,
         op' = NoOp \/ op'.step # "append"
  PROVE  TradesInv'
<1>1. log \in Seq(Record) /\ Len(log) \in Nat
  BY DEF SInv, TypeOK
<1>. DEFINE r == RecordOf(n)
<1>2. log' # <<>> /\ log'[Len(log')] = r /\ r.change = op.change /\ r.trades = op.trades
  BY <1>1 DEF RecordOf
<1>. HIDE DEF r
<1>3. AccountsFor(tables, r.change, r.trades)
  BY <1>2 DEF TradesInv
<1>4. \A id \in OrderIds : Traded(id)' = Traded(id)
  BY RowsKept
<1>5. /\ IsFiniteSet(tables'.trades)
      /\ \A row \in tables'.trades : row.seq \in tables'.order_events
      /\ \A id \in OrderIds : Traded(id)' = FilledOf(tables'.orders[id])
  BY <1>4 DEF TradesInv
<1>. QED  BY <1>2, <1>3, <1>5 DEF TradesInv

(* A checkpoint cuts off records PostgreSQL has: what it lacks is still the
   last one. *)
LEMMA TradesPublished ==
  ASSUME IInv, TradesInv, Publish
  PROVE  TradesInv'
<1>0. SInv /\ HistoryInv
  BY DEF IInv
<1>1. PICK h, p : DurableInv(h, p)
  BY <1>0 DEF HistoryInv
<1>2. /\ frozen # NoSnapshot /\ log' = RecordsAfter(log, frozen.sequence) /\ UNCHANGED <<tables, op>>
  BY DEF Publish, CheckpointEnds
<1>. DEFINE n == frozen.sequence
            b == snapshot.sequence
<1>3. log \in Seq(Record) /\ b \in Nat /\ Len(log) \in Nat /\ LastSequence = b + Len(log)
  BY <1>0 DEF SInv, TypeOK, LedgerType, LastSequence
<1>4. n \in b..p /\ p \in b..LastSequence
  BY <1>1, <1>2 DEF DurableInv, LedgersOf, ProjectedTo
<1>5. n \in b..LastSequence
  BY <1>3, <1>4
<1>6. /\ log' \in Seq(Record) /\ Len(log') = LastSequence - n
      /\ \A j \in 1..(LastSequence - n) : log'[j] = log[(n - b) + j]
  BY <1>0, <1>1, <1>2, <1>5, TailOfLog DEF DurableInv
<1>. HIDE DEF n, b
<1>7. log' # <<>> => log # <<>> /\ log'[Len(log')] = log[Len(log)]
  <2>. SUFFICES ASSUME log' # <<>> PROVE log # <<>> /\ log'[Len(log')] = log[Len(log)]
    OBVIOUS
  <2>1. Len(log') > 0 /\ Len(log') \in Nat
    BY <1>6
  <2>2. /\ LastSequence - n \in 1..(LastSequence - n) /\ (n - b) + (LastSequence - n) = Len(log)
        /\ Len(log) > 0
    BY <1>3, <1>5, <1>6, <2>1
  <2>3. log'[LastSequence - n] = log[(n - b) + (LastSequence - n)]
    BY <1>6, <2>2
  <2>. QED  BY <1>3, <1>6, <2>2, <2>3
<1>8. \A id \in OrderIds : Traded(id)' = Traded(id)
  BY <1>2, RowsKept
<1>9. /\ IsFiniteSet(tables'.trades)
      /\ \A row \in tables'.trades : row.seq \in tables'.order_events
      /\ \A id \in OrderIds : Traded(id)' = FilledOf(tables'.orders[id])
      /\ op' # NoOp /\ op'.step = "append" => AccountsFor(tables', op'.change, op'.trades)
  BY <1>2, <1>8 DEF TradesInv
<1>10. log' # <<>> /\ Lacks(log[Len(log)])' =>
         AccountsFor(tables', log'[Len(log')].change, log'[Len(log')].trades)
  BY <1>2, <1>7 DEF TradesInv, Lacks
<1>. QED  BY <1>9, <1>10 DEF TradesInv, Lacks

-----------------------------------------------------------------------------
(* Start-up and the handlers write orders filled as they were. *)
LEMMA StagedUntraded ==
  ASSUME IInv, TradesInv,
         \/ \E id \in todo : RecoverNext(id)
         \/ \E r \in waiting : CreateMarket(r) \/ Deposit(r) \/ Cancel(r)
         \/ PlaceOrder
  PROVE  TradesInv'
<1>0. SInv /\ HistoryInv /\ UsersInv
  BY DEF IInv
<1>1. Empty.orders \in [OrderIds -> Order \cup {NoOrder}] /\ Empty \in LedgerType
      /\ \A i \in OrderIds : Empty.orders[i] = NoOrder
  BY EmptyLedger DEF LedgerType
<1>2. ASSUME NEW id \in todo, RecoverNext(id)
      PROVE  TradesInv'
  <2>. DEFINE o == mem.orders[id]
              n == [o EXCEPT !.eid = 1, !.status = IF o.filled > 0 THEN "partial" ELSE "open"]
              c == OrderEvent(Empty, id, n, 0)
  <2>1. /\ phase = "recover" /\ UNCHANGED <<log, tables>>
        /\ op' = [kind |-> "relist", step |-> "append", id |-> id, trades |-> {}, change |-> c]
    BY <1>2 DEF RecoverNext, durable
  <2>2. ~failed /\ id \in OrderIds
    BY <1>0, <2>1 DEF SInv, PhaseInv, TypeOK
  <2>3. o # NoOrder
    BY <1>0, <2>1, <2>2, MemoryRows
  <2>4. o \in Order /\ FilledOf(o) = FilledOf(tables.orders[id])
    BY <2>1, <2>2, <2>3, MemoryFilled
  <2>. HIDE DEF o
  <2>5. n \in Order /\ n.filled = o.filled
    BY <2>4 DEF Order, OrderStatuses, ActiveStatuses
  <2>. HIDE DEF n
  <2>6. c.orders = [Empty.orders EXCEPT ![id] = n]
    BY <1>1, <2>2, <2>5, OrderEventLedger
  <2>. HIDE DEF c
  <2>7. FilledOf(n) = FilledOf(o)
    BY <2>3, <2>5, ServerAssumption DEF FilledOf
  <2>8. c.orders[id] = n /\ \A i \in OrderIds \ {id} : c.orders[i] = NoOrder
    BY <1>1, <2>2, <2>6
  <2>9. AccountsFor(tables, c, {})
    BY <2>4, <2>7, <2>8, NothingTraded
  <2>. QED  BY <2>1, <2>9, TradesFrame
<1>3. ASSUME NEW r \in waiting, CreateMarket(r) \/ Deposit(r)
      PROVE  TradesInv'
  <2>1. PICK k, c : /\ Commits(r, k, NoOrder, c)
                    /\ \/ /\ c = BalanceEvent(Empty, r.user, r.cents) /\ r.kind = "deposit"
                       \/ /\ r.kind = "create"
                          /\ c = MarketEvent(Empty, r.market, [symbol |-> r.symbol, owner |-> r.user,
                                                               status |-> "open"])
    BY <1>3 DEF CreateMarket, Deposit
  <2>2. c.orders = Empty.orders
    BY <2>1 DEF BalanceEvent, MarketEvent, Empty
  <2>3. AccountsFor(tables, c, {})
    <3>1. \A i \in OrderIds \ {NoOrder} : c.orders[i] = NoOrder
      BY <1>1, <2>2
    <3>2. ~(NoOrder \in OrderIds /\ c.orders[NoOrder] # NoOrder)
      BY <1>1, <2>2
    <3>. QED  BY <3>1, <3>2, NothingTraded
  <2>4. /\ UNCHANGED <<log, tables>>
        /\ op' = [kind |-> k, step |-> "append", id |-> NoOrder, trades |-> {}, change |-> c]
    BY <2>1 DEF Commits, durable
  <2>. QED  BY <2>3, <2>4, TradesFrame
<1>4. ASSUME NEW r \in waiting, Cancel(r)
      PROVE  TradesInv'
  <2>. DEFINE o == mem.orders[r.id]
              n == [o EXCEPT !.status = "cancelled"]
              c == ReleaseEvents(Empty, r.id, o)
  <2>1. /\ phase = "serve" /\ ~failed /\ r.kind = "cancel" /\ o # NoOrder
        /\ UNCHANGED <<log, tables>>
        /\ op' = [kind |-> "cancel", step |-> "append", id |-> r.id, trades |-> {}, change |-> c]
    BY <1>4 DEF Cancel, Holds, CanCancel, OnBook, Commits, durable
  <2>2. r.id \in OrderIds
    <3>1. r \in Requests
      BY <1>0 DEF SInv, TypeOK
    <3>. QED  BY <2>1, <3>1, ServerAssumption DEF OrderRequest, OtherRequest
  <2>4. o \in Order /\ FilledOf(o) = FilledOf(tables.orders[r.id])
    BY <2>1, <2>2, MemoryFilled
  <2>. HIDE DEF o
  <2>5. n \in Order /\ n.filled = o.filled
    BY <2>4 DEF Order, OrderStatuses
  <2>6. c.orders = [Empty.orders EXCEPT ![r.id] = n]
    BY <1>1, <2>2, <2>4, ReleaseLedger
  <2>. HIDE DEF c, n
  <2>7. FilledOf(n) = FilledOf(o)
    BY <2>1, <2>5, ServerAssumption DEF FilledOf
  <2>8. c.orders[r.id] = n /\ \A i \in OrderIds \ {r.id} : c.orders[i] = NoOrder
    BY <1>1, <2>2, <2>6
  <2>9. AccountsFor(tables, c, {})
    BY <2>4, <2>7, <2>8, NothingTraded
  <2>. QED  BY <2>1, <2>9, TradesFrame
<1>5. CASE PlaceOrder
  <2>. DEFINE r == placing
              o == [user |-> r.user, market |-> r.market, side |-> r.side, price |-> r.price,
                    qty |-> r.qty, filled |-> 0, status |-> "pending",
                    seq |-> mem.sequence + 1, eid |-> 0]
              c == ReserveEvents(Empty, r.id, o)
  <2>1. /\ phase = "serve" /\ ~failed /\ r # NoRequest /\ mem.orders[r.id] = NoOrder
        /\ UNCHANGED <<log, tables>>
        /\ op' = [kind |-> "reserve", step |-> "append", id |-> r.id, trades |-> {}, change |-> c]
    BY <1>5 DEF PlaceOrder, Admissible, durable
  <2>2. r \in OrderRequest /\ mem.sequence \in Nat
    BY <1>0, <2>1 DEF SInv, TypeOK, Orders, LedgerType
  <2>3. r.id \in OrderIds /\ o \in Order /\ o.filled = 0
    BY <2>2 DEF OrderRequest, Order, OrderStatuses, ActiveStatuses
  <2>. HIDE DEF o, r
  <2>4. FilledOf(tables.orders[r.id]) = 0
    <3>1. FilledOf(mem.orders[r.id]) = FilledOf(tables.orders[r.id])
      BY <2>1, <2>3, MemoryFilled
    <3>. QED  BY <2>1, <3>1 DEF FilledOf
  <2>6. c.orders = [Empty.orders EXCEPT ![r.id] = o]
    BY <1>1, <2>3, ReserveLedger
  <2>. HIDE DEF c
  <2>7. FilledOf(o) = 0
    BY <2>3, ServerAssumption DEF FilledOf
  <2>8. c.orders[r.id] = o /\ \A i \in OrderIds \ {r.id} : c.orders[i] = NoOrder
    BY <1>1, <2>3, <2>6
  <2>9. AccountsFor(tables, c, {})
    BY <2>4, <2>7, <2>8, NothingTraded
  <2>. QED  BY <2>1, <2>9, TradesFrame
<1>. QED  BY <1>2, <1>3, <1>4, <1>5

(* The two orders of a trade are filled by its quantity. *)
LEMMA TradeAccounted ==
  ASSUME NEW d, NEW a \in OrderIds, NEW b \in OrderIds, a # b, NEW q \in Nat,
         NEW x, x \in [buy : OrderIds, sell : OrderIds, qty : Nat],
         {x.buy, x.sell} = {a, b}, x.qty = q,
         d.orders[a] # NoOrder, d.orders[b] # NoOrder,
         FilledOf(d.orders[a]) = FilledOf(tables.orders[a]) + q,
         FilledOf(d.orders[b]) = FilledOf(tables.orders[b]) + q,
         \A i \in OrderIds \ {a, b} : d.orders[i] = NoOrder,
         \A i \in OrderIds : FilledOf(tables.orders[i]) \in Int
  PROVE  AccountsFor(tables, d, {x})
<1>1. ASSUME NEW i \in OrderIds
      PROVE  FilledOf(IF d.orders[i] = NoOrder THEN tables.orders[i] ELSE d.orders[i])
               = FilledOf(tables.orders[i]) + Share(x, i)
  <2>1. Share(x, i) = IF i \in {a, b} THEN q ELSE 0
    BY DEF Share
  <2>2. CASE i = a
    BY <2>1, <2>2
  <2>3. CASE i = b
    BY <2>1, <2>3
  <2>4. CASE i \in OrderIds \ {a, b}
    <3>1. Share(x, i) = 0 /\ d.orders[i] = NoOrder /\ FilledOf(tables.orders[i]) \in Int
      BY <2>1, <2>4
    <3>. QED  BY <3>1
  <2>. QED  BY <2>2, <2>3, <2>4
<1>. QED  BY <1>1 DEF AccountsFor

-----------------------------------------------------------------------------
(* The answer of the engine fills the order and its counterparty alike. *)
LEMMA AnswersAccounted ==
  ASSUME IInv, TradesInv, EngineAnswers
  PROVE  TradesInv'
<1>. DEFINE id == op.id
            s == IF mem.orders[id].status = "pending" THEN "open" ELSE mem.orders[id].status
            o == [mem.orders[id] EXCEPT !.eid = 1, !.status = s]
            listed == IF op.kind = "complete" THEN OrderEvent(Empty, id, o, 0) ELSE Empty
            q(other) == Min({Remaining(o), Remaining(mem.orders[other])})
            p(other) == EnginePrice(mem.orders[other].side, mem.orders[other].price)
            trade(other) == IF EngineSide(o.side) = "buy"
                            THEN [buy |-> id, sell |-> other, qty |-> q(other)]
                            ELSE [buy |-> other, sell |-> id, qty |-> q(other)]
            fill(other) == FillEvents(FillEvents(listed, id, o, q(other), p(other)),
                                      other, mem.orders[other], q(other), p(other))
<1>1. /\ op # NoOp /\ op.step = "engine" /\ UNCHANGED <<log, tables>>
      /\ \/ op.kind = "complete" /\ op' = [op EXCEPT !.step = "append", !.change = listed, !.trades = {}]
         \/ op' = NoOp
         \/ \E other \in Counterparties(o) \ {id} :
              op' = [op EXCEPT !.step = "append", !.trades = {trade(other)}, !.change = fill(other)]
  BY DEF EngineAnswers, durable
<1>2. SInv /\ HistoryInv /\ UsersInv /\ op \in OperationType
  BY <1>1 DEF IInv, SInv, TypeOK
<1>3. id \in OrderIds /\ mem.orders[id] # NoOrder /\ phase \in {"recover", "serve"} /\ ~failed
  BY <1>1, <1>2 DEF SInv, OpInv, PhaseInv, TypeOK
<1>4. \A i \in OrderIds : /\ FilledOf(mem.orders[i]) = FilledOf(tables.orders[i])
                          /\ mem.orders[i] # NoOrder =>
                               mem.orders[i] \in Order /\ RowSound(tables, mem.orders[i])
  BY <1>2, <1>3, MemoryFilled, MemoryRows
<1>5. \A i \in OrderIds : FilledOf(tables.orders[i]) \in Int
  BY <1>2 DEF SInv, TypeOK, TablesType, Order, FilledOf
<1>6. /\ o \in Order /\ o.filled = mem.orders[id].filled /\ o.qty = mem.orders[id].qty
      /\ o.filled <= o.qty /\ FilledOf(o) = FilledOf(tables.orders[id])
  <2>. DEFINE m == mem.orders[id]
  <2>1. m \in Order /\ m.filled <= m.qty /\ m # NoOrder /\ FilledOf(m) = FilledOf(tables.orders[id])
    BY <1>3, <1>4 DEF RowSound
  <2>. HIDE DEF m
  <2>2. s \in OrderStatuses
    BY <2>1 DEF Order, OrderStatuses, ActiveStatuses, m
  <2>3. o = [m EXCEPT !.eid = 1, !.status = s]
    BY DEF m
  <2>. HIDE DEF s, o
  <2>4. o \in Order /\ o.filled = m.filled /\ o.qty = m.qty
    BY <2>1, <2>2, <2>3 DEF Order
  <2>5. FilledOf(o) = FilledOf(m)
    BY <2>1, <2>4, ServerAssumption DEF FilledOf
  <2>. QED  BY <2>1, <2>4, <2>5 DEF m
<1>. HIDE DEF o, s
<1>7. /\ listed \in LedgerType /\ \A i \in OrderIds \ {id} : listed.orders[i] = NoOrder
      /\ op.kind = "complete" => listed.orders[id] = o
  <2>1. Empty.orders \in [OrderIds -> Order \cup {NoOrder}] /\ Empty \in LedgerType
        /\ \A i \in OrderIds : Empty.orders[i] = NoOrder
    BY EmptyLedger DEF LedgerType
  <2>2. CASE op.kind = "complete"
    <3>1. listed = OrderEvent(Empty, id, o, 0)
      BY <2>2
    <3>. HIDE DEF id, listed
    <3>2. listed \in LedgerType /\ listed.orders = [Empty.orders EXCEPT ![id] = o]
      BY <1>3, <1>6, <2>1, <3>1, OrderEventLedger
    <3>. QED  BY <1>3, <2>1, <3>2
  <2>3. CASE op.kind # "complete"
    BY <2>1, <2>3
  <2>. QED  BY <2>2, <2>3
<1>. HIDE DEF listed, id
<1>8. CASE op.kind = "complete" /\ op' = [op EXCEPT !.step = "append", !.change = listed, !.trades = {}]
  <2>1. op'.change = listed /\ op'.trades = {}
    BY <1>2, <1>8 DEF OperationType
  <2>2. AccountsFor(tables, listed, {})
    BY <1>6, <1>7, <1>8, NothingTraded
  <2>. QED  BY <1>1, <2>1, <2>2, TradesFrame
<1>9. CASE op' = NoOp
  BY <1>1, <1>9, TradesFrame
<1>10. ASSUME NEW other \in Counterparties(o) \ {id},
              op' = [op EXCEPT !.step = "append", !.trades = {trade(other)}, !.change = fill(other)]
       PROVE  TradesInv'
  <2>. DEFINE maker == mem.orders[other]
              n == q(other)
              x == p(other)
              c == FillEvents(listed, id, o, n, x)
              d == FillEvents(c, other, maker, n, x)
  <2>1. /\ other \in OrderIds /\ other # id /\ maker # NoOrder
    BY DEF Counterparties, OnBook
  <2>2. maker \in Order /\ maker.filled <= maker.qty
        /\ FilledOf(maker) = FilledOf(tables.orders[other]) /\ ValidPrice(maker.price)
    BY <1>4, <2>1 DEF RowSound
  <2>3. Remaining(o) \in Nat /\ Remaining(maker) \in Nat
    BY <1>6, <2>2 DEF Order, Remaining
  <2>4. n \in Nat
    BY <2>3, MinOfTwo
  <2>5. x \in Nat
    BY <2>2 DEF EnginePrice, ValidPrice
  <2>6. d = fill(other)
    OBVIOUS
  <2>7. /\ trade(other) \in [buy : OrderIds, sell : OrderIds, qty : Nat] /\ trade(other).qty = n
        /\ {trade(other).buy, trade(other).sell} = {id, other}
    <3>1. trade(other) = IF EngineSide(o.side) = "buy"
                         THEN [buy |-> id, sell |-> other, qty |-> n]
                         ELSE [buy |-> other, sell |-> id, qty |-> n]
      OBVIOUS
    <3>. HIDE DEF n, trade
    <3>. QED  BY <1>3, <2>1, <2>4, <3>1 DEF id
  <2>. HIDE DEF n, x, maker
  <2>8. id \in OrderIds
    BY <1>3 DEF id
  <2>9. c \in LedgerType /\ c.orders = [listed.orders EXCEPT ![id] = FilledOrder(o, n)]
    BY <1>6, <1>7, <2>4, <2>5, <2>8, FillLedger
  <2>. HIDE DEF c
  <2>10. d.orders = [c.orders EXCEPT ![other] = FilledOrder(maker, n)]
    BY <2>1, <2>2, <2>4, <2>5, <2>9, FillLedger
  <2>. HIDE DEF d
  <2>11. /\ d.orders[id] = FilledOrder(o, n) /\ d.orders[other] = FilledOrder(maker, n)
         /\ \A i \in OrderIds \ {id, other} : d.orders[i] = NoOrder
    <3>1. /\ listed.orders \in [OrderIds -> Order \cup {NoOrder}]
          /\ c.orders \in [OrderIds -> Order \cup {NoOrder}]
      BY <1>7, <2>9 DEF LedgerType
    <3>. QED  BY <1>7, <2>1, <2>8, <2>9, <2>10, <3>1
  <2>12. ASSUME NEW y \in Order
         PROVE  /\ FilledOrder(y, n) # NoOrder
                /\ FilledOf(FilledOrder(y, n)) = y.filled + n
    <3>1. FilledOrder(y, n) \in Order
      BY <2>4, FilledOrderKept
    <3>2. FilledOrder(y, n).filled = y.filled + n
      BY DEF FilledOrder, Order
    <3>. QED  BY <3>1, <3>2, ServerAssumption DEF FilledOf
  <2>13. FilledOf(o) = o.filled /\ FilledOf(maker) = maker.filled
    BY <1>6, <2>2, ServerAssumption DEF FilledOf
  <2>14. /\ d.orders[id] # NoOrder /\ d.orders[other] # NoOrder
         /\ FilledOf(d.orders[id]) = FilledOf(tables.orders[id]) + n
         /\ FilledOf(d.orders[other]) = FilledOf(tables.orders[other]) + n
    BY <1>6, <2>2, <2>11, <2>12, <2>13 DEF id
  <2>. HIDE DEF trade, fill
  <2>15. AccountsFor(tables, d, {trade(other)})
    BY <1>5, <2>1, <2>4, <2>7, <2>8, <2>11, <2>14, TradeAccounted
  <2>16. op'.change = d /\ op'.trades = {trade(other)}
    BY <1>2, <1>10, <2>6 DEF OperationType
  <2>. QED  BY <1>1, <2>15, <2>16, TradesFrame
<1>. QED  BY <1>1, <1>8, <1>9, <1>10

(* Replay projects the record PostgreSQL lacks, and skips the others. *)
LEMMA ReplayAccounted ==
  ASSUME IInv, TradesInv, phase = "replay", Unreplayed # <<>>,
         tables' = ApplyBatch(tables, Head(Unreplayed)), log' = log,
         op' = NoOp
  PROVE  TradesInv'
<1>0. SInv /\ HistoryInv
  BY DEF IInv
<1>1. PICK h, p : DurableInv(h, p)
  BY <1>0 DEF HistoryInv
<1>. DEFINE i == mem.sequence - snapshot.sequence + 1
            r == log[i]
<1>2. tables' = ApplyBatch(tables, r) /\ i \in 1..Len(log)
  BY <1>0, <1>1, NextToReplay
<1>3. /\ snapshot.sequence \in Nat /\ Len(log) \in Nat /\ mem.sequence \in Nat
      /\ LastSequence = snapshot.sequence + Len(log)
  BY <1>0 DEF SInv, TypeOK, LedgerType, LastSequence
<1>4. /\ mem.sequence \in snapshot.sequence..p /\ p \in snapshot.sequence..LastSequence
      /\ p >= LastSequence - 1
  BY <1>1 DEF DurableInv, LedgersOf, ProjectedTo
<1>. HIDE DEF r
<1>5. CASE mem.sequence < p
  <2>1. tables' = tables
    <3>1. snapshot.sequence + i <= p
      BY <1>2, <1>3, <1>4, <1>5, ReplayPlace
    <3>2. IsHistory(h) /\ ProjectedTo(h, p)
      BY <1>1 DEF DurableInv
    <3>. HIDE DEF i
    <3>3. ApplyBatch(tables, log[i]) = tables
      BY <1>0, <1>2, <3>1, <3>2, RecordSkipped
    <3>. QED  BY <1>2, <3>3 DEF r
  <2>. QED  BY <2>1, TradesFrame
<1>6. CASE ~(mem.sequence < p)
  <2>1. p < LastSequence /\ i = Len(log)
    BY <1>2, <1>3, <1>4, <1>6, ReplayPlace
  <2>2. tables' = ApplyBatch(tables, log[Len(log)])
    BY <1>2, <2>1 DEF r
  <2>. QED  BY <1>0, <1>1, <2>1, <2>2, TradesProjected
<1>. QED  BY <1>5, <1>6

(* s.fail ends the operation. *)
LEMMA FailEnds ==
  ASSUME NEW n, Fail(n)
  PROVE  op' = NoOp
BY DEF Fail, Exit

(* The invariant holds at first. *)
LEMMA InitTrades ==
  ASSUME Init
  PROVE  TradesInv
<1>1. /\ tables.trades = {} /\ log = <<>> /\ op = NoOp
      /\ \A id \in OrderIds : tables.orders[id] = NoOrder
  BY EmptyLedger DEF Init, EmptyTables
<1>2. \A id \in OrderIds : Traded(id) = 0
  BY <1>1, TradedSum, SumEmpty
<1>. QED  BY <1>1, <1>2, FS_EmptySet DEF TradesInv, FilledOf

(* Every step preserves it. *)
LEMMA NextTrades ==
  ASSUME IInv, TradesInv, [Next]_vars
  PROVE  TradesInv'
<1>0. SInv /\ HistoryInv
  BY DEF IInv
<1>1. PICK h, p : DurableInv(h, p)
  BY <1>0 DEF HistoryInv
<1>2. CASE Launch \/ Migrate \/ ReplayDone \/ RecoverDone \/ Client
           \/ TakeOrder \/ RejectOrder \/ (\E r \in waiting : Enqueue(r) \/ Rejects(r) \/ CancelUncertain(r))
           \/ Freeze \/ CheckpointFails \/ Signal \/ HookStopsTicker \/ HookSkipsSnapshot
           \/ HookCloses \/ HookClosesEngine \/ HookClosesDatabase \/ UNCHANGED vars
  <2>1. UNCHANGED <<log, tables, op>>
    BY <1>2 DEF Launch, Migrate, ReplayDone, RecoverDone, Client, Register, RegisterFails, Login,
       Submit, TakeOrder, RejectOrder, Enqueue, Rejects, CancelUncertain, Freeze,
       CheckpointFails, CheckpointEnds, Signal, HookStopsTicker, HookSkipsSnapshot, HookCloses,
       HookClosesEngine, HookClosesDatabase, vars, durable
  <2>. QED  BY <2>1, TradesFrame
<1>3. CASE ReplayRefused \/ MainReturns \/ OperatorStops \/ Crash \/ ProjectRefused \/ EngineFails
  <2>1. UNCHANGED <<log, tables>> /\ op' = NoOp
    BY <1>3, FailEnds DEF ReplayRefused, MainReturns, OperatorStops, Crash, ProjectRefused,
       EngineFails, Exit, durable
  <2>. QED  BY <2>1, TradesFrame
<1>4. CASE ReplayRecord
  <2>1. op = NoOp
    BY <1>0, <1>4 DEF SInv, PhaseInv, ReplayRecord
  <2>. QED  BY <1>4, <2>1, ReplayAccounted DEF ReplayRecord
<1>5. CASE StartupFails
  <2>1. log' = log /\ op' = NoOp
    BY <1>5 DEF StartupFails, Exit
  <2>2. CASE tables' = tables
    BY <2>1, <2>2, TradesFrame
  <2>3. CASE tables' # tables
    <3>1. phase = "replay" /\ Unreplayed # <<>> /\ tables' = ApplyBatch(tables, Head(Unreplayed))
      BY <1>5, <2>3 DEF StartupFails
    <3>. QED  BY <2>1, <3>1, ReplayAccounted
  <2>. QED  BY <2>2, <2>3
<1>6. CASE AppendRecord
  <2>1. /\ op # NoOp /\ op.step = "append" /\ op \in OperationType
        /\ log' = Append(log, RecordOf(mem.sequence + 1)) /\ tables' = tables
        /\ op' = [op EXCEPT !.step = "project"]
    BY <1>0, <1>6 DEF AppendRecord, SInv, TypeOK
  <2>2. op'.step # "append"
    BY <2>1 DEF OperationType
  <2>. QED  BY <1>0, <2>1, <2>2, TradesLogged
<1>7. CASE AppendFails
  <2>1. /\ op # NoOp /\ op.step = "append" /\ tables' = tables /\ op' = NoOp
        /\ log' = log \/ log' = Append(log, RecordOf(mem.sequence + 1))
    BY <1>7, FailEnds DEF AppendFails
  <2>. QED  BY <1>0, <2>1, TradesFrame, TradesLogged
<1>8. CASE ProjectRecord
  <2>1. /\ op # NoOp /\ op.step = "project" /\ op \in OperationType /\ log' = log
        /\ tables' = ApplyBatch(tables, RecordOf(mem.sequence)) /\ AfterCommit
    BY <1>0, <1>8 DEF ProjectRecord, SInv, TypeOK
  <2>2. p < LastSequence /\ log[Len(log)] = RecordOf(mem.sequence)
    BY <1>0, <1>1, <2>1, ProjectFacts
  <2>3. op' = NoOp \/ op'.step # "append"
    BY <2>1 DEF AfterCommit, OperationType
  <2>. QED  BY <1>0, <1>1, <2>1, <2>2, <2>3, TradesProjected
<1>9. CASE ProjectFails
  <2>1. /\ op # NoOp /\ op.step = "project" /\ log' = log /\ op' = NoOp
        /\ tables' = tables \/ tables' = ApplyBatch(tables, RecordOf(mem.sequence))
    BY <1>9, FailEnds DEF ProjectFails
  <2>2. p < LastSequence /\ log[Len(log)] = RecordOf(mem.sequence)
    BY <1>0, <1>1, <2>1, ProjectFacts
  <2>. QED  BY <1>0, <1>1, <2>1, <2>2, TradesFrame, TradesProjected
<1>10. CASE \/ \E id \in todo : RecoverNext(id)
            \/ \E r \in waiting : CreateMarket(r) \/ Deposit(r) \/ Cancel(r)
            \/ PlaceOrder
  BY <1>10, StagedUntraded
<1>11. CASE EngineAnswers
  BY <1>11, AnswersAccounted
<1>12. CASE Publish
  BY <1>12, TradesPublished
<1>13. CASE Next
  BY <1>2, <1>3, <1>4, <1>5, <1>6, <1>7, <1>8, <1>9, <1>10, <1>11, <1>12, <1>13
     DEF Next, Startup, Operation, Handler, Checkpoint, Shutdown
<1>. QED  BY <1>2, <1>13

(* "PostgreSQL equals the ledger": while the service runs and no operation is
   under way, the tables are the maps of the service and the rows of trades
   account for every fill, whatever was replayed, projected twice or cut short
   before. *)
THEOREM TablesEqualLedger == Spec => []TablesMatchLedger
<1>1. Init => IInv /\ TradesInv
  BY InitIInv, InitTrades
<1>2. IInv /\ TradesInv /\ [Next]_vars => IInv' /\ TradesInv'
  BY NextIInv, NextTrades
<1>3. IInv /\ TradesInv => TablesMatchLedger
  <2>. SUFFICES ASSUME IInv, TradesInv, Serving, op = NoOp
                PROVE  /\ Mirrors(tables, mem)
                       /\ \A id \in OrderIds : mem.orders[id] # NoOrder =>
                            Traded(id) = mem.orders[id].filled
    BY DEF TablesMatchLedger
  <2>1. Mirrors(tables, mem)
    BY MirrorsFromIInv
  <2>2. \A id \in OrderIds : Traded(id) = FilledOf(mem.orders[id])
    BY <2>1 DEF TradesInv, Mirrors
  <2>. QED  BY <2>1, <2>2 DEF FilledOf
<1>. QED  BY <1>1, <1>2, <1>3, PTL DEF Spec
=============================================================================
