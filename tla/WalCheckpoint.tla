--------------------------- MODULE WalCheckpoint ---------------------------
(***************************************************************************)
(* The files behind the trading service: the write-ahead log, its rotation *)
(* and the snapshot (go-backend/internal/trading/checkpoint.go and the     *)
(* append and replay halves of service.go), and the projection of the log  *)
(* into PostgreSQL (go-backend/internal/store/projector.go).               *)
(*                                                                         *)
(* Two goroutines share the files.  One commits records under s.mu; the    *)
(* other checkpoints: it freezes the state and rotates the log under s.mu, *)
(* then writes the snapshot and removes the old segment without it.        *)
(* Every system call on a file or the directory is a step of its own, so a *)
(* crash can fall between any two of them.                                 *)
(*                                                                         *)
(* The file system keeps its promises and no more: what a file held at its *)
(* last fsync survives a power loss, and of what was appended since any    *)
(* prefix may, the last record possibly torn; directory operations since   *)
(* the last fsync of the directory survive or not: a prefix of them on a   *)
(* journaling file system, any of them otherwise.  A process that dies     *)
(* leaves the page cache as it is.                                         *)
(***************************************************************************)
EXTENDS Integers, Sequences, FiniteSets, FiniteSetsExt

CONSTANTS
  MaxRecords,  \* bound: records ever appended
  MaxFaults,   \* bound: process crashes and power losses
  MaxErrors,   \* bound: system calls that return an error
  MaxInodes,   \* bound: files that exist at once
  Events,      \* what the environment does, of "crash", "power", "retry"
  Journaled,   \* does the file system keep directory operations in order?
  Torn         \* a record without its newline, or a snapshot cut short

None == 0
Inodes == 1..MaxInodes
Names == {"wal", "previous", "snapshot", "tmp"}

(* A record is one commit: its sequence number, reused when the record is
   lost, and an identity of its own, which is never reused. *)
Record == [seq : 1..MaxRecords, id : 1..MaxRecords]

(* What a snapshot holds. *)
State == [sequence : 0..MaxRecords, applied : Seq(Record)]

ASSUME WalAssumption ==
  /\ MaxRecords \in Nat /\ MaxFaults \in Nat /\ MaxErrors \in Nat
  /\ MaxInodes \in Nat /\ MaxInodes >= 4
  /\ Events \subseteq {"crash", "power", "retry"}
  /\ Journaled \in BOOLEAN
  /\ Torn \notin Record /\ Torn \notin State

VARIABLES
  disk,      \* Inodes -> what a reader sees, and how much of it is fsynced
  dir,       \* the directory as a reader sees it
  ddir,      \* the directory as of its last fsync
  pending,   \* the directory operations since then
  status,    \* "up", "down", or "refused" (start-up returned an error)
  mem,       \* the state in memory: the records applied, in order
  sequence,  \* s.sequence
  failed,    \* s.failure # nil
  walFile,   \* the open log, or None (nil)
  cpc,       \* where commitMany is
  kpc,       \* where the checkpoint is
  frozen,    \* the state the checkpoint copied
  db,        \* PostgreSQL: the records whose transaction committed, in order
  acked,     \* records whose caller was told of success
  issued, faults, errors   \* counters for the bounds

process == <<status, mem, sequence, failed, walFile, cpc, kpc, frozen>>
filesystem == <<disk, dir, ddir, pending>>
vars == <<filesystem, process, db, acked, issued, faults, errors>>

-----------------------------------------------------------------------------
(* The file system. *)

Emptied == [data |-> <<>>, synced |-> 0]
Flushed(file) == [file EXCEPT !.synced = Len(file.data)]
Appended(file, record) == [file EXCEPT !.data = Append(@, record)]

(* A file nothing refers to, for a new entry of the directory; there is one
   as long as no more than MaxInodes are in use. *)
InUse ==
  {dir[n] : n \in Names} \cup {ddir[n] : n \in Names}
    \cup UNION {{pending[k][n] : n \in DOMAIN pending[k]} : k \in DOMAIN pending}
HasInode == Inodes \ InUse # {}
FreshInode == CHOOSE i \in Inodes \ InUse : \A j \in Inodes \ InUse : i <= j

(* An operation on the directory binds some names at once. *)
Bound(d, op) == [n \in Names |-> IF n \in DOMAIN op THEN op[n] ELSE d[n]]
DirectoryOp(op) == dir' = Bound(dir, op) /\ pending' = Append(pending, op) /\ UNCHANGED ddir
Renamed(from, to) == [n \in {from, to} |-> IF n = to THEN dir[from] ELSE None]
Unlinked(name) == [n \in {name} |-> None]
Linked(name, i) == [n \in {name} |-> i]

(* syncDirectory.  Files no name is bound to any more are freed. *)
SyncDirectory ==
  /\ ddir' = dir /\ pending' = <<>> /\ UNCHANGED dir
  /\ disk' = [i \in Inodes |-> IF \E n \in Names : dir[n] = i THEN disk[i] ELSE Emptied]

(* The directory operations a power loss may spare, and what they leave. *)
Spared ==
  IF Journaled THEN {1..k : k \in 0..Len(pending)} ELSE SUBSET DOMAIN pending
Surviving(kept) ==
  [n \in Names |->
     LET binding == {k \in kept : n \in DOMAIN pending[k]}
     IN  IF binding = {} THEN ddir[n] ELSE pending[Max(binding)][n]]

(* What may be left of a file: the fsynced prefix, some of the rest, and a
   piece of the first record that was lost. *)
Remains(file) ==
  LET whole(k) == SubSeq(file.data, 1, k)
      cuts == file.synced..Len(file.data)
  IN  {[data |-> whole(k), synced |-> k] : k \in cuts}
      \cup {[data |-> Append(whole(k), Torn), synced |-> k + 1] :
              k \in cuts \ {Len(file.data)}}

Dirty == {i \in InUse \ {None} : disk[i].synced < Len(disk[i].data)}

-----------------------------------------------------------------------------
(* Start-up: loadSnapshot, replayFile(previous), replayFile(wal). *)

File(n) == IF dir[n] = None THEN Emptied ELSE disk[dir[n]]

(* A line without its newline is the last of its file, and is cut off. *)
Whole(data) ==
  IF data # <<>> /\ data[Len(data)] = Torn THEN SubSeq(data, 1, Len(data) - 1) ELSE data

(* replayFile refuses a record that does not parse, unless it is the last
   and has no newline, and sequence numbers that do not grow. *)
Readable(data) ==
  /\ \A k \in DOMAIN data : data[k] = Torn => k = Len(data)
  /\ \A j, k \in DOMAIN Whole(data) : j < k => Whole(data)[j].seq < Whole(data)[k].seq

(* Mutation: replay does not skip what the snapshot covers. *)
CoversNothing(state, r) == FALSE

(* Records the state already covers are skipped; sequence numbers grow, so
   the others are a suffix of the file. *)
Covers(state, r) == r.seq <= state.sequence
Uncovered(state, records) ==
  LET first == CHOOSE k \in 1..(Len(records) + 1) :
                 /\ \A j \in k..Len(records) : ~Covers(state, records[j])
                 /\ k > 1 => Covers(state, records[k - 1])
  IN  SubSeq(records, first, Len(records))
Replayed(state, data) ==
  LET new == Uncovered(state, Whole(data))
  IN  [sequence |-> IF new = <<>> THEN state.sequence ELSE new[Len(new)].seq,
       applied |-> state.applied \o new]

(* Mutation: the torn tail stays in the file. *)
RepairedNot(file) == file

(* A torn tail is cut off, and only then is the file fsynced. *)
Repaired(file) ==
  IF Torn \in {file.data[k] : k \in DOMAIN file.data}
  THEN Flushed([file EXCEPT !.data = Whole(file.data)]) ELSE file

(* ApplyBatch: one transaction per record, which does nothing when its event
   ids are already in order_events. *)
Inserted(rows, r) == IF \E k \in DOMAIN rows : rows[k] = r THEN rows ELSE Append(rows, r)
Projected(rows, records) ==
  LET after[i \in 0..Len(records)] ==
        IF i = 0 THEN rows ELSE Inserted(after[i - 1], records[i])
  IN  after[Len(records)]

InitialState == [sequence |-> 0, applied |-> <<>>]
SnapshotReadable == dir["snapshot"] # None => File("snapshot").data \notin {<<>>, <<Torn>>}
SnapshotState == IF dir["snapshot"] = None THEN InitialState ELSE File("snapshot").data[1]

ReplayReadable ==
  SnapshotReadable /\ Readable(File("previous").data) /\ Readable(File("wal").data)
ReplayedState == Replayed(Replayed(SnapshotState, File("previous").data), File("wal").data)
ReplayedRecords ==
  SubSeq(ReplayedState.applied, Len(SnapshotState.applied) + 1, Len(ReplayedState.applied))
RepairedDisk ==
  [i \in Inodes |-> IF i \in {dir["previous"], dir["wal"]} THEN Repaired(disk[i]) ELSE disk[i]]

Start ==
  /\ status = "down"
  /\ IF ReplayReadable
     THEN /\ mem' = ReplayedState.applied
          /\ sequence' = ReplayedState.sequence
          /\ disk' = RepairedDisk
          /\ db' = Projected(db, ReplayedRecords)
          /\ status' = "up"
     ELSE status' = "refused" /\ UNCHANGED <<mem, sequence, disk, db>>
  /\ UNCHANGED <<dir, ddir, pending, failed, walFile, cpc, kpc, frozen, acked, issued, faults, errors>>

(* The database goes away during the replay: start-up ends there, and is
   tried again with the records projected so far. *)
StartError ==
  /\ status = "down" /\ ReplayReadable /\ errors < MaxErrors
  /\ \E k \in 0..Len(ReplayedRecords) : db' = Projected(db, SubSeq(ReplayedRecords, 1, k))
  /\ errors' = errors + 1
  /\ UNCHANGED <<filesystem, process, acked, issued, faults>>

-----------------------------------------------------------------------------
(* s.mu: commitMany holds it throughout, the checkpoint while it freezes. *)

Freezing == kpc \in {"closed", "renamed", "segmented", "created"}
Unlocked == status = "up" /\ cpc = "idle" /\ ~Freezing

(* commitMany: the sequence number is drawn before the log is touched. *)
CommitStart ==
  /\ Unlocked /\ ~failed /\ issued < MaxRecords
  /\ sequence' = sequence + 1
  /\ issued' = issued + 1
  /\ cpc' = IF walFile = None THEN "open" ELSE "write"
  /\ UNCHANGED <<filesystem, status, mem, failed, walFile, kpc, frozen, db, acked, faults, errors>>

(* appendMany opens the log on the first append and fsyncs the directory. *)
OpenWal ==
  /\ cpc = "open"
  /\ IF dir["wal"] = None
     THEN /\ HasInode
          /\ walFile' = FreshInode
          /\ disk' = [disk EXCEPT ![FreshInode] = Emptied]
          /\ DirectoryOp(Linked("wal", FreshInode))
     ELSE walFile' = dir["wal"] /\ UNCHANGED filesystem
  /\ cpc' = "opened"
  /\ UNCHANGED <<status, mem, sequence, failed, kpc, frozen, db, acked, issued, faults, errors>>

SyncOpenedWal ==
  /\ cpc = "opened"
  /\ SyncDirectory
  /\ cpc' = "write"
  /\ UNCHANGED <<status, mem, sequence, failed, walFile, kpc, frozen, db, acked, issued, faults, errors>>

CurrentRecord == [seq |-> sequence, id |-> issued]

WriteRecord ==
  /\ cpc = "write"
  /\ disk' = [disk EXCEPT ![walFile] = Appended(@, CurrentRecord)]
  /\ cpc' = "written"
  /\ UNCHANGED <<dir, ddir, pending, status, mem, sequence, failed, walFile, kpc, frozen,
                 db, acked, issued, faults, errors>>

SyncRecord ==
  /\ cpc = "written"
  /\ disk' = [disk EXCEPT ![walFile] = Flushed(@)]
  /\ cpc' = "synced"
  /\ UNCHANGED <<dir, ddir, pending, status, mem, sequence, failed, walFile, kpc, frozen,
                 db, acked, issued, faults, errors>>

(* The record is projected, applied, and the caller is told. *)
CommitDone ==
  /\ cpc = "synced"
  /\ db' = Projected(db, <<CurrentRecord>>)
  /\ mem' = Append(mem, CurrentRecord)
  /\ acked' = acked \cup {CurrentRecord}
  /\ cpc' = "idle"
  /\ UNCHANGED <<filesystem, status, sequence, failed, walFile, kpc, frozen, issued, faults, errors>>

(* Any of those calls fails: the write may be short, and the transaction may
   have committed although its reply is lost.  fail latches the service. *)
CommitError ==
  /\ cpc # "idle" /\ errors < MaxErrors
  /\ \/ cpc = "write" /\ disk' = [disk EXCEPT ![walFile] = Appended(@, Torn)] /\ UNCHANGED db
     \/ cpc = "synced" /\ db' = Projected(db, <<CurrentRecord>>) /\ UNCHANGED disk
     \/ UNCHANGED <<disk, db>>
  /\ failed' = TRUE
  /\ cpc' = "idle"
  /\ errors' = errors + 1
  /\ UNCHANGED <<dir, ddir, pending, status, mem, sequence, walFile, kpc, frozen, acked, issued, faults>>

(* A client repeats an order that is already in memory and is told of success
   from there: prepareOrder finds it and returns neither events nor error. *)
AnswerRetry(r) ==
  /\ "retry" \in Events
  /\ Unlocked /\ ~failed
  /\ acked' = acked \cup {r}
  /\ UNCHANGED <<filesystem, process, db, issued, faults, errors>>

-----------------------------------------------------------------------------
(* checkpoint: freezeCheckpoint, under s.mu ... *)

CopiedState == [sequence |-> sequence, applied |-> mem]

(* Mutation: the previous segment is renamed over. *)
LeftoverIgnored == FALSE
Leftover == dir["previous"] # None
(* Mutation: a leftover segment blocks later checkpoints. *)
CanFreezeNoLeftover == Unlocked /\ kpc = "idle" /\ ~failed /\ ~Leftover

CanFreeze == Unlocked /\ kpc = "idle" /\ ~failed
(* With a leftover segment only the state is copied; otherwise the current
   log is fsynced and closed, if it is open, and rotated. *)
Freeze ==
  /\ CanFreeze
  /\ frozen' = CopiedState
  /\ IF Leftover
     THEN kpc' = "frozen" /\ UNCHANGED <<disk, walFile>>
     ELSE /\ kpc' = "closed"
          /\ walFile' = None
          /\ disk' = IF walFile = None THEN disk ELSE [disk EXCEPT ![walFile] = Flushed(@)]
  /\ UNCHANGED <<dir, ddir, pending, status, mem, sequence, failed, cpc, db, acked, issued, faults, errors>>

RenameWal ==
  /\ kpc = "closed"
  /\ IF dir["wal"] # None THEN DirectoryOp(Renamed("wal", "previous"))
                          ELSE UNCHANGED <<dir, ddir, pending>>
  /\ kpc' = "renamed"
  /\ UNCHANGED <<disk, status, mem, sequence, failed, walFile, cpc, frozen, db, acked, issued, faults, errors>>

(* Mutation: the new name is not made durable before the old one is reused. *)
SyncRenamedNot ==
  /\ kpc = "renamed"
  /\ kpc' = "segmented"
  /\ UNCHANGED <<filesystem, status, mem, sequence, failed, walFile, cpc, frozen, db, acked, issued, faults, errors>>

SyncRenamed ==
  /\ kpc = "renamed"
  /\ SyncDirectory
  /\ kpc' = "segmented"
  /\ UNCHANGED <<status, mem, sequence, failed, walFile, cpc, frozen, db, acked, issued, faults, errors>>

(* O_EXCL: the name must be free.  The new file is empty, so its own fsync
   changes nothing. *)
CreateWal ==
  /\ kpc = "segmented" /\ dir["wal"] = None /\ HasInode
  /\ walFile' = FreshInode
  /\ disk' = [disk EXCEPT ![FreshInode] = Emptied]
  /\ DirectoryOp(Linked("wal", FreshInode))
  /\ kpc' = "created"
  /\ UNCHANGED <<status, mem, sequence, failed, cpc, frozen, db, acked, issued, faults, errors>>

SyncCreated ==
  /\ kpc = "created"
  /\ SyncDirectory
  /\ kpc' = "frozen"
  /\ UNCHANGED <<status, mem, sequence, failed, walFile, cpc, frozen, db, acked, issued, faults, errors>>

(* ... then writeSnapshot, while commits go on ... *)

OpenTmp ==
  /\ kpc = "frozen"
  /\ IF dir["tmp"] = None
     THEN /\ HasInode
          /\ disk' = [disk EXCEPT ![FreshInode] = Emptied]
          /\ DirectoryOp(Linked("tmp", FreshInode))
     ELSE disk' = [disk EXCEPT ![dir["tmp"]] = Emptied] /\ UNCHANGED <<dir, ddir, pending>>
  /\ kpc' = "opened"
  /\ UNCHANGED <<status, mem, sequence, failed, walFile, cpc, frozen, db, acked, issued, faults, errors>>

EncodeTmp ==
  /\ kpc = "opened"
  /\ disk' = [disk EXCEPT ![dir["tmp"]] = Appended(@, frozen)]
  /\ kpc' = "encoded"
  /\ UNCHANGED <<dir, ddir, pending, status, mem, sequence, failed, walFile, cpc, frozen,
                 db, acked, issued, faults, errors>>

SyncTmp ==
  /\ kpc = "encoded"
  /\ disk' = [disk EXCEPT ![dir["tmp"]] = Flushed(@)]
  /\ kpc' = "flushed"
  /\ UNCHANGED <<dir, ddir, pending, status, mem, sequence, failed, walFile, cpc, frozen,
                 db, acked, issued, faults, errors>>

RenameSnapshot ==
  /\ kpc = "flushed"
  /\ DirectoryOp(Renamed("tmp", "snapshot"))
  /\ kpc' = "renamedSnapshot"
  /\ UNCHANGED <<disk, status, mem, sequence, failed, walFile, cpc, frozen, db, acked, issued, faults, errors>>

SyncSnapshot ==
  /\ kpc = "renamedSnapshot"
  /\ SyncDirectory
  /\ kpc' = "published"
  /\ UNCHANGED <<status, mem, sequence, failed, walFile, cpc, frozen, db, acked, issued, faults, errors>>

(* ... then HealthError, which waits for s.mu, and the removal. *)
RemovePrevious ==
  /\ kpc = "published" /\ Unlocked
  /\ IF failed THEN kpc' = "idle" /\ UNCHANGED <<dir, ddir, pending>>
     ELSE /\ kpc' = "removed"
          /\ IF dir["previous"] # None THEN DirectoryOp(Unlinked("previous"))
                                       ELSE UNCHANGED <<dir, ddir, pending>>
  /\ frozen' = InitialState
  /\ UNCHANGED <<disk, status, mem, sequence, failed, walFile, cpc, db, acked, issued, faults, errors>>

SyncRemoved ==
  /\ kpc = "removed"
  /\ SyncDirectory
  /\ kpc' = "idle"
  /\ UNCHANGED <<status, mem, sequence, failed, walFile, cpc, frozen, db, acked, issued, faults, errors>>

(* A call of the checkpoint fails and it returns.  While it holds s.mu it
   latches the service, afterwards it leaves it running; a failed Encode
   leaves a piece of the snapshot in tmp. *)
CheckpointError ==
  /\ kpc # "idle" /\ errors < MaxErrors
  /\ \/ kpc = "opened" /\ disk' = [disk EXCEPT ![dir["tmp"]] = Appended(@, Torn)]
     \/ UNCHANGED disk
  /\ failed' = (failed \/ Freezing)
  /\ kpc' = "idle"
  /\ frozen' = InitialState
  /\ errors' = errors + 1
  /\ UNCHANGED <<dir, ddir, pending, status, mem, sequence, walFile, cpc, db, acked, issued, faults>>

-----------------------------------------------------------------------------
(* The process dies, and with it what is in memory. *)
Dies ==
  /\ faults < MaxFaults /\ status # "refused"
  /\ faults' = faults + 1
  /\ status' = "down"
  /\ mem' = <<>> /\ sequence' = 0 /\ failed' = FALSE /\ walFile' = None
  /\ cpc' = "idle" /\ kpc' = "idle" /\ frozen' = InitialState
  /\ UNCHANGED <<db, acked, issued, errors>>

(* It is killed, or stopped by an operator after the latch has closed. *)
Crash ==
  /\ "crash" \in Events /\ status = "up"
  /\ Dies
  /\ UNCHANGED filesystem

(* The machine loses power. *)
PowerLoss ==
  /\ "power" \in Events
  /\ Dies
  /\ \E kept \in Spared : dir' = Surviving(kept) /\ ddir' = Surviving(kept)
  /\ pending' = <<>>
  /\ \E left \in [Dirty -> UNION {Remains(disk[i]) : i \in Dirty}] :
       /\ \A i \in Dirty : left[i] \in Remains(disk[i])
       /\ disk' = [i \in Inodes |-> IF \A n \in Names : dir'[n] # i THEN Emptied
                                    ELSE IF i \in Dirty THEN left[i] ELSE disk[i]]

Init ==
  /\ disk = [i \in Inodes |-> Emptied]
  /\ dir = [n \in Names |-> None] /\ ddir = dir /\ pending = <<>>
  /\ status = "down" /\ mem = <<>> /\ sequence = 0 /\ failed = FALSE
  /\ walFile = None /\ cpc = "idle" /\ kpc = "idle" /\ frozen = InitialState
  /\ db = <<>> /\ acked = {} /\ issued = 0 /\ faults = 0 /\ errors = 0

Commits == CommitStart \/ OpenWal \/ SyncOpenedWal \/ WriteRecord \/ SyncRecord \/ CommitDone
Checkpoints ==
  \/ Freeze \/ RenameWal \/ SyncRenamed \/ CreateWal \/ SyncCreated
  \/ OpenTmp \/ EncodeTmp \/ SyncTmp \/ RenameSnapshot \/ SyncSnapshot
  \/ RemovePrevious \/ SyncRemoved

Next ==
  \/ Start \/ StartError
  \/ Commits \/ CommitError
  \/ \E k \in DOMAIN mem : AnswerRetry(mem[k])
  \/ Checkpoints \/ CheckpointError
  \/ Crash \/ PowerLoss

Spec == Init /\ [][Next]_vars

(* Start-up runs, a commit that has begun ends (PostgreSQL and the file system
   answer), and the ticker fires and its checkpoint goes on.  Nothing makes
   clients send or the machine fail. *)
Fairness ==
  /\ WF_vars(Start)
  /\ WF_vars(cpc # "idle" /\ Commits)
  /\ WF_vars(Checkpoints)
FairSpec == Spec /\ Fairness

-----------------------------------------------------------------------------
Item == Record \cup State \cup {Torn}
Directory == [Names -> Inodes \cup {None}]
Operation == UNION {[N -> Inodes \cup {None}] : N \in SUBSET Names}

(* Shape of the files and of the process. *)
TypeOK ==
  /\ disk \in [Inodes -> [data : Seq(Item), synced : Nat]]
  /\ \A i \in Inodes : disk[i].synced <= Len(disk[i].data)
  /\ dir \in Directory /\ ddir \in Directory /\ pending \in Seq(Operation)
  /\ status \in {"up", "down", "refused"}
  /\ mem \in Seq(Record) /\ sequence \in 0..MaxRecords /\ failed \in BOOLEAN
  /\ walFile \in {None, dir["wal"]}
  /\ cpc \in {"idle", "open", "opened", "write", "written", "synced"}
  /\ kpc \in {"idle", "closed", "renamed", "segmented", "created", "frozen", "opened",
              "encoded", "flushed", "renamedSnapshot", "published", "removed"}
  /\ frozen \in State
  /\ db \in Seq(Record) /\ acked \subseteq Record
  /\ issued \in 0..MaxRecords /\ faults \in 0..MaxFaults /\ errors \in 0..MaxErrors

(* Every record whose own commit was answered with success is in the state
   the service runs with, whatever crashes, power losses and failed calls
   fell between the steps of commits and checkpoints (appendMany,
   freezeCheckpoint, writeSnapshot, replayFile). *)
AckSurvives == status = "up" => acked \subseteq {mem[k] : k \in DOMAIN mem}

(* The state is always a gapless history: recovery from a snapshot and two
   segments applies every record exactly once, in order, and none is missing
   in front of one that is there (checkpoint.go, replayFile). *)
NoGap == \A k \in DOMAIN mem : mem[k].seq = k

(* Start-up never refuses files the service has left behind: a torn tail is
   always the last thing in its file, the snapshot is whole under its name
   (replayFile's corrupt-WAL and non-increasing errors, loadSnapshot). *)
NeverRefused == status # "refused"

(* go-backend/README.md:33: "Accepted state changes are appended and fsynced
   before acknowledgment" - an acknowledged record is in the fsynced part of
   a segment or of the snapshot. *)
FsyncedRecords ==
  LET fsynced(n) == {File(n).data[k] : k \in 1..File(n).synced}
  IN  fsynced("wal") \cup fsynced("previous")
      \cup UNION {{s.applied[k] : k \in DOMAIN s.applied} : s \in fsynced("snapshot")}
AckFsynced == status = "up" => acked \subseteq FsyncedRecords

(* When no commit is under way and none has failed, PostgreSQL holds exactly
   the records of the ledger, each once and in the ledger's order, although
   replay projects again what an interrupted commit or start-up may already
   have projected (ApplyBatch; commitMany's project before apply). *)
ProjectionExact == (Unlocked /\ ~failed) => db = mem

(* The service and PostgreSQL have one history, without a gap. *)
ExactHistory == NoGap /\ ProjectionExact

(* A segment left behind by a checkpoint that failed or was cut short is
   covered and removed by a later one, unless the service latches
   (freezeCheckpoint's retry branch). *)
PreviousGoes == (dir["previous"] # None) ~> (dir["previous"] = None \/ failed)
=============================================================================
