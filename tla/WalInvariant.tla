---------------------------- MODULE WalInvariant ----------------------------
(***************************************************************************)
(* The inductive invariant behind the theorems of WalProofs.  Whatever      *)
(* directory a crash or a power loss would leave, its snapshot, previous    *)
(* segment and log tell one gapless history h, which PostgreSQL and memory *)
(* are prefixes of.                                                        *)
(***************************************************************************)
EXTENDS WalCheckpoint

(* Processes die or the machine does, not both: after a process has died,
   the files hold records and names that no fsync covers, and a power loss
   then takes more than a commit or a checkpoint ever leaves unsynced. *)
OneKindOfDeath == ~({"crash", "power"} \subseteq Events)

PowerFails == "power" \in Events

(* The directories the next process may find. *)
PossibleDirs ==
  IF PowerFails THEN {Surviving(kept) : kept \in SUBSET DOMAIN pending} ELSE {dir}

(* What it reads there. *)
Seen(f, d, n) == IF d[n] = None THEN Emptied ELSE f[d[n]]
View(f, d) ==
  [wal |-> Seen(f, d, "wal"), previous |-> Seen(f, d, "previous"),
   snapshot |-> Seen(f, d, "snapshot"), published |-> d["snapshot"] # None]
PossibleViews == {View(disk, d) : d \in PossibleDirs}

-----------------------------------------------------------------------------
(* What a view tells. *)

Gapless(h) == \A k \in 1..Len(h) : h[k].seq = k
StateAt(h, m) == [sequence |-> m, applied |-> SubSeq(h, 1, m)]

(* Consecutive records of the history. *)
Segment(data, h) ==
  /\ data \in Seq(Record)
  /\ data # <<>> =>
       /\ data[1].seq + Len(data) - 1 <= Len(h)
       /\ \A k \in 1..Len(data) : data[k] = h[data[1].seq + k - 1]

(* The segment leaves no gap behind sequence m, and replay gets from m to ... *)
Attached(data, m) == data # <<>> => data[1].seq <= m + 1
After(m, data) ==
  IF data = <<>> \/ data[Len(data)].seq <= m THEN m ELSE data[Len(data)].seq

Log(v) == Whole(v.wal.data)
SnapshotAt(v) == IF v.published THEN v.snapshot.data[1].sequence ELSE 0
PreviousAt(v) == After(SnapshotAt(v), v.previous.data)

SnapshotTells(v, h) ==
  v.published =>
    \E m \in 0..Len(h) : v.snapshot = [data |-> <<StateAt(h, m)>>, synced |-> 1]
PreviousTells(v, h) ==
  Segment(v.previous.data, h) /\ Attached(v.previous.data, SnapshotAt(v))
LogTells(v, h) ==
  /\ Segment(Log(v), h)
  /\ Attached(Log(v), PreviousAt(v))
  /\ IF Log(v) = <<>> THEN PreviousAt(v) = Len(h) ELSE Log(v)[Len(Log(v))].seq = Len(h)
Tells(v, h) == SnapshotTells(v, h) /\ PreviousTells(v, h) /\ LogTells(v, h)

Settled(file) == file.synced = Len(file.data)

-----------------------------------------------------------------------------
(* No two names of a directory are bound to the same file, and tmp's is no
   other name's in any of them. *)
Injective(d) == \A m, n \in Names : m # n /\ d[m] # None => d[m] # d[n]
TmpApart(d) == dir["tmp"] # None => \A n \in Names \ {"tmp"} : d[n] # dir["tmp"]

(* The name of the log is uncertain only between its making and its sync. *)
WalNamed == status = "up" /\ ~failed /\ kpc \notin {"renamed", "created"} /\ cpc # "opened"

DirsInv ==
  /\ dir \in PossibleDirs
  /\ \A d \in PossibleDirs : Injective(d) /\ TmpApart(d)
  /\ WalNamed => \A d \in PossibleDirs : d["wal"] = dir["wal"]
  /\ status = "down" => PossibleDirs = {dir}

(* What a checkpoint has copied is ahead of every snapshot and every previous
   segment. *)
Copied == kpc \notin {"idle", "removed"}

(* Everything is fsynced but the last item of the log: a torn record or one
   PostgreSQL does not have. *)
Unsettled(v, h) ==
  /\ status = "up"
  /\ v.wal.synced = Len(v.wal.data) - 1
  /\ Log(v) = v.wal.data => Len(db) < Len(h)
Safe(v, h) == Settled(v.previous) /\ (Settled(v.wal) \/ Unsettled(v, h))

(* Every view tells h, and no snapshot or previous segment is ahead of
   PostgreSQL. *)
ViewInv(v, h) ==
  /\ Tells(v, h)
  /\ PreviousAt(v) <= Len(db)
  /\ dir["previous"] = None => PreviousAt(v) = SnapshotAt(v)
  /\ status = "up" /\ ~failed => Log(v) = v.wal.data
  /\ Copied => PreviousAt(v) <= frozen.sequence
  /\ kpc = "published" => SnapshotAt(v) = frozen.sequence
  /\ cpc = "synced" => Settled(v.wal)
  /\ PowerFails => Safe(v, h)

ViewsInv(h) ==
  /\ \A v \in PossibleViews : ViewInv(v, h)
  /\ kpc = "renamedSnapshot" => SnapshotAt(View(disk, dir)) = frozen.sequence

(* Histories in PostgreSQL and in memory. *)
HistoryInv(h) ==
  /\ Gapless(h) /\ Len(h) <= issued
  /\ Len(db) <= Len(h) /\ db = SubSeq(h, 1, Len(db))
  /\ Len(mem) <= Len(db) /\ mem = SubSeq(h, 1, Len(mem))
  /\ acked \subseteq {db[k] : k \in 1..Len(db)}
  /\ status = "up" => acked \subseteq {mem[k] : k \in 1..Len(mem)}

Written == cpc \in {"written", "synced"}
ProcessInv(h) ==
  /\ status # "refused"
  /\ status = "down" => /\ cpc = "idle" /\ kpc = "idle" /\ walFile = None
                        /\ ~failed /\ mem = <<>>
  /\ cpc # "idle" => ~failed /\ ~Freezing /\ issued > 0
  /\ cpc \in {"opened", "write", "written", "synced"} => walFile # None
  /\ sequence <= issued
  /\ status = "up" /\ ~failed =>
       /\ Len(db) = Len(mem)
       /\ Len(h) = IF Written THEN Len(mem) + 1 ELSE Len(mem)
       /\ Written => h[Len(h)] = CurrentRecord
       /\ sequence = IF cpc = "idle" THEN Len(mem) ELSE Len(mem) + 1

CheckpointInv(h) ==
  /\ Freezing => ~failed /\ frozen.sequence = Len(mem)
  /\ kpc \in {"closed", "renamed", "segmented"} => walFile = None
  /\ kpc = "closed" => dir["previous"] = None
  /\ Copied => frozen.sequence <= Len(mem) /\ frozen = StateAt(h, frozen.sequence)

(* tmp holds as much of the copy as was written. *)
TmpInv ==
  /\ kpc \in {"opened", "encoded", "flushed"} => dir["tmp"] # None
  /\ kpc = "opened" => disk[dir["tmp"]] = Emptied
  /\ kpc = "encoded" => disk[dir["tmp"]].data = <<frozen>>
  /\ kpc = "flushed" => disk[dir["tmp"]] = [data |-> <<frozen>>, synced |-> 1]

IInv(h) ==
  /\ TypeOK
  /\ DirsInv /\ TmpInv /\ ViewsInv(h) /\ HistoryInv(h) /\ ProcessInv(h) /\ CheckpointInv(h)

(* There is such a history. *)
Invariant == \E h \in Seq(Record) : IInv(h)

(* The history is what the next process would rebuild from what a reader sees. *)
Rebuilt == IInv(ReplayedState.applied)
=============================================================================
