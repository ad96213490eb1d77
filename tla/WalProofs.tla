----------------------------- MODULE WalProofs -----------------------------
(***************************************************************************)
(* The files behind the service, for every number of records, faults,      *)
(* failed calls and files: the invariant of WalInvariant holds of every    *)
(* behaviour of Spec, where processes die or the machine does.             *)
(*                                                                         *)
(* A step on the directory adds one way to go on to every directory that   *)
(* may be left, a sync of it leaves one.  Each step then either does not   *)
(* touch the files of those directories, or extends the log of all of them *)
(* by the record under way, or puts a larger snapshot in front of it.      *)
(***************************************************************************)
EXTENDS WalInvariant, SequenceTheorems, WellFoundedInduction, TLAPS

(* A set of natural numbers has a least element: induction, for the rest. *)
LEMMA LeastNatural ==
  ASSUME NEW T, T \subseteq Nat, T # {}
  PROVE  \E m \in T : \A k \in T : m <= k
<1>1. PICK m \in T : \A k \in T : ~(<<k, m>> \in OpToRel(<, Nat))
  BY WFMin, NatLessThanWellFounded, Zenon
<1>2. \A k \in T : ~(k < m)
  <2>1. \A k \in T : <<k, m>> \in Nat \X Nat
    OBVIOUS
  <2>. QED BY <1>1, <2>1, Zenon DEF OpToRel
<1>. QED  BY <1>2

(* Of some numbers up to n one is the largest. *)
LEMMA Largest ==
  ASSUME NEW n \in Nat, NEW S, S \subseteq 1..n, S # {}
  PROVE  Max(S) \in S /\ \A k \in S : k <= Max(S)
<1>. DEFINE T == {n - k : k \in S}
<1>1. T \subseteq Nat /\ T # {}
  <2>1. \A k \in S : k \in 1..n /\ n - k \in Nat
    OBVIOUS
  <2>. QED  BY <2>1
<1>2. PICK m \in T : \A k \in T : m <= k
  <2>. HIDE DEF T
  <2>. QED  BY <1>1, LeastNatural
<1>3. PICK x \in S : m = n - x
  OBVIOUS
<1>4. \A k \in S : x >= k
  <2>1. \A k \in S : n - k \in T /\ k \in 1..n
    OBVIOUS
  <2>. HIDE DEF T
  <2>. QED  BY <1>2, <1>3, <2>1
<1>5. Max(S) \in S /\ \A k \in S : Max(S) >= k
  BY <1>4 DEF Max
<1>. QED  BY <1>5

(* A file that nothing refers to is one. *)
LEMMA FreshInodeIsFree ==
  ASSUME HasInode
  PROVE  FreshInode \in Inodes /\ FreshInode \notin InUse /\ FreshInode # None
<1>. DEFINE T == Inodes \ InUse
<1>1. T \subseteq Nat /\ T # {}
  BY WalAssumption DEF HasInode, Inodes
<1>2. \E i \in T : \A j \in T : i <= j
  <2>. HIDE DEF T
  <2>. QED  BY <1>1, LeastNatural
<1>3. FreshInode \in T
  BY <1>2 DEF FreshInode
<1>. QED  BY <1>3, WalAssumption DEF Inodes, None

-----------------------------------------------------------------------------
(* Directories. *)

(* Surviving, of any operations p after any synced directory s. *)
SurvivingOf(s, p, kept) ==
  [n \in Names |->
     LET binding == {k \in kept : n \in DOMAIN p[k]}
     IN  IF binding = {} THEN s[n] ELSE p[Max(binding)][n]]

(* A name is bound as the last sync left it or by one of the operations. *)
LEMMA SurvivingBinds ==
  ASSUME NEW p \in Seq(Operation), NEW s \in Directory, NEW kept \in SUBSET (1..Len(p)),
         NEW n \in Names
  PROVE  /\ SurvivingOf(s, p, kept) \in Directory
         /\ \/ SurvivingOf(s, p, kept)[n] = s[n]
            \/ \E k \in 1..Len(p) : n \in DOMAIN p[k] /\ SurvivingOf(s, p, kept)[n] = p[k][n]
<1>. DEFINE binding(x) == {k \in kept : x \in DOMAIN p[k]}
<1>1. \A x \in Names : binding(x) # {} =>
        /\ Max(binding(x)) \in 1..Len(p)
        /\ x \in DOMAIN p[Max(binding(x))]
  <2>. TAKE x \in Names
  <2>. HAVE binding(x) # {}
  <2>1. binding(x) \subseteq 1..Len(p)
    OBVIOUS
  <2>2. Max(binding(x)) \in binding(x)
    <3>. HIDE DEF binding
    <3>. QED  BY <2>1, Largest
  <2>. QED  BY <2>2
<1>2. \A k \in 1..Len(p), x \in Names : x \in DOMAIN p[k] => p[k][x] \in Inodes \cup {None}
  BY DEF Operation
<1>3. SurvivingOf(s, p, kept) =
        [x \in Names |-> IF binding(x) = {} THEN s[x] ELSE p[Max(binding(x))][x]]
  BY DEF SurvivingOf
<1>. HIDE DEF binding
<1>4. SurvivingOf(s, p, kept) \in Directory
  BY <1>1, <1>2, <1>3 DEF Directory
<1>. QED  BY <1>1, <1>3, <1>4

(* One more operation, lost or kept. *)
LEMMA SurvivingMore ==
  ASSUME NEW p \in Seq(Operation), NEW s \in Directory, NEW op \in Operation,
         NEW kept \in SUBSET (1..Len(p))
  PROVE  /\ SurvivingOf(s, Append(p, op), kept) = SurvivingOf(s, p, kept)
         /\ SurvivingOf(s, Append(p, op), kept \cup {Len(p) + 1})
              = Bound(SurvivingOf(s, p, kept), op)
<1>. DEFINE q == Append(p, op)
            more == kept \cup {Len(p) + 1}
            binding(x) == {k \in kept : x \in DOMAIN p[k]}
<1>1. \A k \in kept : q[k] = p[k]
  OBVIOUS
<1>2. q[Len(p) + 1] = op /\ Len(p) + 1 \notin kept
  OBVIOUS
<1>3. \A x \in Names : {k \in kept : x \in DOMAIN q[k]} = binding(x)
  BY <1>1
<1>4. \A x \in Names : binding(x) # {} => Max(binding(x)) \in kept
  <2>. TAKE x \in Names
  <2>. HAVE binding(x) # {}
  <2>1. binding(x) \subseteq 1..Len(p) /\ binding(x) \subseteq kept
    OBVIOUS
  <2>2. Max(binding(x)) \in binding(x)
    <3>. HIDE DEF binding
    <3>. QED  BY <2>1, Largest
  <2>. QED  BY <2>1, <2>2
<1>5. \A x \in Names : x \notin DOMAIN op => {k \in more : x \in DOMAIN q[k]} = binding(x)
  BY <1>1, <1>2
<1>6. \A x \in Names : x \in DOMAIN op =>
        /\ {k \in more : x \in DOMAIN q[k]} # {}
        /\ Max({k \in more : x \in DOMAIN q[k]}) = Len(p) + 1
  <2>. TAKE x \in Names
  <2>. HAVE x \in DOMAIN op
  <2>. DEFINE S == {k \in more : x \in DOMAIN q[k]}
  <2>1. S \subseteq 1..(Len(p) + 1) /\ Len(p) + 1 \in S
    <3>1. Len(p) + 1 \in more /\ more \subseteq 1..(Len(p) + 1)
      <4>1. Len(p) \in Nat /\ \A k \in kept : k \in 1..Len(p)
        OBVIOUS
      <4>2. Len(p) + 1 \in 1..(Len(p) + 1) /\ \A k \in kept : k \in 1..(Len(p) + 1)
        BY <4>1
      <4>. QED  BY <4>2, Zenon
    <3>. HIDE DEF more, q
    <3>. QED  BY <1>2, <3>1
  <2>2. Max(S) \in S /\ \A k \in S : k <= Max(S)
    <3>. HIDE DEF S
    <3>. QED  BY <2>1, Largest, Len(p) + 1 \in Nat
  <2>. QED
    <3>. HIDE DEF S
    <3>1. Max(S) = Len(p) + 1
      <4>1. Max(S) \in 1..(Len(p) + 1) /\ Len(p) + 1 <= Max(S)
        BY <2>1, <2>2, Zenon
      <4>2. Len(p) \in Nat
        OBVIOUS
      <4>. QED  BY <4>1, <4>2
    <3>. QED  BY <2>1, <3>1 DEF S
<1>7. SurvivingOf(s, q, kept) = SurvivingOf(s, p, kept)
  <2>1. SurvivingOf(s, q, kept) =
          [x \in Names |-> IF {k \in kept : x \in DOMAIN q[k]} = {} THEN s[x]
                           ELSE q[Max({k \in kept : x \in DOMAIN q[k]})][x]]
    BY DEF SurvivingOf
  <2>2. SurvivingOf(s, p, kept) =
          [x \in Names |-> IF binding(x) = {} THEN s[x] ELSE p[Max(binding(x))][x]]
    BY DEF SurvivingOf
  <2>3. \A x \in Names : SurvivingOf(s, q, kept)[x] = SurvivingOf(s, p, kept)[x]
    <3>. TAKE x \in Names
    <3>1. /\ SurvivingOf(s, q, kept)[x] = IF binding(x) = {} THEN s[x] ELSE q[Max(binding(x))][x]
          /\ SurvivingOf(s, p, kept)[x] = IF binding(x) = {} THEN s[x] ELSE p[Max(binding(x))][x]
      <4>. HIDE DEF binding, q
      <4>. QED  BY <1>3, <2>1, <2>2
    <3>2. binding(x) # {} => q[Max(binding(x))] = p[Max(binding(x))]
      <4>. HIDE DEF binding, q
      <4>. QED  BY <1>1, <1>4
    <3>. HIDE DEF binding, q
    <3>. QED  BY <3>1, <3>2
  <2>. QED  BY <2>1, <2>2, <2>3, Zenon DEF SurvivingOf
<1>8. SurvivingOf(s, q, more) = Bound(SurvivingOf(s, p, kept), op)
  <2>1. SurvivingOf(s, q, more) =
          [x \in Names |-> IF {k \in more : x \in DOMAIN q[k]} = {} THEN s[x]
                           ELSE q[Max({k \in more : x \in DOMAIN q[k]})][x]]
    BY DEF SurvivingOf
  <2>2. SurvivingOf(s, p, kept) =
          [x \in Names |-> IF binding(x) = {} THEN s[x] ELSE p[Max(binding(x))][x]]
    BY DEF SurvivingOf
  <2>3. \A x \in Names : SurvivingOf(s, q, more)[x] = Bound(SurvivingOf(s, p, kept), op)[x]
    <3>. TAKE x \in Names
    <3>1. Bound(SurvivingOf(s, p, kept), op)[x] =
            IF x \in DOMAIN op THEN op[x] ELSE SurvivingOf(s, p, kept)[x]
      BY DEF Bound
    <3>2. CASE x \in DOMAIN op
      <4>1. SurvivingOf(s, q, more)[x] = q[Len(p) + 1][x]
        <5>. HIDE DEF more, q
        <5>. QED  BY <1>6, <2>1, <3>2
      <4>. QED  BY <1>2, <3>1, <3>2, <4>1
    <3>3. CASE x \notin DOMAIN op
      <4>1. /\ SurvivingOf(s, q, more)[x] = IF binding(x) = {} THEN s[x] ELSE q[Max(binding(x))][x]
            /\ SurvivingOf(s, p, kept)[x] = IF binding(x) = {} THEN s[x] ELSE p[Max(binding(x))][x]
        <5>. HIDE DEF binding, more, q
        <5>. QED  BY <1>5, <2>1, <2>2, <3>3
      <4>2. binding(x) # {} => q[Max(binding(x))] = p[Max(binding(x))]
        <5>. HIDE DEF binding, q
        <5>. QED  BY <1>1, <1>4
      <4>. HIDE DEF binding, q, more
      <4>. QED  BY <3>1, <3>3, <4>1, <4>2
    <3>. QED  BY <3>2, <3>3
  <2>. HIDE DEF q, more
  <2>. QED  BY <2>1, <2>3 DEF Bound
<1>. QED  BY <1>7, <1>8

(* The operations on the directory. *)
LEMMA OperationsType ==
  /\ \A n \in Names, i \in Inodes : Linked(n, i) \in Operation
  /\ \A n \in Names : Unlinked(n) \in Operation
  /\ dir \in Directory => \A m, n \in Names : Renamed(m, n) \in Operation
<1>1. \A n \in Names, i \in Inodes : Linked(n, i) \in Operation
  <2>. TAKE n \in Names, i \in Inodes
  <2>1. {n} \in SUBSET Names /\ Linked(n, i) \in [{n} -> Inodes \cup {None}]
    BY DEF Linked
  <2>. QED  BY <2>1 DEF Operation
<1>2. \A n \in Names : Unlinked(n) \in Operation
  <2>. TAKE n \in Names
  <2>1. {n} \in SUBSET Names /\ Unlinked(n) \in [{n} -> Inodes \cup {None}]
    BY DEF Unlinked
  <2>. QED  BY <2>1 DEF Operation
<1>3. dir \in Directory => \A m, n \in Names : Renamed(m, n) \in Operation
  <2>. HAVE dir \in Directory
  <2>. TAKE m, n \in Names
  <2>1. {m, n} \in SUBSET Names /\ Renamed(m, n) \in [{m, n} -> Inodes \cup {None}]
    BY DEF Renamed, Directory
  <2>. QED  BY <2>1 DEF Operation
<1>. QED  BY <1>1, <1>2, <1>3

(* The directories that may be found bind names to files in use. *)
LEMMA DirsInUse ==
  ASSUME TypeOK, NEW d \in PossibleDirs, NEW n \in Names
  PROVE  d \in Directory /\ d[n] \in InUse
<1>1. CASE ~PowerFails
  BY <1>1 DEF PossibleDirs, TypeOK, InUse
<1>2. CASE PowerFails
  <2>1. PICK kept \in SUBSET (1..Len(pending)) : d = SurvivingOf(ddir, pending, kept)
    <3>1. \A kept : Surviving(kept) = SurvivingOf(ddir, pending, kept)
      BY Zenon DEF Surviving, SurvivingOf
    <3>2. DOMAIN pending = 1..Len(pending)
      BY DEF TypeOK
    <3>. QED  BY <1>2, <3>1, <3>2 DEF PossibleDirs
  <2>2. /\ d \in Directory
        /\ d[n] = ddir[n] \/ \E k \in 1..Len(pending) : n \in DOMAIN pending[k] /\ d[n] = pending[k][n]
    <3>1. ddir \in Directory /\ pending \in Seq(Operation)
      BY DEF TypeOK
    <3>. QED  BY <2>1, <3>1, SurvivingBinds
  <2>3. DOMAIN pending = 1..Len(pending)
    BY DEF TypeOK
  <2>. QED  BY <2>2, <2>3 DEF InUse
<1>. QED  BY <1>1, <1>2

(* An operation gives every directory one more way to go on. *)
LEMMA DirsAfterOp ==
  ASSUME TypeOK, NEW op \in Operation, DirectoryOp(op), dir \in PossibleDirs
  PROVE  /\ dir' \in PossibleDirs'
         /\ \A d \in PossibleDirs' :
              d \in PossibleDirs \/ \E e \in PossibleDirs : d = Bound(e, op)
<1>0. dir' = Bound(dir, op) /\ pending' = Append(pending, op) /\ ddir' = ddir
  BY DEF DirectoryOp
<1>1. CASE ~PowerFails
  BY <1>0, <1>1 DEF PossibleDirs, PowerFails
<1>2. CASE PowerFails
  <2>0. /\ pending \in Seq(Operation) /\ ddir \in Directory /\ Len(pending) \in Nat
        /\ DOMAIN pending = 1..Len(pending) /\ DOMAIN pending' = 1..(Len(pending) + 1)
    BY <1>0 DEF TypeOK
  <2>1. PossibleDirs = {SurvivingOf(ddir, pending, kept) : kept \in SUBSET (1..Len(pending))}
    BY <1>2, <2>0 DEF PossibleDirs, Surviving, SurvivingOf
  <2>2. PossibleDirs' =
          {SurvivingOf(ddir, Append(pending, op), kept) : kept \in SUBSET (1..(Len(pending) + 1))}
    <3>1. \A kept : Surviving(kept)' = SurvivingOf(ddir', pending', kept)
      BY Zenon DEF Surviving, SurvivingOf
    <3>2. PossibleDirs' = {Surviving(kept)' : kept \in SUBSET DOMAIN pending'}
      BY <1>2 DEF PossibleDirs, PowerFails
    <3>. QED  BY <1>0, <2>0, <3>1, <3>2
  <2>3. dir' \in PossibleDirs'
    <3>1. PICK kept \in SUBSET (1..Len(pending)) : dir = SurvivingOf(ddir, pending, kept)
      BY <2>1
    <3>2. SurvivingOf(ddir, Append(pending, op), kept \cup {Len(pending) + 1}) = dir'
      BY <1>0, <2>0, <3>1, SurvivingMore
    <3>3. kept \cup {Len(pending) + 1} \in SUBSET (1..(Len(pending) + 1))
      <4>1. \A k \in kept : k \in 1..Len(pending)
        OBVIOUS
      <4>2. Len(pending) + 1 \in 1..(Len(pending) + 1) /\ \A k \in kept : k \in 1..(Len(pending) + 1)
        BY <2>0, <4>1
      <4>. QED  BY <4>2, Zenon
    <3>. QED  BY <2>2, <3>2, <3>3
  <2>4. ASSUME NEW d \in PossibleDirs'
        PROVE  d \in PossibleDirs \/ \E e \in PossibleDirs : d = Bound(e, op)
    <3>1. PICK more \in SUBSET (1..(Len(pending) + 1)) :
            d = SurvivingOf(ddir, Append(pending, op), more)
      BY <2>2
    <3>. DEFINE kept == more \ {Len(pending) + 1}
    <3>2. kept \in SUBSET (1..Len(pending))
      <4>1. \A k \in kept : k \in 1..(Len(pending) + 1) /\ k # Len(pending) + 1
        OBVIOUS
      <4>2. \A k \in kept : k \in 1..Len(pending)
        BY <2>0, <4>1
      <4>. QED  BY <4>2
    <3>3. more = kept \/ more = kept \cup {Len(pending) + 1}
      OBVIOUS
    <3>. HIDE DEF kept
    <3>. DEFINE e == SurvivingOf(ddir, pending, kept)
    <3>4. e \in PossibleDirs
      BY <2>1, <3>2
    <3>5. d = e \/ d = Bound(e, op)
      <4>1. /\ SurvivingOf(ddir, Append(pending, op), kept) = e
            /\ SurvivingOf(ddir, Append(pending, op), kept \cup {Len(pending) + 1}) = Bound(e, op)
        BY <2>0, <3>2, SurvivingMore
      <4>. HIDE DEF e
      <4>. QED  BY <3>1, <3>3, <4>1
    <3>. QED  BY <3>4, <3>5
  <2>. QED  BY <2>3, <2>4
<1>. QED  BY <1>1, <1>2

(* A synced directory is the only one. *)
LEMMA DirsAfterSync ==
  ASSUME dir' \in Directory, ddir' = dir', pending' = <<>>
  PROVE  PossibleDirs' = {dir'}
<1>1. CASE ~PowerFails
  BY <1>1 DEF PossibleDirs, PowerFails
<1>2. CASE PowerFails
  <2>1. \A kept \in SUBSET DOMAIN pending' : kept = {}
    OBVIOUS
  <2>2. Surviving({})' = dir'
    <3>1. Surviving({})' = [n \in Names |-> ddir'[n]]
      BY DEF Surviving
    <3>. QED  BY <3>1 DEF Directory
  <2>3. PossibleDirs' = {Surviving(kept)' : kept \in SUBSET DOMAIN pending'}
    BY <1>2 DEF PossibleDirs, PowerFails
  <2>. QED  BY <2>1, <2>2, <2>3
<1>. QED  BY <1>1, <1>2

(* Nothing happens to the directory. *)
LEMMA DirsSame ==
  ASSUME dir' = dir, ddir' = ddir, pending' = pending
  PROVE  PossibleDirs' = PossibleDirs
BY DEF PossibleDirs, PowerFails, Surviving

(* A power loss leaves one of the directories. *)
LEMMA DirsAfterPowerLoss ==
  ASSUME TypeOK, PowerLoss
  PROVE  dir' \in PossibleDirs /\ PossibleDirs' = {dir'}
<1>1. PICK kept \in Spared : dir' = Surviving(kept) /\ ddir' = Surviving(kept)
  BY DEF PowerLoss
<1>2. pending' = <<>> /\ PowerFails
  BY DEF PowerLoss, PowerFails
<1>3. kept \in SUBSET DOMAIN pending
  <2>1. CASE ~Journaled
    BY <2>1 DEF Spared
  <2>2. CASE Journaled
    <3>1. PICK k \in 0..Len(pending) : kept = 1..k
      BY <2>2 DEF Spared
    <3>2. Len(pending) \in Nat /\ DOMAIN pending = 1..Len(pending)
      BY DEF TypeOK
    <3>. QED  BY <3>1, <3>2
  <2>. QED  BY <2>1, <2>2
<1>4. dir' \in PossibleDirs
  BY <1>1, <1>2, <1>3 DEF PossibleDirs
<1>5. dir' \in Directory
  BY <1>4, DirsInUse DEF Names
<1>. QED  BY <1>1, <1>2, <1>4, <1>5, DirsAfterSync

-----------------------------------------------------------------------------
(* Files. *)

(* A reader of records finds all of them. *)
LEMMA WholeRecords ==
  ASSUME NEW data \in Seq(Record)
  PROVE  /\ Whole(data) = data
         /\ Whole(Append(data, Torn)) = data
<1>1. \A k \in 1..Len(data) : data[k] # Torn
  BY WalAssumption
<1>2. Whole(data) = data
  BY <1>1 DEF Whole
<1>3. Append(data, Torn) # <<>> /\ Append(data, Torn)[Len(Append(data, Torn))] = Torn
  OBVIOUS
<1>4. SubSeq(Append(data, Torn), 1, Len(Append(data, Torn)) - 1) = data
  OBVIOUS
<1>. QED  BY <1>2, <1>3, <1>4 DEF Whole

(* What a file may be, when the records of it are. *)
LEMMA WholeOrTorn ==
  ASSUME NEW data \in Seq(Item), Whole(data) \in Seq(Record)
  PROVE  data = Whole(data) \/ data = Append(Whole(data), Torn)
<1>1. CASE data # <<>> /\ data[Len(data)] = Torn
  <2>1. Whole(data) = SubSeq(data, 1, Len(data) - 1)
    BY <1>1 DEF Whole
  <2>2. Append(SubSeq(data, 1, Len(data) - 1), data[Len(data)]) = data
    BY <1>1
  <2>. QED  BY <1>1, <2>1, <2>2
<1>2. CASE ~(data # <<>> /\ data[Len(data)] = Torn)
  BY <1>2 DEF Whole
<1>. QED  BY <1>1, <1>2

(* The numbers of a segment. *)
LEMMA SegmentNumbers ==
  ASSUME NEW h \in Seq(Record), Gapless(h), NEW data, Segment(data, h), data # <<>>
  PROVE  /\ data \in Seq(Record) /\ Len(data) \in Nat /\ Len(data) >= 1
         /\ data[1].seq \in Nat /\ data[1].seq >= 1
         /\ data[1].seq + Len(data) - 1 \in 1..Len(h)
         /\ \A k \in 1..Len(data) : data[k] = h[data[1].seq + k - 1] /\ data[k].seq = data[1].seq + k - 1
         /\ data[Len(data)].seq = data[1].seq + Len(data) - 1
<1>1. /\ data \in Seq(Record) /\ data[1].seq + Len(data) - 1 <= Len(h)
      /\ \A k \in 1..Len(data) : data[k] = h[data[1].seq + k - 1]
  BY DEF Segment
<1>2. Len(data) \in Nat /\ Len(data) >= 1 /\ data[1] \in Record /\ Len(h) \in Nat
  BY <1>1
<1>3. data[1].seq \in Nat /\ data[1].seq >= 1
  BY <1>2, WalAssumption DEF Record
<1>4. \A k \in 1..Len(data) : data[1].seq + k - 1 \in 1..Len(h)
  BY <1>1, <1>2, <1>3
<1>5. \A k \in 1..Len(data) : data[k].seq = data[1].seq + k - 1
  BY <1>1, <1>4 DEF Gapless
<1>. QED  BY <1>1, <1>2, <1>3, <1>4, <1>5

(* The bounds of the numbers. *)
LEMMA TellsBounds ==
  ASSUME NEW v, NEW h \in Seq(Record), Gapless(h), Tells(v, h)
  PROVE  /\ SnapshotAt(v) \in 0..Len(h)
         /\ PreviousAt(v) \in 0..Len(h)
         /\ SnapshotAt(v) <= PreviousAt(v)
         /\ v.previous.data # <<>> =>
              /\ v.previous.data[Len(v.previous.data)].seq \in 1..Len(h)
              /\ v.previous.data[Len(v.previous.data)].seq <= PreviousAt(v)
<1>. DEFINE p == v.previous.data
<1>0. Len(h) \in Nat
  OBVIOUS
<1>1. SnapshotAt(v) \in 0..Len(h)
  <2>1. CASE ~v.published
    BY <1>0, <2>1 DEF SnapshotAt
  <2>2. CASE v.published
    <3>1. PICK m \in 0..Len(h) : v.snapshot = [data |-> <<StateAt(h, m)>>, synced |-> 1]
      BY <2>2 DEF Tells, SnapshotTells
    <3>2. v.snapshot.data[1].sequence = m
      BY <3>1 DEF StateAt
    <3>. QED  BY <2>2, <3>2 DEF SnapshotAt
  <2>. QED  BY <2>1, <2>2
<1>2. p # <<>> => p[Len(p)].seq \in 1..Len(h)
  <2>. HAVE p # <<>>
  <2>1. Segment(p, h)
    BY DEF Tells, PreviousTells
  <2>. HIDE DEF p
  <2>2. p[Len(p)].seq = p[1].seq + Len(p) - 1 /\ p[1].seq + Len(p) - 1 \in 1..Len(h)
    BY <2>1, SegmentNumbers
  <2>. QED  BY <2>2
<1>. HIDE DEF p
<1>3. PreviousAt(v) = IF p = <<>> \/ p[Len(p)].seq <= SnapshotAt(v)
                      THEN SnapshotAt(v) ELSE p[Len(p)].seq
  BY DEF PreviousAt, After, p
<1>. QED  BY <1>0, <1>1, <1>2, <1>3 DEF p

-----------------------------------------------------------------------------
(* Replay. *)

(* Sequences with the same elements. *)
LEMMA SameElements ==
  ASSUME NEW S, NEW s \in Seq(S), NEW t \in Seq(S), Len(s) = Len(t),
         \A k \in 1..Len(s) : s[k] = t[k]
  PROVE  s = t
OBVIOUS

(* Prefixes of a history. *)
LEMMA Prefixes ==
  ASSUME NEW S, NEW h \in Seq(S), NEW m \in 0..Len(h)
  PROVE  /\ SubSeq(h, 1, m) \in Seq(S) /\ Len(SubSeq(h, 1, m)) = m
         /\ \A k \in 1..m : SubSeq(h, 1, m)[k] = h[k]
OBVIOUS

(* The part of a history behind m. *)
LEMMA Parts ==
  ASSUME NEW S, NEW h \in Seq(S), NEW m \in 0..Len(h), NEW n \in m..Len(h)
  PROVE  /\ SubSeq(h, m + 1, n) \in Seq(S) /\ Len(SubSeq(h, m + 1, n)) = n - m
         /\ \A k \in 1..(n - m) : SubSeq(h, m + 1, n)[k] = h[m + k]
         /\ SubSeq(h, 1, m) \o SubSeq(h, m + 1, n) = SubSeq(h, 1, n)
<1>1. /\ SubSeq(h, m + 1, n) \in Seq(S) /\ Len(SubSeq(h, m + 1, n)) = n - m
      /\ \A k \in 1..(n - m) : SubSeq(h, m + 1, n)[k] = h[m + k]
  OBVIOUS
<1>2. SubSeq(h, 1, m) \o SubSeq(h, m + 1, n) = SubSeq(h, 1, n)
  <2>1. 1 \in 1..(Len(h) + 1) /\ m \in (1 - 1)..Len(h)
    OBVIOUS
  <2>. QED  BY <2>1, ConcatAdjacentSubSeq
<1>. QED  BY <1>1, <1>2

(* Of a segment that leaves no gap, replay applies what follows m. *)
LEMMA UncoveredPart ==
  ASSUME NEW h \in Seq(Record), Gapless(h), NEW m \in 0..Len(h),
         NEW data, Segment(data, h), Attached(data, m)
  PROVE  /\ After(m, data) \in m..Len(h)
         /\ Uncovered(StateAt(h, m), data) = SubSeq(h, m + 1, After(m, data))
<1>0. Len(h) \in Nat /\ m \in Nat /\ StateAt(h, m).sequence = m
  BY DEF StateAt
<1>1. CASE data = <<>>
  <2>1. After(m, data) = m
    BY <1>1 DEF After
  <2>2. Uncovered(StateAt(h, m), data) = <<>>
    <3>1. \E k : Uncovered(StateAt(h, m), data) = SubSeq(data, k, 0)
      BY <1>1 DEF Uncovered
    <3>2. Uncovered(StateAt(h, m), data) = SubSeq(data, 1, 0)
      <4>1. (CHOOSE k \in 1..(Len(data) + 1) :
                 /\ \A j \in k..Len(data) : ~Covers(StateAt(h, m), data[j])
                 /\ k > 1 => Covers(StateAt(h, m), data[k - 1])) = 1
        BY <1>1
      <4>. QED  BY <1>1, <4>1 DEF Uncovered
    <3>. QED  BY <1>1, <3>2
  <2>3. SubSeq(h, m + 1, m) = <<>>
    BY <1>0
  <2>. QED  BY <1>0, <2>1, <2>2, <2>3
<1>2. CASE data # <<>>
  <2>. DEFINE a == data[1].seq
              l == Len(data)
              last == a + l - 1
              covered == IF last <= m THEN l ELSE m - a + 1
  <2>1. /\ data \in Seq(Record) /\ l \in Nat /\ l >= 1 /\ a \in Nat /\ a >= 1 /\ last \in 1..Len(h)
        /\ \A k \in 1..l : data[k] = h[a + k - 1] /\ data[k].seq = a + k - 1
        /\ data[l].seq = last /\ a <= m + 1
    BY <1>2, SegmentNumbers DEF Attached
  <2>2. After(m, data) = IF last <= m THEN m ELSE last
    BY <1>2, <2>1 DEF After
  <2>. HIDE DEF a, l
  <2>3. covered \in 0..l
    BY <1>0, <2>1
  <2>4. \A k \in 1..(l + 1) :
          ((\A j \in k..l : ~(a + j - 1 <= m)) /\ (k > 1 => a + (k - 1) - 1 <= m))
            <=> k = covered + 1
    <3>. TAKE k \in 1..(l + 1)
    <3>1. CASE last <= m
      <4>1. a + l - 1 <= m
        BY <3>1
      <4>2. \A j \in 1..l : a + j - 1 <= m
        BY <1>0, <2>1, <4>1
      <4>3. covered = l /\ (k > 1 => k - 1 \in 1..l) /\ (k # l + 1 => k \in k..l /\ k \in 1..l)
        BY <2>1, <3>1
      <4>4. k > 1 => a + (k - 1) - 1 <= m
        BY <4>2, <4>3
      <4>5. k # l + 1 => ~\A j \in k..l : ~(a + j - 1 <= m)
        BY <4>2, <4>3
      <4>6. k = l + 1 => \A j \in k..l : ~(a + j - 1 <= m)
        BY <2>1
      <4>. QED  BY <4>3, <4>4, <4>5, <4>6
    <3>2. CASE ~(last <= m)
      <4>1. covered = m - a + 1 /\ a + l - 1 > m
        BY <1>0, <2>1, <3>2
      <4>2. ASSUME k = covered + 1
            PROVE  (\A j \in k..l : ~(a + j - 1 <= m)) /\ (k > 1 => a + (k - 1) - 1 <= m)
        BY <1>0, <2>1, <4>1, <4>2
      <4>3. ASSUME \A j \in k..l : ~(a + j - 1 <= m), k > 1 => a + (k - 1) - 1 <= m
            PROVE  k = covered + 1
        <5>1. k >= covered + 1
          <6>1. covered \notin k..l
            <7>1. a + covered - 1 = m
              BY <1>0, <2>1, <4>1
            <7>2. a + covered - 1 <= m
              BY <1>0, <7>1
            <7>. HIDE DEF covered
            <7>. QED  BY <4>3, <7>2
          <6>2. covered < k
            BY <1>0, <2>1, <2>3, <6>1
          <6>. QED  BY <2>1, <2>3, <6>2
        <5>2. k <= covered + 1
          BY <1>0, <2>1, <4>1, <4>3
        <5>. QED  BY <1>0, <2>1, <2>3, <5>1, <5>2
      <4>. QED  BY <4>2, <4>3
    <3>. QED  BY <3>1, <3>2
  <2>5. \A k \in 1..(l + 1) :
          ((\A j \in k..l : ~Covers(StateAt(h, m), data[j])) /\ (k > 1 => Covers(StateAt(h, m), data[k - 1])))
            <=> k = covered + 1
    <3>1. \A j \in 1..l : Covers(StateAt(h, m), data[j]) <=> a + j - 1 <= m
      BY <1>0, <2>1 DEF Covers
    <3>2. \A k \in 1..(l + 1) : (\A j \in k..l : j \in 1..l) /\ (k > 1 => k - 1 \in 1..l)
      BY <2>1
    <3>. HIDE DEF covered
    <3>. QED  BY <2>4, <3>1, <3>2
  <2>6. Uncovered(StateAt(h, m), data) = SubSeq(data, covered + 1, l)
    <3>1. covered + 1 \in 1..(l + 1)
      BY <2>1, <2>3
    <3>. HIDE DEF covered
    <3>2. (CHOOSE k \in 1..(l + 1) :
                 /\ \A j \in k..l : ~Covers(StateAt(h, m), data[j])
                 /\ k > 1 => Covers(StateAt(h, m), data[k - 1])) = covered + 1
      BY <2>5, <3>1
    <3>. QED  BY <3>2 DEF Uncovered, l
  <2>7. CASE last <= m
    <3>1. SubSeq(data, covered + 1, l) = <<>>
      BY <2>1, <2>7 DEF l
    <3>2. SubSeq(h, m + 1, m) = <<>>
      BY <1>0
    <3>3. After(m, data) = m /\ m \in m..Len(h)
      BY <1>0, <2>2, <2>7
    <3>. HIDE DEF covered
    <3>. QED  BY <2>6, <3>1, <3>2, <3>3
  <2>8. CASE ~(last <= m)
    <3>. DEFINE s == SubSeq(data, covered + 1, l)
                t == SubSeq(h, m + 1, last)
    <3>1. covered = m - a + 1 /\ last \in m..Len(h)
      BY <1>0, <2>1, <2>8
    <3>2. /\ s \in Seq(Record) /\ Len(s) = l - covered
          /\ \A k \in 1..(l - covered) : s[k] = data[covered + k]
      <4>. HIDE DEF covered
      <4>. QED  BY <2>1, <2>3, Parts DEF l
    <3>3. /\ t \in Seq(Record) /\ Len(t) = last - m
          /\ \A k \in 1..(last - m) : t[k] = h[m + k]
      <4>. HIDE DEF last
      <4>. QED  BY <3>1, Parts
    <3>4. l - covered = last - m
      BY <1>0, <2>1, <3>1
    <3>5. \A k \in 1..(last - m) : data[covered + k] = h[m + k]
      <4>. TAKE k \in 1..(last - m)
      <4>1. covered + k \in 1..l /\ a + (covered + k) - 1 = m + k
        BY <1>0, <2>1, <2>3, <3>1, <3>4
      <4>. QED  BY <2>1, <4>1
    <3>6. s = t
      <4>. HIDE DEF s, t, covered, last
      <4>. QED  BY <3>2, <3>3, <3>4, <3>5, SameElements
    <3>. QED  BY <2>2, <2>6, <2>8, <3>1, <3>6
  <2>. QED  BY <2>7, <2>8
<1>. QED  BY <1>1, <1>2

(* Replaying a file gets from one prefix of the history to another. *)
LEMMA ReplayedPart ==
  ASSUME NEW h \in Seq(Record), Gapless(h), NEW m \in 0..Len(h),
         NEW data, Segment(Whole(data), h), Attached(Whole(data), m)
  PROVE  /\ After(m, Whole(data)) \in m..Len(h)
         /\ Replayed(StateAt(h, m), data) = StateAt(h, After(m, Whole(data)))
<1>. DEFINE n == After(m, Whole(data))
            new == Uncovered(StateAt(h, m), Whole(data))
<1>1. n \in m..Len(h) /\ new = SubSeq(h, m + 1, n)
  BY UncoveredPart
<1>2. Replayed(StateAt(h, m), data) =
        [sequence |-> IF new = <<>> THEN StateAt(h, m).sequence ELSE new[Len(new)].seq,
         applied |-> StateAt(h, m).applied \o new]
  BY DEF Replayed
<1>. HIDE DEF n, new
<1>3. /\ Len(new) = n - m /\ \A k \in 1..(n - m) : new[k] = h[m + k]
      /\ SubSeq(h, 1, m) \o new = SubSeq(h, 1, n)
  BY <1>1, Parts
<1>4. (IF new = <<>> THEN m ELSE new[Len(new)].seq) = n
  <2>1. CASE n = m
    <3>1. new = <<>>
      BY <1>1, <2>1
    <3>. QED  BY <2>1, <3>1
  <2>2. CASE n # m
    <3>1. n - m \in 1..(n - m) /\ m + (n - m) = n /\ n \in 1..Len(h)
      BY <1>1, <2>2
    <3>2. new # <<>>
      BY <1>3, <3>1
    <3>3. new[Len(new)] = h[n]
      BY <1>3, <3>1
    <3>. QED  BY <3>1, <3>2, <3>3 DEF Gapless
  <2>. QED  BY <2>1, <2>2
<1>5. StateAt(h, m).sequence = m /\ StateAt(h, m).applied = SubSeq(h, 1, m)
  BY DEF StateAt
<1>6. Replayed(StateAt(h, m), data) = StateAt(h, n)
  BY <1>2, <1>3, <1>4, <1>5 DEF StateAt
<1>. QED  BY <1>1, <1>6 DEF n

(* A history is no longer than its numbers allow, and its prefixes are states. *)
LEMMA StateAtType ==
  ASSUME NEW h \in Seq(Record), Gapless(h), NEW m \in 0..Len(h)
  PROVE  Len(h) <= MaxRecords /\ StateAt(h, m) \in State
<1>0. Len(h) \in Nat
  OBVIOUS
<1>1. Len(h) <= MaxRecords
  <2>1. CASE Len(h) = 0
    BY <2>1, WalAssumption
  <2>2. CASE Len(h) # 0
    <3>1. Len(h) \in 1..Len(h)
      BY <1>0, <2>2
    <3>2. h[Len(h)].seq = Len(h) /\ h[Len(h)] \in Record
      BY <3>1 DEF Gapless
    <3>. QED  BY <3>2, WalAssumption DEF Record
  <2>. QED  BY <2>1, <2>2
<1>2. m \in 0..MaxRecords
  BY <1>0, <1>1, WalAssumption
<1>3. SubSeq(h, 1, m) \in Seq(Record)
  BY Prefixes
<1>. QED  BY <1>1, <1>2, <1>3 DEF StateAt, State

(* Replay refuses no segment, torn or not. *)
LEMMA ReadableSegment ==
  ASSUME NEW h \in Seq(Record), Gapless(h), NEW data \in Seq(Item), Segment(Whole(data), h)
  PROVE  Readable(data)
<1>. DEFINE w == Whole(data)
<1>1. w \in Seq(Record) /\ Len(w) \in Nat
  BY DEF Segment
<1>2. data = w \/ data = Append(w, Torn)
  BY <1>1, WholeOrTorn
<1>3. \A j, k \in DOMAIN w : j < k => w[j].seq < w[k].seq
  <2>. SUFFICES ASSUME NEW j \in DOMAIN w, NEW k \in DOMAIN w, j < k
               PROVE  w[j].seq < w[k].seq
    OBVIOUS
  <2>. HIDE DEF w
  <2>1. j \in 1..Len(w) /\ k \in 1..Len(w) /\ w # <<>>
    BY <1>1
  <2>2. /\ w[1].seq \in Nat
        /\ \A i \in 1..Len(w) : w[i].seq = w[1].seq + i - 1
    BY <2>1, SegmentNumbers DEF w
  <2>. QED  BY <2>1, <2>2
<1>4. \A k \in DOMAIN data : data[k] = Torn => k = Len(data)
  <2>. HIDE DEF w
  <2>1. \A k \in 1..Len(w) : w[k] # Torn
    BY <1>1, WalAssumption
  <2>2. CASE data = w
    BY <1>1, <2>1, <2>2
  <2>3. CASE data = Append(w, Torn)
    <3>1. \A k \in 1..Len(w) : data[k] = w[k]
      BY <1>1, <2>3
    <3>2. DOMAIN data = 1..(Len(w) + 1) /\ Len(data) = Len(w) + 1
      BY <1>1, <2>3
    <3>. QED  BY <1>1, <2>1, <3>1, <3>2
  <2>. QED  BY <1>2, <2>2, <2>3
<1>. QED  BY <1>3, <1>4 DEF Readable

(* Start-up is never refused and rebuilds the history. *)
LEMMA ReplayTells ==
  ASSUME TypeOK, NEW h \in Seq(Record), Gapless(h), Tells(View(disk, dir), h)
  PROVE  /\ ReplayReadable
         /\ ReplayedState.applied = h /\ ReplayedState.sequence = Len(h)
         /\ ReplayedRecords = SubSeq(h, SnapshotAt(View(disk, dir)) + 1, Len(h))
<1>. DEFINE v == View(disk, dir)
            s == SnapshotAt(v)
            p == PreviousAt(v)
            previous == v.previous.data
            log == v.wal.data
<1>0. Len(h) \in Nat /\ s \in 0..Len(h) /\ p \in 0..Len(h) /\ s <= p
  <2>. HIDE DEF v
  <2>. QED  BY TellsBounds DEF v
<1>1. File("previous").data = previous /\ File("wal").data = log
  BY DEF File, View, Seen
<1>2. previous \in Seq(Item) /\ log \in Seq(Item)
  <2>1. \A n \in Names : dir[n] # None => disk[dir[n]].data \in Seq(Item)
    BY DEF TypeOK, Directory
  <2>2. "previous" \in Names /\ "wal" \in Names
    BY DEF Names
  <2>3. Emptied.data \in Seq(Item)
    BY DEF Emptied
  <2>. QED  BY <2>1, <2>2, <2>3 DEF View, Seen
<1>3. SnapshotReadable /\ SnapshotState = StateAt(h, s)
  <2>1. CASE dir["snapshot"] = None
    <3>1. SubSeq(h, 1, 0) = <<>>
      OBVIOUS
    <3>2. s = 0
      BY <2>1 DEF SnapshotAt, View
    <3>. HIDE DEF s
    <3>. QED  BY <2>1, <3>1, <3>2 DEF SnapshotReadable, SnapshotState, InitialState, StateAt
  <2>2. CASE dir["snapshot"] # None
    <3>0. v.published /\ v.snapshot = File("snapshot")
      BY <2>2 DEF View, Seen, File
    <3>1. PICK m \in 0..Len(h) : v.snapshot = [data |-> <<StateAt(h, m)>>, synced |-> 1]
      BY <3>0 DEF Tells, SnapshotTells
    <3>2. File("snapshot").data = <<StateAt(h, m)>>
      BY <3>0, <3>1
    <3>3. StateAt(h, m) # Torn
      <4>1. StateAt(h, m) \in State
        BY StateAtType
      <4>. QED  BY <4>1, WalAssumption
    <3>4. File("snapshot").data # <<>> /\ File("snapshot").data # <<Torn>>
      <4>1. \A x : x # Torn => <<x>> # <<>> /\ <<x>> # <<Torn>>
        OBVIOUS
      <4>. QED  BY <3>2, <3>3, <4>1
    <3>5. s = m
      <4>. HIDE DEF v
      <4>. QED  BY <3>0, <3>1 DEF SnapshotAt, StateAt
    <3>. HIDE DEF s
    <3>. QED  BY <2>2, <3>2, <3>4, <3>5 DEF SnapshotReadable, SnapshotState
  <2>. QED  BY <2>1, <2>2
<1>4. /\ previous \in Seq(Record) /\ Whole(previous) = previous
      /\ Segment(Whole(previous), h) /\ Attached(Whole(previous), s)
  <2>. HIDE DEF v
  <2>1. Segment(previous, h) /\ Attached(previous, s)
    BY DEF Tells, PreviousTells, v
  <2>. HIDE DEF s, previous
  <2>2. previous \in Seq(Record)
    BY <2>1 DEF Segment
  <2>. QED  BY <2>1, <2>2, WholeRecords
<1>5. Segment(Whole(log), h) /\ Attached(Whole(log), p)
  <2>. HIDE DEF v
  <2>. QED  BY DEF Tells, LogTells, Log, v
<1>6. ReplayReadable
  <2>. HIDE DEF previous, log
  <2>. QED  BY <1>1, <1>2, <1>3, <1>4, <1>5, ReadableSegment DEF ReplayReadable
<1>7. Replayed(SnapshotState, previous) = StateAt(h, p)
  <2>1. p = After(s, Whole(previous))
    <3>. HIDE DEF v
    <3>. QED  BY <1>4 DEF PreviousAt
  <2>. HIDE DEF s, p, previous
  <2>. QED  BY <1>0, <1>3, <1>4, <2>1, ReplayedPart
<1>8. ReplayedState = StateAt(h, Len(h))
  <2>1. After(p, Whole(log)) = Len(h)
    <3>1. /\ Whole(log) = <<>> => p = Len(h)
          /\ Whole(log) # <<>> => Whole(log)[Len(Whole(log))].seq = Len(h)
      <4>. HIDE DEF v
      <4>. QED  BY DEF Tells, LogTells, Log, v
    <3>. HIDE DEF s, p, log
    <3>. QED  BY <1>0, <3>1 DEF After
  <2>2. Replayed(StateAt(h, p), log) = StateAt(h, After(p, Whole(log)))
    <3>. HIDE DEF s, p, log
    <3>. QED  BY <1>0, <1>5, ReplayedPart
  <2>. HIDE DEF s, p, log, previous
  <2>. QED  BY <1>1, <1>7, <2>1, <2>2 DEF ReplayedState
<1>9. ReplayedState.applied = h /\ ReplayedState.sequence = Len(h)
  <2>1. SubSeq(h, 1, Len(h)) = h
    BY SubSeqFull
  <2>. QED  BY <1>8, <2>1 DEF StateAt
<1>10. Len(SnapshotState.applied) = s
  <2>. HIDE DEF s
  <2>1. Len(SubSeq(h, 1, s)) = s
    BY <1>0, Prefixes
  <2>. QED  BY <1>3, <2>1 DEF StateAt
<1>. QED  BY <1>6, <1>9, <1>10 DEF ReplayedRecords

(* A prefix and the record behind it. *)
LEMMA PrefixAppend ==
  ASSUME NEW S, NEW h \in Seq(S), NEW m \in 0..Len(h), m < Len(h)
  PROVE  Append(SubSeq(h, 1, m), h[m + 1]) = SubSeq(h, 1, m + 1)
OBVIOUS

(* PostgreSQL after the projection of a part of the history that leaves no gap
   behind what it holds. *)
LEMMA ProjectedPart ==
  ASSUME NEW h \in Seq(Record), Gapless(h), NEW b \in 0..Len(h), NEW s \in 0..b, NEW n \in s..Len(h)
  PROVE  Projected(SubSeq(h, 1, b), SubSeq(h, s + 1, n)) = SubSeq(h, 1, IF n <= b THEN b ELSE n)
<1>. DEFINE rows == SubSeq(h, 1, b)
            records == SubSeq(h, s + 1, n)
            l == n - s
            upto(i) == IF s + i <= b THEN b ELSE s + i
            part(i) == SubSeq(h, 1, upto(i))
            Body(f) == [i \in 0..l |-> IF i = 0 THEN rows ELSE Inserted(f[i - 1], records[i])]
            g == [i \in 0..l |-> part(i)]
            f == CHOOSE f : f = Body(f)
<1>0. Len(h) \in Nat /\ b \in Nat /\ s \in Nat /\ n \in Nat /\ s <= n /\ n <= Len(h) /\ l \in Nat
  OBVIOUS
<1>1. Len(records) = l /\ \A k \in 1..l : records[k] = h[s + k]
  <2>1. s \in 0..Len(h)
    BY <1>0
  <2>. QED  BY <2>1, Parts
<1>2. \A i \in 0..l : upto(i) \in 0..Len(h)
  BY <1>0
<1>3. part(0) = rows
  <2>1. upto(0) = b
    BY <1>0
  <2>. HIDE DEF upto
  <2>. QED  BY <2>1
<1>4. \A i \in 1..l : part(i) = Inserted(part(i - 1), records[i])
  <2>. TAKE i \in 1..l
  <2>1. /\ i - 1 \in 0..l /\ i \in 0..l /\ s + i \in 1..Len(h)
        /\ upto(i - 1) \in 0..Len(h) /\ upto(i) \in 0..Len(h)
    <3>1. i - 1 \in 0..l /\ i \in 0..l /\ s + i \in 1..Len(h)
      BY <1>0
    <3>. HIDE DEF upto, l
    <3>. QED  BY <1>2, <3>1
  <2>2. /\ Len(part(i - 1)) = upto(i - 1) /\ DOMAIN part(i - 1) = 1..upto(i - 1)
        /\ \A k \in 1..upto(i - 1) : part(i - 1)[k] = h[k]
    <3>1. part(i - 1) \in Seq(Record)
      <4>. HIDE DEF upto
      <4>. QED  BY <2>1, Prefixes
    <3>2. /\ Len(part(i - 1)) = upto(i - 1)
          /\ \A k \in 1..upto(i - 1) : part(i - 1)[k] = h[k]
      <4>. HIDE DEF upto
      <4>. QED  BY <2>1, Prefixes
    <3>. HIDE DEF part, upto
    <3>. QED  BY <3>1, <3>2
  <2>3. records[i] = h[s + i]
    BY <1>1
  <2>4. CASE s + i <= b
    <3>1. upto(i - 1) = b /\ upto(i) = b /\ s + i \in 1..b
      BY <1>0, <2>4
    <3>2. part(i) = part(i - 1)
      <4>. HIDE DEF upto
      <4>. QED  BY <3>1
    <3>. HIDE DEF part, upto, records
    <3>. QED  BY <2>2, <2>3, <3>1, <3>2 DEF Inserted
  <2>5. CASE ~(s + i <= b)
    <3>1. upto(i - 1) = s + i - 1 /\ upto(i) = s + i
      BY <1>0, <2>5
    <3>. DEFINE m == s + i - 1
    <3>2. m \in 0..Len(h) /\ m < Len(h) /\ m + 1 = s + i
      BY <1>0, <2>1
    <3>3. ~ \E k \in DOMAIN part(i - 1) : part(i - 1)[k] = records[i]
      <4>1. \A k \in 1..m : h[k] # h[s + i]
        <5>1. \A k \in 1..m : k \in 1..Len(h) /\ k # s + i
          BY <1>0, <2>1
        <5>. QED  BY <2>1, <5>1 DEF Gapless
      <4>. HIDE DEF part, upto, records, m
      <4>2. upto(i - 1) = m
        BY <3>1 DEF m
      <4>. QED  BY <2>2, <2>3, <4>1, <4>2
    <3>4. part(i) = Append(part(i - 1), h[s + i])
      <4>1. part(i - 1) = SubSeq(h, 1, m) /\ part(i) = SubSeq(h, 1, m + 1)
        <5>. HIDE DEF upto
        <5>. QED  BY <3>1, <3>2
      <4>. HIDE DEF part, m
      <4>. QED  BY <3>2, <4>1, PrefixAppend
    <3>. HIDE DEF part, records
    <3>. QED  BY <2>3, <3>3, <3>4 DEF Inserted
  <2>. QED  BY <1>0, <2>4, <2>5
<1>. HIDE DEF part, records, rows
<1>5. g = Body(g)
  <2>1. \A i \in 1..l : g[i - 1] = part(i - 1)
    BY <1>0
  <2>2. \A i \in 0..l : part(i) = IF i = 0 THEN rows ELSE Inserted(g[i - 1], records[i])
    <3>. HIDE DEF g
    <3>. QED  BY <1>0, <1>3, <1>4, <2>1
  <2>. QED  BY <2>2, Zenon
<1>6. f = Body(f)
  <2>. HIDE DEF Body, g
  <2>. QED  BY <1>5
<1>7. \A i \in 0..l : f[i] = part(i)
  <2>. DEFINE T == {i \in 0..l : f[i] # part(i)}
  <2>. SUFFICES ASSUME T # {}  PROVE FALSE
    OBVIOUS
  <2>1. T \subseteq Nat
    BY <1>0
  <2>2. PICK m \in T : \A k \in T : m <= k
    <3>. HIDE DEF T
    <3>. QED BY <2>1, LeastNatural
  <2>3. m \in 0..l /\ f[m] # part(m)
    OBVIOUS
  <2>4. f[m] = IF m = 0 THEN rows ELSE Inserted(f[m - 1], records[m])
    <3>. HIDE DEF f
    <3>. QED  BY <1>6, <2>3
  <2>5. m # 0 => f[m - 1] = part(m - 1)
    <3>1. m # 0 => m - 1 \in 0..l /\ m - 1 \notin T
      <4>. HIDE DEF T
      <4>. QED  BY <1>0, <2>2, <2>3
    <3>. HIDE DEF f
    <3>. QED  BY <3>1
  <2>6. m # 0 => m \in 1..l
    BY <1>0, <2>3
  <2>. QED
    <3>. HIDE DEF f
    <3>. QED  BY <1>3, <1>4, <2>3, <2>4, <2>5, <2>6
<1>8. Projected(rows, records) = f[l]
  <2>1. Projected(rows, records) =
          (CHOOSE a : a = [i \in 0..Len(records) |->
                             IF i = 0 THEN rows ELSE Inserted(a[i - 1], records[i])])[Len(records)]
    BY DEF Projected
  <2>. QED  BY <1>1, <2>1
<1>9. upto(l) = IF n <= b THEN b ELSE n
  BY <1>0
<1>10. l \in 0..l
  BY <1>0
<1>11. f[l] = part(l)
  <2>. HIDE DEF f, l
  <2>. QED  BY <1>7, <1>10
<1>. HIDE DEF f, upto, l
<1>. QED  BY <1>8, <1>9, <1>11 DEF part, rows, records

-----------------------------------------------------------------------------
(* Views. *)

(* Nothing happens to the files. *)
LEMMA ViewsSame ==
  ASSUME UNCHANGED filesystem
  PROVE  /\ PossibleDirs' = PossibleDirs
         /\ PossibleViews' = PossibleViews
         /\ View(disk, dir)' = View(disk, dir)
<1>1. disk' = disk /\ dir' = dir /\ ddir' = ddir /\ pending' = pending
  BY DEF filesystem
<1>2. PossibleDirs' = PossibleDirs
  BY <1>1, DirsSame
<1>3. View(disk, dir)' = View(disk, dir)
  BY <1>1 DEF View, Seen
<1>4. \A d : View(disk', d) = View(disk, d)
  BY <1>1
<1>. QED  BY <1>2, <1>3, <1>4 DEF PossibleViews

(* A view depends on the files it shows. *)
LEMMA ViewOfFiles ==
  ASSUME NEW f, NEW g, NEW d, NEW e,
         \A n \in Names \ {"tmp"} : e[n] = d[n] /\ (d[n] # None => g[d[n]] = f[d[n]])
  PROVE  View(g, e) = View(f, d)
<1>1. \A n \in {"wal", "previous", "snapshot"} : n \in Names \ {"tmp"}
  BY DEF Names
<1>2. \A n \in {"wal", "previous", "snapshot"} : Seen(g, e, n) = Seen(f, d, n) /\ e[n] = d[n]
  BY <1>1 DEF Seen
<1>. QED  BY <1>2 DEF View

(* A sync of the directory leaves what a reader sees. *)
LEMMA ViewsAfterSync ==
  ASSUME TypeOK, dir \in PossibleDirs, SyncDirectory
  PROVE  /\ dir' = dir
         /\ PossibleDirs' = {dir} /\ dir \in PossibleDirs
         /\ \A n \in Names : dir[n] # None => disk'[dir[n]] = disk[dir[n]]
         /\ View(disk, dir)' = View(disk, dir)
         /\ PossibleViews' = {View(disk, dir)} /\ View(disk, dir) \in PossibleViews
<1>1. dir' = dir /\ ddir' = dir /\ pending' = <<>>
  BY DEF SyncDirectory
<1>2. dir' \in Directory
  BY <1>1 DEF TypeOK
<1>3. PossibleDirs' = {dir}
  BY <1>1, <1>2, DirsAfterSync
<1>4. \A n \in Names : dir[n] # None => disk'[dir[n]] = disk[dir[n]]
  BY DEF SyncDirectory, TypeOK, Directory
<1>5. View(disk', dir) = View(disk, dir)
  <2>1. \A n \in Names \ {"tmp"} : dir[n] = dir[n] /\ (dir[n] # None => disk'[dir[n]] = disk[dir[n]])
    BY <1>4
  <2>. QED  BY <2>1, ViewOfFiles
<1>6. View(disk, dir)' = View(disk', dir)
  BY <1>1
<1>7. PossibleViews' = {View(disk', dir)}
  BY <1>3 DEF PossibleViews
<1>. QED  BY <1>1, <1>3, <1>4, <1>5, <1>6, <1>7 DEF PossibleViews

(* The file of tmp is in no view. *)
LEMMA ViewsAfterTmp ==
  ASSUME TypeOK, DirsInv, dir["tmp"] # None, NEW x, disk' = [disk EXCEPT ![dir["tmp"]] = x],
         UNCHANGED <<dir, ddir, pending>>
  PROVE  /\ PossibleDirs' = PossibleDirs
         /\ PossibleViews' = PossibleViews
         /\ View(disk, dir)' = View(disk, dir)
         /\ dir["tmp"] \in Inodes /\ disk'[dir["tmp"]] = x
<1>1. dir' = dir /\ ddir' = ddir /\ pending' = pending
  OBVIOUS
<1>2. PossibleDirs' = PossibleDirs
  BY <1>1, DirsSame
<1>3. "tmp" \in Names /\ dir["tmp"] \in Inodes /\ disk'[dir["tmp"]] = x
  BY DEF TypeOK, Directory, Names
<1>4. \A d \in PossibleDirs : View(disk', d) = View(disk, d)
  <2>. TAKE d \in PossibleDirs
  <2>1. \A n \in Names \ {"tmp"} : d[n] # dir["tmp"]
    BY DEF DirsInv, TmpApart
  <2>2. \A n \in Names \ {"tmp"} : d[n] # None => d[n] \in Inodes
    BY DirsInUse DEF Directory
  <2>3. \A n \in Names \ {"tmp"} : d[n] = d[n] /\ (d[n] # None => disk'[d[n]] = disk[d[n]])
    BY <2>1, <2>2 DEF TypeOK
  <2>4. \A f, g : (\A n \in Names \ {"tmp"} : d[n] = d[n] /\ (d[n] # None => g[d[n]] = f[d[n]]))
                 => View(g, d) = View(f, d)
    BY ViewOfFiles
  <2>. QED  BY <2>3, <2>4, Zenon
<1>5. View(disk, dir)' = View(disk, dir)
  <2>1. View(disk, dir)' = View(disk', dir)
    BY <1>1
  <2>. QED  BY <1>4, <2>1 DEF DirsInv
<1>6. PossibleViews' = {View(disk', d) : d \in PossibleDirs}
  BY <1>2 DEF PossibleViews
<1>7. PossibleViews' = PossibleViews
  BY <1>4, <1>6 DEF PossibleViews
<1>. QED  BY <1>2, <1>3, <1>5, <1>7

(* The log, under its one name. *)
WithLog(u, file) ==
  [wal |-> file, previous |-> u.previous, snapshot |-> u.snapshot, published |-> u.published]

(* Rewriting the open log changes the log of every view and nothing else. *)
LEMMA ViewsAfterWal ==
  ASSUME TypeOK, DirsInv, WalNamed, walFile # None, NEW x, disk' = [disk EXCEPT ![walFile] = x],
         UNCHANGED <<dir, ddir, pending>>
  PROVE  /\ PossibleDirs' = PossibleDirs
         /\ \A u \in PossibleViews : u.wal = disk[walFile]
         /\ PossibleViews' = {WithLog(u, x) : u \in PossibleViews}
         /\ View(disk, dir) \in PossibleViews
         /\ View(disk, dir)' = WithLog(View(disk, dir), x)
         /\ walFile \in Inodes /\ disk'[walFile] = x
         /\ dir["tmp"] # None => disk'[dir["tmp"]] = disk[dir["tmp"]]
<1>1. dir' = dir /\ ddir' = ddir /\ pending' = pending
  OBVIOUS
<1>2. PossibleDirs' = PossibleDirs
  BY <1>1, DirsSame
<1>3. /\ {"wal", "previous", "snapshot", "tmp"} = Names
      /\ walFile = dir["wal"] /\ walFile \in Inodes /\ disk'[walFile] = x
  BY DEF TypeOK, Directory, Names
<1>4. \A d \in PossibleDirs :
        View(disk', d) = WithLog(View(disk, d), x) /\ View(disk, d).wal = disk[walFile]
  <2>. TAKE d \in PossibleDirs
  <2>1. d["wal"] = walFile /\ Injective(d) /\ d \in Directory
    BY <1>3, DirsInUse DEF DirsInv
  <2>2. \A n \in {"previous", "snapshot"} : d[n] # walFile /\ (d[n] # None => d[n] \in Inodes)
    BY <1>3, <2>1 DEF Injective, Directory
  <2>3. \A n \in {"previous", "snapshot"} : Seen(disk', d, n) = Seen(disk, d, n)
    BY <2>2 DEF Seen, TypeOK
  <2>4. Seen(disk', d, "wal") = x /\ Seen(disk, d, "wal") = disk[walFile]
    BY <1>3, <2>1 DEF Seen
  <2>. QED  BY <2>3, <2>4 DEF View, WithLog
<1>5. PossibleViews' = {View(disk', d) : d \in PossibleDirs}
  BY <1>2 DEF PossibleViews
<1>6. PossibleViews' = {WithLog(u, x) : u \in PossibleViews}
  <2>1. PossibleViews = {View(disk, d) : d \in PossibleDirs}
    BY DEF PossibleViews
  <2>2. \A d \in PossibleDirs : View(disk', d) = WithLog(View(disk, d), x)
    BY <1>4
  <2>. QED  BY <1>5, <2>1, <2>2, Zenon
<1>7. \A u \in PossibleViews : u.wal = disk[walFile]
  <2>1. \A d \in PossibleDirs : View(disk, d).wal = disk[walFile]
    BY <1>4
  <2>. TAKE u \in PossibleViews
  <2>2. PICK d \in PossibleDirs : u = View(disk, d)
    BY DEF PossibleViews
  <2>. QED  BY <2>1, <2>2
<1>8. dir \in PossibleDirs
  BY DEF DirsInv
<1>9. View(disk, dir)' = WithLog(View(disk, dir), x)
  <2>1. View(disk, dir)' = View(disk', dir)
    BY <1>1
  <2>. QED  BY <1>4, <1>8, <2>1
<1>10. dir["tmp"] # None => disk'[dir["tmp"]] = disk[dir["tmp"]]
  <2>1. dir["tmp"] # dir["wal"] \/ dir["tmp"] = None
    BY <1>3, <1>8 DEF DirsInv, Injective
  <2>2. dir["tmp"] # None => dir["tmp"] \in Inodes
    BY <1>3 DEF TypeOK, Directory
  <2>. QED  BY <1>3, <2>1, <2>2 DEF TypeOK
<1>. QED  BY <1>2, <1>3, <1>6, <1>7, <1>8, <1>9, <1>10 DEF PossibleViews

(* Operations, name by name. *)
LEMMA BoundNames ==
  ASSUME NEW e, NEW op, NEW m \in Names
  PROVE  Bound(e, op)[m] = IF m \in DOMAIN op THEN op[m] ELSE e[m]
BY DEF Bound

(* A new, empty file under a name that was free, or tmp. *)
LEMMA ViewsAfterLink ==
  ASSUME TypeOK, DirsInv, HasInode, NEW n \in {"wal", "tmp"}, dir[n] = None,
         n = "wal" => \A d \in PossibleDirs : d["wal"] = None,
         disk' = [disk EXCEPT ![FreshInode] = Emptied], DirectoryOp(Linked(n, FreshInode))
  PROVE  /\ FreshInode \in Inodes /\ FreshInode # None
         /\ dir' \in PossibleDirs' /\ dir' \in Directory /\ pending' \in Seq(Operation)
         /\ \A m \in Names : dir'[m] = IF m = n THEN FreshInode ELSE dir[m]
         /\ \A d \in PossibleDirs' : Injective(d) /\ TmpApart(d)'
         /\ \A d \in PossibleDirs' : \E e \in PossibleDirs : \A m \in Names \ {n} : d[m] = e[m]
         /\ PossibleViews' \subseteq PossibleViews
         /\ View(disk, dir)' = View(disk, dir)
         /\ dir["tmp"] # None => disk'[dir["tmp"]] = disk[dir["tmp"]]
<1>. DEFINE i == FreshInode
            op == Linked(n, i)
<1>0. /\ Names = {"wal", "previous", "snapshot", "tmp"} /\ n \in Names
      /\ i \in Inodes /\ i \notin InUse /\ i # None
  BY FreshInodeIsFree DEF Names
<1>1. op \in Operation
  BY <1>0, OperationsType
<1>2. /\ dir' \in PossibleDirs' /\ dir \in PossibleDirs
      /\ \A d \in PossibleDirs' : d \in PossibleDirs \/ \E e \in PossibleDirs : d = Bound(e, op)
  BY <1>1, DirsAfterOp DEF DirsInv
<1>names. \A e : \A m \in Names : Bound(e, op)[m] = IF m = n THEN i ELSE e[m]
  <2>1. DOMAIN op = {n} /\ op[n] = i
    BY DEF Linked
  <2>. HIDE DEF op
  <2>. QED  BY <2>1, BoundNames
<1>3. /\ dir' = Bound(dir, op) /\ pending' = Append(pending, op)
      /\ \A m \in Names : dir'[m] = IF m = n THEN i ELSE dir[m]
  <2>1. dir' = Bound(dir, op) /\ pending' = Append(pending, op)
    BY DEF DirectoryOp
  <2>2. \A m \in Names : Bound(dir, op)[m] = IF m = n THEN i ELSE dir[m]
    BY <1>names
  <2>. QED  BY <2>1, <2>2
<1>4. \A e \in PossibleDirs, m \in Names :
        e[m] \in InUse /\ e[m] \in Inodes \cup {None} /\ Bound(e, op)[m] = IF m = n THEN i ELSE e[m]
  BY <1>names, DirsInUse DEF Directory
<1>5. dir' \in Directory /\ pending' \in Seq(Operation)
  <2>1. dir' = [m \in Names |-> IF m \in DOMAIN op THEN op[m] ELSE dir[m]]
    BY <1>3 DEF Bound
  <2>2. \A m \in Names : dir'[m] \in Inodes \cup {None}
    BY <1>0, <1>2, <1>3, <1>4
  <2>. QED  BY <1>1, <1>3, <2>1, <2>2 DEF Directory, TypeOK
<1>. HIDE DEF op, i
<1>6. \A e \in PossibleDirs : \A m \in Names : e[m] # i
  BY <1>0, <1>4
<1>7. \A e \in PossibleDirs : Injective(e) /\ TmpApart(e)
  BY DEF DirsInv
<1>8. \A d \in PossibleDirs' : Injective(d)
  <2>. TAKE d \in PossibleDirs'
  <2>1. CASE d \in PossibleDirs
    BY <1>7, <2>1
  <2>2. ASSUME NEW e \in PossibleDirs, d = Bound(e, op)  PROVE Injective(d)
    <3>1. \A m \in Names : d[m] = (IF m = n THEN i ELSE e[m]) /\ e[m] # i
      BY <1>4, <1>6, <2>2
    <3>. QED  BY <1>0, <1>7, <3>1 DEF Injective
  <2>. QED  BY <1>2, <2>1, <2>2
<1>9. \A d \in PossibleDirs', m \in Names \ {"tmp"} : dir'["tmp"] # None => d[m] # dir'["tmp"]
  <2>. TAKE d \in PossibleDirs', m \in Names \ {"tmp"}
  <2>. HAVE dir'["tmp"] # None
  <2>1. PICK e \in PossibleDirs : d = e \/ d = Bound(e, op)
    BY <1>2
  <2>2. d[m] = e[m] \/ (m = n /\ d[m] = i)
    BY <1>4, <2>1
  <2>3. CASE n = "tmp"
    <3>1. dir'["tmp"] = i /\ m # n
      BY <1>0, <1>3, <2>3
    <3>. QED  BY <1>6, <2>2, <3>1
  <2>4. CASE n = "wal"
    <3>1. dir'["tmp"] = dir["tmp"] /\ dir["tmp"] # i
      BY <1>0, <1>2, <1>3, <1>6, <2>4
    <3>2. e[m] # dir["tmp"]
      BY <1>7, <3>1 DEF TmpApart
    <3>. QED  BY <2>2, <3>1, <3>2
  <2>. QED  BY <2>3, <2>4
<1>10. \A d \in PossibleDirs' : TmpApart(d)'
  BY <1>9 DEF TmpApart
<1>11. \A d \in PossibleDirs' : \E e \in PossibleDirs : \A m \in Names \ {n} : d[m] = e[m]
  <2>. TAKE d \in PossibleDirs'
  <2>1. PICK e \in PossibleDirs : d = e \/ d = Bound(e, op)
    BY <1>2
  <2>2. \A m \in Names \ {n} : d[m] = e[m]
    BY <1>4, <2>1
  <2>. QED  BY <2>2
<1>12. \A j \in Inodes : j # i => disk'[j] = disk[j]
  BY DEF TypeOK, i
<1>13. disk'[i] = Emptied
  BY <1>0 DEF TypeOK, i
<1>14. ASSUME NEW d, NEW e \in PossibleDirs, d = e \/ d = Bound(e, op)
       PROVE  View(disk', d) = View(disk, e)
  <2>0. \A m \in Names : e[m] # None => e[m] \in Inodes /\ e[m] # i
    BY <1>4, <1>6
  <2>1. \A m \in Names \ {"tmp"} : d[m] = e[m] => Seen(disk', d, m) = Seen(disk, e, m)
    BY <1>12, <2>0 DEF Seen
  <2>2. \A m \in {"wal", "previous", "snapshot"} : m \in Names \ {"tmp"}
    BY <1>0
  <2>3. \A m \in {"previous", "snapshot"} : m \in Names /\ m # n
    BY <1>0
  <2>4. d["previous"] = e["previous"] /\ d["snapshot"] = e["snapshot"]
    BY <1>4, <1>14, <2>3
  <2>5. Seen(disk', d, "wal") = Seen(disk, e, "wal")
    <3>1. CASE d["wal"] = e["wal"]
      BY <2>1, <2>2, <3>1
    <3>2. CASE d["wal"] # e["wal"]
      <4>1. n = "wal" /\ d["wal"] = i
        BY <1>0, <1>4, <1>14, <3>2
      <4>2. e["wal"] = None
        BY <4>1
      <4>. QED  BY <1>0, <1>13, <4>1, <4>2 DEF Seen
    <3>. QED  BY <3>1, <3>2
  <2>6. Seen(disk', d, "previous") = Seen(disk, e, "previous")
    BY <2>1, <2>2, <2>4
  <2>7. Seen(disk', d, "snapshot") = Seen(disk, e, "snapshot")
    BY <2>1, <2>2, <2>4
  <2>. HIDE DEF Seen
  <2>. QED  BY <2>4, <2>5, <2>6, <2>7 DEF View
<1>15. PossibleViews' \subseteq PossibleViews
  <2>. SUFFICES ASSUME NEW v \in PossibleViews'  PROVE v \in PossibleViews
    OBVIOUS
  <2>1. PICK d \in PossibleDirs' : v = View(disk', d)
    BY DEF PossibleViews
  <2>2. PICK e \in PossibleDirs : d = e \/ d = Bound(e, op)
    BY <1>2
  <2>3. v = View(disk, e)
    BY <1>14, <2>1, <2>2
  <2>. QED  BY <2>3 DEF PossibleViews
<1>16. View(disk', dir') = View(disk, dir)
  BY <1>2, <1>3, <1>14
<1>17. dir["tmp"] # None => disk'[dir["tmp"]] = disk[dir["tmp"]]
  BY <1>0, <1>2, <1>4, <1>6, <1>12
<1>. QED  BY <1>0, <1>2, <1>3, <1>5, <1>8, <1>10, <1>11, <1>15, <1>16, <1>17 DEF i

(* An operation that touches no file. *)
LEMMA ViewsAfterOp ==
  ASSUME TypeOK, DirsInv, NEW op \in Operation, DirectoryOp(op), disk' = disk
  PROVE  /\ dir' = Bound(dir, op) /\ dir' \in Directory /\ pending' \in Seq(Operation)
         /\ dir' \in PossibleDirs' /\ dir \in PossibleDirs
         /\ \A d \in PossibleDirs' : \E e \in PossibleDirs : d = e \/ d = Bound(e, op)
         /\ \A v \in PossibleViews' :
              v \in PossibleViews \/ \E e \in PossibleDirs : v = View(disk, Bound(e, op))
         /\ View(disk, dir)' = View(disk, Bound(dir, op))
<1>1. dir' = Bound(dir, op) /\ pending' = Append(pending, op)
  BY DEF DirectoryOp
<1>2. /\ dir' \in PossibleDirs' /\ dir \in PossibleDirs
      /\ \A d \in PossibleDirs' : d \in PossibleDirs \/ \E e \in PossibleDirs : d = Bound(e, op)
  BY DirsAfterOp DEF DirsInv
<1>3. dir' \in Directory
  <2>1. \A m \in Names : m \in DOMAIN op => op[m] \in Inodes \cup {None}
    BY DEF Operation
  <2>. QED  BY <1>1, <2>1 DEF Bound, Directory, TypeOK
<1>4. pending' \in Seq(Operation)
  BY <1>1 DEF TypeOK
<1>5. PossibleViews' = {View(disk, d) : d \in PossibleDirs'}
  BY DEF PossibleViews
<1>6. View(disk, dir)' = View(disk, Bound(dir, op))
  BY <1>1
<1>7. \A v \in PossibleViews' :
        v \in PossibleViews \/ \E e \in PossibleDirs : v = View(disk, Bound(e, op))
  BY <1>2, <1>5 DEF PossibleViews
<1>. QED  BY <1>1, <1>2, <1>3, <1>4, <1>6, <1>7

(* The log, under its one name, becomes the previous segment. *)
Rotated(u) ==
  [wal |-> Emptied, previous |-> u.wal, snapshot |-> u.snapshot, published |-> u.published]

(* A view found after the rotation is one from before it, or one of those rotated. *)
LEMMA ViewsAfterRotation ==
  ASSUME TypeOK, DirsInv, WalNamed, dir["wal"] # None,
         DirectoryOp(Renamed("wal", "previous")), disk' = disk
  PROVE  /\ dir' \in PossibleDirs' /\ dir' \in Directory /\ pending' \in Seq(Operation)
         /\ dir'["previous"] = dir["wal"] /\ dir'["wal"] = None /\ dir'["tmp"] = dir["tmp"]
         /\ \A d \in PossibleDirs' : Injective(d) /\ TmpApart(d)'
         /\ \A v \in PossibleViews' : v \in PossibleViews \/ \E u \in PossibleViews : v = Rotated(u)
<1>. DEFINE op == Renamed("wal", "previous")
<1>0. Names = {"wal", "previous", "snapshot", "tmp"}
  BY DEF Names
<1>1. op \in Operation
  BY <1>0, OperationsType DEF TypeOK
<1>2. \A e : \A m \in Names : Bound(e, op)[m] =
        IF m = "previous" THEN dir["wal"] ELSE IF m = "wal" THEN None ELSE e[m]
  <2>1. DOMAIN op = {"wal", "previous"} /\ op["previous"] = dir["wal"] /\ op["wal"] = None
    BY DEF Renamed
  <2>. HIDE DEF op
  <2>. QED  BY <2>1, BoundNames
<1>. HIDE DEF op
<1>3. /\ dir' = Bound(dir, op) /\ dir' \in Directory /\ pending' \in Seq(Operation)
      /\ dir' \in PossibleDirs'
      /\ \A d \in PossibleDirs' : \E e \in PossibleDirs : d = e \/ d = Bound(e, op)
      /\ \A v \in PossibleViews' :
           v \in PossibleViews \/ \E e \in PossibleDirs : v = View(disk, Bound(e, op))
  BY <1>1, ViewsAfterOp DEF op
<1>4. dir'["previous"] = dir["wal"] /\ dir'["wal"] = None /\ dir'["tmp"] = dir["tmp"]
  BY <1>0, <1>2, <1>3
<1>5. \A e \in PossibleDirs : Injective(e) /\ TmpApart(e) /\ e["wal"] = dir["wal"]
  BY DEF DirsInv
<1>6. \A d \in PossibleDirs' : Injective(d) /\ TmpApart(d)'
  <2>. TAKE d \in PossibleDirs'
  <2>1. PICK e \in PossibleDirs : d = e \/ d = Bound(e, op)
    BY <1>3
  <2>2. Injective(d)
    <3>1. CASE d = e
      BY <1>5, <3>1
    <3>2. CASE d = Bound(e, op)
      <4>1. /\ d["previous"] = e["wal"] /\ d["wal"] = None
            /\ d["snapshot"] = e["snapshot"] /\ d["tmp"] = e["tmp"]
        BY <1>0, <1>2, <1>5, <3>2
      <4>. QED  BY <1>0, <1>5, <4>1 DEF Injective
    <3>. QED  BY <2>1, <3>1, <3>2
  <2>3. dir'["tmp"] # None => \A n \in Names \ {"tmp"} : d[n] # dir'["tmp"]
    <3>. HAVE dir'["tmp"] # None
    <3>. TAKE n \in Names \ {"tmp"}
    <3>1. e[n] # dir["tmp"] /\ e["wal"] # dir["tmp"] /\ dir["tmp"] # None
      BY <1>0, <1>4, <1>5 DEF TmpApart
    <3>2. d[n] \in {e[n], e["wal"], None}
      BY <1>2, <1>5, <2>1
    <3>. QED  BY <1>4, <3>1, <3>2
  <2>. QED  BY <2>2, <2>3 DEF TmpApart
<1>7. \A e \in PossibleDirs : View(disk, Bound(e, op)) = Rotated(View(disk, e))
  <2>. TAKE e \in PossibleDirs
  <2>. DEFINE d == Bound(e, op)
  <2>1. d["previous"] = e["wal"] /\ d["wal"] = None /\ d["snapshot"] = e["snapshot"] /\ e["wal"] # None
    BY <1>0, <1>2, <1>5
  <2>. HIDE DEF d
  <2>2. /\ Seen(disk, d, "previous") = Seen(disk, e, "wal") /\ Seen(disk, d, "wal") = Emptied
        /\ Seen(disk, d, "snapshot") = Seen(disk, e, "snapshot")
    BY <2>1 DEF Seen
  <2>3. View(disk, d) = Rotated(View(disk, e))
    BY <2>1, <2>2 DEF View, Rotated
  <2>. QED  BY <2>3 DEF d
<1>8. \A v \in PossibleViews' : v \in PossibleViews \/ \E u \in PossibleViews : v = Rotated(u)
  <2>1. \A e \in PossibleDirs : View(disk, e) \in PossibleViews
    BY DEF PossibleViews
  <2>. QED  BY <1>3, <1>7, <2>1
<1>. QED  BY <1>3, <1>4, <1>6, <1>8

(* tmp becomes the snapshot. *)
Published(u, file) ==
  [wal |-> u.wal, previous |-> u.previous, snapshot |-> file, published |-> TRUE]

(* A view found after the rename of tmp is one from before it, or one of those
   with the contents of tmp for its snapshot. *)
LEMMA ViewsAfterPublication ==
  ASSUME TypeOK, DirsInv, dir["tmp"] # None,
         DirectoryOp(Renamed("tmp", "snapshot")), disk' = disk
  PROVE  /\ dir' \in PossibleDirs' /\ dir' \in Directory /\ pending' \in Seq(Operation)
         /\ dir'["previous"] = dir["previous"] /\ dir'["wal"] = dir["wal"]
         /\ \A d \in PossibleDirs' : Injective(d) /\ TmpApart(d)'
         /\ \A d \in PossibleDirs' : \E e \in PossibleDirs : d["wal"] = e["wal"]
         /\ \A v \in PossibleViews' :
              v \in PossibleViews \/ \E u \in PossibleViews : v = Published(u, disk[dir["tmp"]])
         /\ View(disk, dir)' = Published(View(disk, dir), disk[dir["tmp"]])
<1>. DEFINE op == Renamed("tmp", "snapshot")
<1>0. Names = {"wal", "previous", "snapshot", "tmp"}
  BY DEF Names
<1>1. op \in Operation
  BY <1>0, OperationsType DEF TypeOK
<1>2. \A e : \A m \in Names : Bound(e, op)[m] =
        IF m = "snapshot" THEN dir["tmp"] ELSE IF m = "tmp" THEN None ELSE e[m]
  <2>1. DOMAIN op = {"tmp", "snapshot"} /\ op["snapshot"] = dir["tmp"] /\ op["tmp"] = None
    BY DEF Renamed
  <2>. HIDE DEF op
  <2>. QED  BY <2>1, BoundNames
<1>. HIDE DEF op
<1>3. /\ dir' = Bound(dir, op) /\ dir' \in Directory /\ pending' \in Seq(Operation)
      /\ dir' \in PossibleDirs' /\ dir \in PossibleDirs
      /\ \A d \in PossibleDirs' : \E e \in PossibleDirs : d = e \/ d = Bound(e, op)
      /\ \A v \in PossibleViews' :
           v \in PossibleViews \/ \E e \in PossibleDirs : v = View(disk, Bound(e, op))
      /\ View(disk, dir)' = View(disk, Bound(dir, op))
  BY <1>1, ViewsAfterOp DEF op
<1>4. dir'["previous"] = dir["previous"] /\ dir'["wal"] = dir["wal"] /\ dir'["tmp"] = None
  BY <1>0, <1>2, <1>3
<1>5. \A e \in PossibleDirs : Injective(e) /\ TmpApart(e)
  BY DEF DirsInv
<1>6. \A d \in PossibleDirs' : Injective(d) /\ TmpApart(d)'
  <2>. TAKE d \in PossibleDirs'
  <2>1. PICK e \in PossibleDirs : d = e \/ d = Bound(e, op)
    BY <1>3
  <2>2. Injective(d)
    <3>1. CASE d = e
      BY <1>5, <3>1
    <3>2. CASE d = Bound(e, op)
      <4>1. /\ d["snapshot"] = dir["tmp"] /\ d["tmp"] = None
            /\ d["wal"] = e["wal"] /\ d["previous"] = e["previous"]
        BY <1>0, <1>2, <3>2
      <4>2. e["wal"] # dir["tmp"] /\ e["previous"] # dir["tmp"]
        BY <1>0, <1>5 DEF TmpApart
      <4>. QED  BY <1>0, <1>5, <4>1, <4>2 DEF Injective
    <3>. QED  BY <2>1, <3>1, <3>2
  <2>. QED  BY <1>4, <2>2 DEF TmpApart
<1>7. \A d \in PossibleDirs' : \E e \in PossibleDirs : d["wal"] = e["wal"]
  <2>. TAKE d \in PossibleDirs'
  <2>1. PICK e \in PossibleDirs : d = e \/ d = Bound(e, op)
    BY <1>3
  <2>2. d["wal"] = e["wal"]
    BY <1>0, <1>2, <2>1
  <2>. QED  BY <2>2
<1>8. \A e \in PossibleDirs : View(disk, Bound(e, op)) = Published(View(disk, e), disk[dir["tmp"]])
  <2>. TAKE e \in PossibleDirs
  <2>. DEFINE d == Bound(e, op)
  <2>1. d["previous"] = e["previous"] /\ d["wal"] = e["wal"] /\ d["snapshot"] = dir["tmp"]
    BY <1>0, <1>2
  <2>. HIDE DEF d
  <2>2. /\ Seen(disk, d, "previous") = Seen(disk, e, "previous")
        /\ Seen(disk, d, "wal") = Seen(disk, e, "wal")
        /\ Seen(disk, d, "snapshot") = disk[dir["tmp"]]
    BY <2>1 DEF Seen
  <2>3. View(disk, d) = Published(View(disk, e), disk[dir["tmp"]])
    BY <2>1, <2>2 DEF View, Published
  <2>. QED  BY <2>3 DEF d
<1>9. \A v \in PossibleViews' :
        v \in PossibleViews \/ \E u \in PossibleViews : v = Published(u, disk[dir["tmp"]])
  <2>1. \A e \in PossibleDirs : View(disk, e) \in PossibleViews
    BY DEF PossibleViews
  <2>. QED  BY <1>3, <1>8, <2>1
<1>10. View(disk, dir)' = Published(View(disk, dir), disk[dir["tmp"]])
  BY <1>3, <1>8
<1>. QED  BY <1>3, <1>4, <1>6, <1>7, <1>9, <1>10

(* The previous segment is removed. *)
Dropped(u) == [u EXCEPT !.previous = Emptied]

(* A view found after the removal is one from before it, or one of those without
   its previous segment. *)
LEMMA ViewsAfterRemoval ==
  ASSUME TypeOK, DirsInv, DirectoryOp(Unlinked("previous")), disk' = disk
  PROVE  /\ dir' \in PossibleDirs' /\ dir' \in Directory /\ pending' \in Seq(Operation)
         /\ dir'["wal"] = dir["wal"] /\ dir'["tmp"] = dir["tmp"]
         /\ \A d \in PossibleDirs' : Injective(d) /\ TmpApart(d)'
         /\ \A d \in PossibleDirs' : \E e \in PossibleDirs : d["wal"] = e["wal"]
         /\ \A v \in PossibleViews' : v \in PossibleViews \/ \E u \in PossibleViews : v = Dropped(u)
<1>. DEFINE op == Unlinked("previous")
<1>0. Names = {"wal", "previous", "snapshot", "tmp"}
  BY DEF Names
<1>1. op \in Operation
  BY <1>0, OperationsType
<1>2. \A e : \A m \in Names : Bound(e, op)[m] = IF m = "previous" THEN None ELSE e[m]
  <2>1. DOMAIN op = {"previous"} /\ op["previous"] = None
    BY DEF Unlinked
  <2>. HIDE DEF op
  <2>. QED  BY <2>1, BoundNames
<1>. HIDE DEF op
<1>3. /\ dir' = Bound(dir, op) /\ dir' \in Directory /\ pending' \in Seq(Operation)
      /\ dir' \in PossibleDirs'
      /\ \A d \in PossibleDirs' : \E e \in PossibleDirs : d = e \/ d = Bound(e, op)
      /\ \A v \in PossibleViews' :
           v \in PossibleViews \/ \E e \in PossibleDirs : v = View(disk, Bound(e, op))
  BY <1>1, ViewsAfterOp DEF op
<1>4. dir'["wal"] = dir["wal"] /\ dir'["tmp"] = dir["tmp"]
  BY <1>0, <1>2, <1>3
<1>5. \A e \in PossibleDirs : Injective(e) /\ TmpApart(e)
  BY DEF DirsInv
<1>6. ASSUME NEW d \in PossibleDirs'
      PROVE  Injective(d) /\ TmpApart(d)' /\ \E e \in PossibleDirs : d["wal"] = e["wal"]
  <2>1. PICK e \in PossibleDirs : d = e \/ d = Bound(e, op)
    BY <1>3
  <2>2. \A m \in Names : d[m] = e[m] \/ (m = "previous" /\ d[m] = None)
    BY <1>2, <2>1
  <2>3. Injective(d)
    BY <1>0, <1>5, <2>2 DEF Injective
  <2>4. dir'["tmp"] # None => \A n \in Names \ {"tmp"} : d[n] # dir'["tmp"]
    BY <1>4, <1>5, <2>2 DEF TmpApart
  <2>5. d["wal"] = e["wal"]
    BY <1>0, <2>2
  <2>. QED  BY <2>3, <2>4, <2>5 DEF TmpApart
<1>7. \A e \in PossibleDirs : View(disk, Bound(e, op)) = Dropped(View(disk, e))
  <2>. TAKE e \in PossibleDirs
  <2>. DEFINE d == Bound(e, op)
  <2>1. d["previous"] = None /\ d["wal"] = e["wal"] /\ d["snapshot"] = e["snapshot"]
    BY <1>0, <1>2
  <2>. HIDE DEF d
  <2>2. /\ Seen(disk, d, "previous") = Emptied
        /\ Seen(disk, d, "wal") = Seen(disk, e, "wal")
        /\ Seen(disk, d, "snapshot") = Seen(disk, e, "snapshot")
    BY <2>1 DEF Seen
  <2>3. View(disk, d) = Dropped(View(disk, e))
    BY <2>1, <2>2 DEF View, Dropped
  <2>. QED  BY <2>3 DEF d
<1>8. \A v \in PossibleViews' : v \in PossibleViews \/ \E u \in PossibleViews : v = Dropped(u)
  <2>1. \A e \in PossibleDirs : View(disk, e) \in PossibleViews
    BY DEF PossibleViews
  <2>. QED  BY <1>3, <1>7, <2>1
<1>. QED  BY <1>3, <1>4, <1>6, <1>8

-----------------------------------------------------------------------------
(* What views tell, from one step to the next. *)

(* Views that read alike. *)
Alike(u, v) ==
  /\ v.published = u.published /\ v.snapshot = u.snapshot
  /\ v.previous.data = u.previous.data
  /\ Log(v) = Log(u)

(* Views that replay cannot tell apart tell the same history. *)
LEMMA AlikeTell ==
  ASSUME NEW u, NEW v, NEW h, Alike(u, v), Tells(u, h)
  PROVE  /\ Tells(v, h)
         /\ SnapshotAt(v) = SnapshotAt(u)
         /\ PreviousAt(v) = PreviousAt(u)
<1>1. SnapshotAt(v) = SnapshotAt(u)
  BY DEF Alike, SnapshotAt
<1>2. PreviousAt(v) = PreviousAt(u)
  BY <1>1 DEF Alike, PreviousAt
<1>3. SnapshotTells(v, h)
  BY DEF Alike, Tells, SnapshotTells
<1>4. PreviousTells(v, h)
  BY <1>1 DEF Alike, Tells, PreviousTells
<1>5. LogTells(v, h)
  BY <1>2 DEF Alike, Tells, LogTells
<1>. QED  BY <1>1, <1>2, <1>3, <1>4, <1>5 DEF Tells

(* A whole log, rotated behind a snapshot that covers all before it. *)
LEMMA RotatedTells ==
  ASSUME NEW u, NEW h \in Seq(Record), Gapless(h), Tells(u, h),
         Log(u) = u.wal.data, PreviousAt(u) = SnapshotAt(u)
  PROVE  /\ Tells(Rotated(u), h)
         /\ PreviousAt(Rotated(u)) = Len(h)
         /\ Log(Rotated(u)) = Rotated(u).wal.data
<1>. DEFINE v == Rotated(u)
<1>0. /\ v.wal = Emptied /\ v.previous = u.wal
      /\ v.snapshot = u.snapshot /\ v.published = u.published
  BY DEF Rotated
<1>. HIDE DEF v
<1>1. Log(v) = <<>> /\ v.wal.data = <<>>
  BY <1>0 DEF Log, Whole, Emptied
<1>2. SnapshotAt(v) = SnapshotAt(u) /\ SnapshotAt(u) \in 0..Len(h)
  BY <1>0, TellsBounds DEF SnapshotAt
<1>3. v.previous.data = Log(u)
  BY <1>0
<1>4. PreviousAt(v) = Len(h)
  <2>1. IF Log(u) = <<>> THEN PreviousAt(u) = Len(h) ELSE Log(u)[Len(Log(u))].seq = Len(h)
    BY DEF Tells, LogTells
  <2>2. PreviousAt(v) = After(SnapshotAt(u), Log(u))
    BY <1>2, <1>3 DEF PreviousAt
  <2>. QED  BY <1>2, <2>1, <2>2 DEF After
<1>5. SnapshotTells(v, h)
  BY <1>0 DEF Tells, SnapshotTells
<1>6. PreviousTells(v, h)
  BY <1>2, <1>3 DEF Tells, LogTells, PreviousTells
<1>7. LogTells(v, h)
  BY <1>1, <1>4 DEF LogTells, Segment, Attached
<1>. QED  BY <1>1, <1>4, <1>5, <1>6, <1>7 DEF Tells, v

(* A snapshot no older than anything before the log. *)
LEMMA PublishedTells ==
  ASSUME NEW u, NEW h \in Seq(Record), Gapless(h), Tells(u, h), NEW m \in 0..Len(h),
         PreviousAt(u) <= m
  PROVE  LET v == Published(u, [data |-> <<StateAt(h, m)>>, synced |-> 1]) IN
         /\ Tells(v, h)
         /\ SnapshotAt(v) = m /\ PreviousAt(v) = m
         /\ Log(v) = Log(u)
<1>. DEFINE file == [data |-> <<StateAt(h, m)>>, synced |-> 1]
            v == Published(u, file)
<1>0. v.wal = u.wal /\ v.previous = u.previous /\ v.snapshot = file /\ v.published
  BY DEF Published
<1>. HIDE DEF v
<1>1. Log(v) = Log(u)
  BY <1>0 DEF Log
<1>2. SnapshotAt(v) = m
  BY <1>0 DEF SnapshotAt, StateAt
<1>3. /\ SnapshotAt(u) \in 0..Len(h) /\ PreviousAt(u) \in 0..Len(h) /\ SnapshotAt(u) <= PreviousAt(u)
      /\ u.previous.data # <<>> =>
           /\ u.previous.data[Len(u.previous.data)].seq \in 1..Len(h)
           /\ u.previous.data[Len(u.previous.data)].seq <= PreviousAt(u)
  BY TellsBounds
<1>4. PreviousAt(v) = m
  <2>1. PreviousAt(v) = After(m, u.previous.data)
    BY <1>0, <1>2 DEF PreviousAt
  <2>. QED  BY <1>3, <2>1 DEF After
<1>5. SnapshotTells(v, h)
  BY <1>0 DEF SnapshotTells
<1>6. PreviousTells(v, h)
  <2>1. Segment(u.previous.data, h) /\ Attached(u.previous.data, SnapshotAt(u))
    BY DEF Tells, PreviousTells
  <2>2. u.previous.data # <<>> => u.previous.data[1].seq \in Nat
    BY <2>1, SegmentNumbers
  <2>. QED  BY <1>0, <1>2, <1>3, <2>1, <2>2 DEF PreviousTells, Attached
<1>7. LogTells(v, h)
  <2>1. /\ Segment(Log(u), h) /\ Attached(Log(u), PreviousAt(u))
        /\ IF Log(u) = <<>> THEN PreviousAt(u) = Len(h) ELSE Log(u)[Len(Log(u))].seq = Len(h)
    BY DEF Tells, LogTells
  <2>2. Log(u) # <<>> => Log(u)[1].seq \in Nat
    BY <2>1, SegmentNumbers
  <2>3. Attached(Log(u), m)
    BY <1>3, <2>1, <2>2 DEF Attached
  <2>4. Log(u) = <<>> => m = Len(h)
    BY <1>3, <2>1
  <2>. QED  BY <1>1, <1>4, <2>1, <2>3, <2>4 DEF LogTells
<1>. QED  BY <1>1, <1>2, <1>4, <1>5, <1>6, <1>7 DEF Tells, v

(* A previous segment that the snapshot covers can go. *)
LEMMA DroppedTells ==
  ASSUME NEW u, NEW h \in Seq(Record), Gapless(h), Tells(u, h), PreviousAt(u) = SnapshotAt(u)
  PROVE  /\ Tells(Dropped(u), h)
         /\ SnapshotAt(Dropped(u)) = SnapshotAt(u)
         /\ PreviousAt(Dropped(u)) = SnapshotAt(u)
         /\ Log(Dropped(u)) = Log(u)
<1>. DEFINE v == Dropped(u)
<1>0. /\ v.wal = u.wal /\ v.previous = Emptied
      /\ v.snapshot = u.snapshot /\ v.published = u.published
  BY DEF Dropped
<1>. HIDE DEF v
<1>1. Log(v) = Log(u) /\ v.previous.data = <<>>
  BY <1>0 DEF Log, Emptied
<1>2. SnapshotAt(v) = SnapshotAt(u)
  BY <1>0 DEF SnapshotAt
<1>3. PreviousAt(v) = SnapshotAt(u)
  BY <1>1, <1>2 DEF PreviousAt, After
<1>4. SnapshotTells(v, h)
  BY <1>0 DEF Tells, SnapshotTells
<1>5. PreviousTells(v, h)
  BY <1>1 DEF PreviousTells, Segment, Attached
<1>6. LogTells(v, h)
  BY <1>1, <1>3 DEF Tells, LogTells
<1>. QED  BY <1>1, <1>2, <1>3, <1>4, <1>5, <1>6 DEF Tells, v

(* One more record, in the history and behind a segment that ends with it. *)
LEMMA SegmentExtended ==
  ASSUME NEW h \in Seq(Record), Gapless(h), NEW data, Segment(data, h),
         NEW r \in Record, r.seq = Len(h) + 1,
         data # <<>> => data[Len(data)].seq = Len(h)
  PROVE  /\ Segment(Append(data, r), Append(h, r))
         /\ Append(data, r) # <<>> /\ Append(data, r)[Len(Append(data, r))] = r
         /\ Append(data, r)[1].seq = IF data = <<>> THEN Len(h) + 1 ELSE data[1].seq
<1>. DEFINE e == Append(data, r)
            g == Append(h, r)
<1>0. data \in Seq(Record) /\ Len(data) \in Nat /\ Len(h) \in Nat
  BY DEF Segment
<1>1. /\ e \in Seq(Record) /\ e # <<>> /\ Len(e) = Len(data) + 1 /\ e[Len(data) + 1] = r
      /\ \A k \in 1..Len(data) : e[k] = data[k]
  BY <1>0, AppendProperties
<1>2. Len(g) = Len(h) + 1 /\ g[Len(h) + 1] = r /\ \A k \in 1..Len(h) : g[k] = h[k]
  BY AppendProperties
<1>. HIDE DEF e, g
<1>3. CASE data = <<>>
  <2>1. Len(data) = 0 /\ Len(e) = 1 /\ e[1] = r
    BY <1>0, <1>1, <1>3
  <2>2. \A k \in 1..Len(e) : e[k] = g[e[1].seq + k - 1]
    BY <1>0, <1>2, <2>1
  <2>3. e[1].seq + Len(e) - 1 <= Len(g)
    BY <1>0, <1>2, <2>1
  <2>. QED  BY <1>1, <1>3, <2>1, <2>2, <2>3 DEF Segment, e, g
<1>4. CASE data # <<>>
  <2>1. /\ Len(data) >= 1 /\ data[1].seq \in Nat /\ data[1].seq >= 1
        /\ data[1].seq + Len(data) - 1 = Len(h)
        /\ \A k \in 1..Len(data) : data[k] = h[data[1].seq + k - 1]
    BY <1>4, SegmentNumbers
  <2>2. e[1] = data[1]
    BY <1>0, <1>1, <2>1
  <2>3. \A k \in 1..Len(e) : e[k] = g[e[1].seq + k - 1]
    <3>. TAKE k \in 1..Len(e)
    <3>1. CASE k \in 1..Len(data)
      <4>1. data[1].seq + k - 1 \in 1..Len(h)
        BY <1>0, <2>1, <3>1
      <4>. QED  BY <1>1, <1>2, <2>1, <2>2, <3>1, <4>1
    <3>2. CASE k \notin 1..Len(data)
      <4>1. k = Len(data) + 1 /\ data[1].seq + k - 1 = Len(h) + 1
        BY <1>0, <1>1, <2>1, <3>2
      <4>. QED  BY <1>1, <1>2, <2>2, <4>1
    <3>. QED  BY <3>1, <3>2
  <2>4. e[1].seq + Len(e) - 1 <= Len(g)
    BY <1>0, <1>1, <1>2, <2>1, <2>2
  <2>. QED  BY <1>1, <1>4, <2>2, <2>3, <2>4 DEF Segment, e, g
<1>. QED  BY <1>3, <1>4

(* A segment of a history is one of a history that agrees with it so far. *)
LEMMA SegmentKept ==
  ASSUME NEW h \in Seq(Record), Gapless(h), NEW g \in Seq(Record), NEW data, Segment(data, h),
         data # <<>> => data[Len(data)].seq <= Len(g),
         \A k \in 1..Len(h) : k <= Len(g) => g[k] = h[k]
  PROVE  Segment(data, g)
<1>1. CASE data = <<>>
  BY <1>1 DEF Segment
<1>2. CASE data # <<>>
  <2>1. /\ data \in Seq(Record) /\ Len(data) \in Nat /\ data[1].seq \in Nat /\ data[1].seq >= 1
        /\ data[Len(data)].seq = data[1].seq + Len(data) - 1
        /\ data[1].seq + Len(data) - 1 \in 1..Len(h)
        /\ \A k \in 1..Len(data) : data[k] = h[data[1].seq + k - 1]
    BY <1>2, SegmentNumbers
  <2>2. Len(h) \in Nat /\ Len(g) \in Nat
    OBVIOUS
  <2>3. \A k \in 1..Len(data) : data[1].seq + k - 1 \in 1..Len(h) /\ data[1].seq + k - 1 <= Len(g)
    <3>1. PICK a, n, p, q : a = data[1].seq /\ n = Len(data) /\ p = Len(h) /\ q = Len(g)
      OBVIOUS
    <3>2. /\ a \in Nat /\ a >= 1 /\ n \in Nat /\ p \in Nat /\ q \in Nat
          /\ a + n - 1 <= p /\ a + n - 1 <= q
      BY <1>2, <2>1, <2>2, <3>1
    <3>3. \A k \in 1..n : a + k - 1 \in 1..p /\ a + k - 1 <= q
      BY <3>2
    <3>. QED  BY <3>1, <3>3
  <2>4. \A k \in 1..Len(data) : data[k] = g[data[1].seq + k - 1]
    BY <2>1, <2>3
  <2>. QED  BY <1>2, <2>1, <2>4 DEF Segment
<1>. QED  BY <1>1, <1>2

(* So is a prefix. *)
LEMMA StateKept ==
  ASSUME NEW h \in Seq(Record), NEW g \in Seq(Record), NEW m \in 0..Len(h), m <= Len(g),
         \A k \in 1..Len(h) : k <= Len(g) => g[k] = h[k]
  PROVE  StateAt(g, m) = StateAt(h, m) /\ SubSeq(g, 1, m) = SubSeq(h, 1, m)
<1>1. m \in Nat /\ m <= Len(h) /\ m \in 0..Len(g)
  OBVIOUS
<1>2. SubSeq(h, 1, m) \in Seq(Record) /\ Len(SubSeq(h, 1, m)) = m
      /\ \A k \in 1..m : SubSeq(h, 1, m)[k] = h[k]
  BY Prefixes
<1>3. SubSeq(g, 1, m) \in Seq(Record) /\ Len(SubSeq(g, 1, m)) = m
      /\ \A k \in 1..m : SubSeq(g, 1, m)[k] = g[k]
  BY <1>1, Prefixes
<1>4. \A k \in 1..m : k \in 1..Len(h) /\ k <= Len(g)
  BY <1>1
<1>5. SubSeq(g, 1, m) = SubSeq(h, 1, m)
  <2>. DEFINE a == SubSeq(g, 1, m)
              b == SubSeq(h, 1, m)
  <2>1. \A k \in 1..m : a[k] = b[k]
    BY <1>2, <1>3, <1>4
  <2>. HIDE DEF a, b
  <2>2. a = b
    BY <1>2, <1>3, <2>1, SameElements DEF a, b
  <2>. QED  BY <2>2 DEF a, b
<1>. QED  BY <1>5 DEF StateAt

(* A view whose snapshot and previous segment both histories have. *)
LEMMA OlderPartKept ==
  ASSUME NEW h \in Seq(Record), Gapless(h), NEW g \in Seq(Record), NEW u, Tells(u, h),
         PreviousAt(u) <= Len(g),
         \A k \in 1..Len(h) : k <= Len(g) => g[k] = h[k]
  PROVE  SnapshotTells(u, g) /\ PreviousTells(u, g)
<1>1. /\ SnapshotAt(u) \in 0..Len(h) /\ PreviousAt(u) \in 0..Len(h)
      /\ SnapshotAt(u) <= PreviousAt(u)
      /\ u.previous.data # <<>> =>
           /\ u.previous.data[Len(u.previous.data)].seq \in 1..Len(h)
           /\ u.previous.data[Len(u.previous.data)].seq <= PreviousAt(u)
  BY TellsBounds
<1>2. Len(g) \in Nat /\ Len(h) \in Nat
  OBVIOUS
<1>3. SnapshotTells(u, g)
  <2>. SUFFICES ASSUME u.published
               PROVE  \E m \in 0..Len(g) : u.snapshot = [data |-> <<StateAt(g, m)>>, synced |-> 1]
    BY DEF SnapshotTells
  <2>1. PICK m \in 0..Len(h) : u.snapshot = [data |-> <<StateAt(h, m)>>, synced |-> 1]
    BY DEF Tells, SnapshotTells
  <2>2. SnapshotAt(u) = m
    BY <2>1 DEF SnapshotAt, StateAt
  <2>3. m <= Len(g) /\ m \in 0..Len(g)
    BY <1>1, <1>2, <2>2
  <2>4. StateAt(g, m) = StateAt(h, m)
    BY <2>3, StateKept
  <2>. QED  BY <2>1, <2>3, <2>4
<1>4. PreviousTells(u, g)
  <2>1. Segment(u.previous.data, h) /\ Attached(u.previous.data, SnapshotAt(u))
    BY DEF Tells, PreviousTells
  <2>2. u.previous.data # <<>> => u.previous.data[Len(u.previous.data)].seq <= Len(g)
    BY <1>1, <1>2
  <2>3. Segment(u.previous.data, g)
    BY <2>1, <2>2, SegmentKept
  <2>. QED  BY <2>1, <2>3 DEF PreviousTells
<1>. QED  BY <1>3, <1>4

(* A record is appended to a whole log. *)
LEMMA ExtendedTells ==
  ASSUME NEW h \in Seq(Record), Gapless(h), NEW u, Tells(u, h), Log(u) = u.wal.data,
         NEW r \in Record, r.seq = Len(h) + 1
  PROVE  LET v == WithLog(u, Appended(u.wal, r)) IN
         /\ Gapless(Append(h, r))
         /\ Tells(v, Append(h, r))
         /\ SnapshotAt(v) = SnapshotAt(u) /\ PreviousAt(v) = PreviousAt(u)
         /\ Log(v) = v.wal.data
<1>. DEFINE g == Append(h, r)
            file == Appended(u.wal, r)
            v == WithLog(u, file)
            e == Append(Log(u), r)
<1>0. /\ v.wal = file /\ v.previous = u.previous
      /\ v.snapshot = u.snapshot /\ v.published = u.published
  BY DEF WithLog
<1>. HIDE DEF v
<1>1. /\ Segment(Log(u), h) /\ Attached(Log(u), PreviousAt(u))
      /\ IF Log(u) = <<>> THEN PreviousAt(u) = Len(h) ELSE Log(u)[Len(Log(u))].seq = Len(h)
  BY DEF Tells, LogTells
<1>2. Log(u) \in Seq(Record) /\ Len(h) \in Nat
  BY <1>1 DEF Segment
<1>3. /\ Segment(e, g) /\ e # <<>> /\ e[Len(e)] = r
      /\ e[1].seq = IF Log(u) = <<>> THEN Len(h) + 1 ELSE Log(u)[1].seq
  BY <1>1, SegmentExtended
<1>4. /\ g \in Seq(Record) /\ Len(g) = Len(h) + 1
      /\ g[Len(h) + 1] = r /\ \A k \in 1..Len(h) : g[k] = h[k]
  BY AppendProperties
<1>. HIDE DEF g, e
<1>5. Gapless(g)
  <2>1. \A k \in 1..Len(g) : k \in 1..Len(h) \/ k = Len(h) + 1
    BY <1>2, <1>4
  <2>. QED  BY <1>4, <2>1 DEF Gapless
<1>6. file.data = e
  <2>1. file.data = Append(u.wal.data, r)
    BY DEF Appended
  <2>. QED  BY <2>1 DEF e
<1>7. Log(v) = e /\ v.wal.data = e
  <2>1. e \in Seq(Record)
    BY <1>3 DEF Segment
  <2>2. Whole(e) = e
    BY <2>1, WholeRecords
  <2>. HIDE DEF file
  <2>. QED  BY <1>0, <1>6, <2>2 DEF Log
<1>8. SnapshotAt(v) = SnapshotAt(u) /\ PreviousAt(v) = PreviousAt(u)
  BY <1>0 DEF SnapshotAt, PreviousAt
<1>9. PreviousAt(u) \in 0..Len(h)
  BY TellsBounds
<1>10. SnapshotTells(v, g) /\ PreviousTells(v, g)
  <2>1. SnapshotTells(u, g) /\ PreviousTells(u, g)
    BY <1>2, <1>4, <1>9, OlderPartKept
  <2>. QED  BY <1>0, <1>8, <2>1 DEF SnapshotTells, PreviousTells
<1>11. LogTells(v, g)
  <2>1. Attached(e, PreviousAt(u))
    BY <1>1, <1>2, <1>3, <1>9 DEF Attached
  <2>2. e[Len(e)].seq = Len(g)
    BY <1>3, <1>4
  <2>. QED  BY <1>3, <1>7, <1>8, <2>1, <2>2 DEF LogTells
<1>. QED  BY <1>5, <1>7, <1>8, <1>10, <1>11 DEF Tells, v, g

(* A piece of a record is. *)
LEMMA TornTells ==
  ASSUME NEW h \in Seq(Record), NEW u, Tells(u, h), Log(u) = u.wal.data
  PROVE  Alike(u, WithLog(u, Appended(u.wal, Torn)))
<1>. DEFINE file == Appended(u.wal, Torn)
            v == WithLog(u, file)
<1>0. /\ v.wal = file /\ v.previous = u.previous
      /\ v.snapshot = u.snapshot /\ v.published = u.published
  BY DEF WithLog
<1>1. Log(u) \in Seq(Record)
  BY DEF Tells, LogTells, Segment
<1>2. file.data = Append(Log(u), Torn)
  BY DEF Appended
<1>3. Whole(file.data) = Log(u)
  <2>. HIDE DEF file
  <2>. QED  BY <1>1, <1>2, WholeRecords
<1>. HIDE DEF v
<1>. QED  BY <1>0, <1>3 DEF Alike, Log, v

(* The log is flushed. *)
LEMMA FlushedAlike ==
  ASSUME NEW u
  PROVE  Alike(u, WithLog(u, Flushed(u.wal))) /\ Flushed(u.wal).data = u.wal.data
<1>. DEFINE file == Flushed(u.wal)
            v == WithLog(u, file)
<1>0. /\ v.wal = file /\ v.previous = u.previous
      /\ v.snapshot = u.snapshot /\ v.published = u.published
  BY DEF WithLog
<1>1. file.data = u.wal.data
  BY DEF Flushed
<1>. HIDE DEF v
<1>2. Log(v) = Log(u)
  BY <1>0, <1>1 DEF Log
<1>. QED  BY <1>0, <1>1, <1>2 DEF Alike, v

(* A sequence of records without its last. *)
Shortened(e, l) == e \in Seq(Record) /\ Len(e) = Len(l) - 1 /\ \A k \in 1..Len(e) : e[k] = l[k]

(* A segment that ends with the last record of the history, without it. *)
LEMMA SegmentShortened ==
  ASSUME NEW h \in Seq(Record), Gapless(h), NEW l, Segment(l, h), l # <<>>, l[Len(l)].seq = Len(h),
         NEW g, Shortened(g, h), NEW e, Shortened(e, l)
  PROVE  /\ Segment(e, g)
         /\ e = <<>> => l[1].seq = Len(g) + 1
         /\ e # <<>> => e[1] = l[1] /\ e[Len(e)].seq = Len(g)
<1>0. /\ Len(l) \in Nat /\ Len(l) >= 1 /\ l[1].seq \in Nat /\ l[1].seq >= 1
      /\ \A k \in 1..Len(l) : l[k] = h[l[1].seq + k - 1] /\ l[k].seq = l[1].seq + k - 1
      /\ l[Len(l)].seq = l[1].seq + Len(l) - 1
  BY SegmentNumbers
<1>. USE DEF Shortened
<1>1. PICK a, n, p : a = l[1].seq /\ n = Len(l) /\ p = Len(g)
  OBVIOUS
<1>2. /\ n \in Nat /\ n >= 1 /\ a \in Nat /\ a >= 1 /\ a + n - 1 = p + 1 /\ p \in Nat
      /\ \A k \in 1..n : l[k] = h[a + k - 1] /\ l[k].seq = a + k - 1
  <2>1. Len(h) = p + 1 /\ p \in Nat
    BY <1>1
  <2>. QED  BY <1>0, <1>1, <2>1
<1>3. Len(e) = n - 1
  BY <1>1
<1>4. CASE e = <<>>
  <2>1. n = 1
    BY <1>2, <1>3, <1>4
  <2>2. a = p + 1
    BY <1>2, <2>1
  <2>. QED  BY <1>1, <1>4, <2>2 DEF Segment
<1>5. CASE e # <<>>
  <2>1. Len(e) # 0 /\ Len(e) \in Nat
    BY <1>5
  <2>2. n >= 2
    BY <1>2, <1>3, <2>1
  <2>3. /\ 1 \in 1..(n - 1) /\ n - 1 \in 1..(n - 1) /\ a + (n - 1) - 1 = p
        /\ \A k \in 1..(n - 1) : k \in 1..n /\ a + k - 1 \in 1..p
    BY <1>2, <2>2
  <2>4. e[1] = l[1] /\ e[n - 1] = l[n - 1] /\ l[n - 1].seq = p
    BY <1>2, <1>3, <2>3
  <2>5. \A k \in 1..(n - 1) : e[k] = g[a + k - 1]
    <3>. TAKE k \in 1..(n - 1)
    <3>1. e[k] = l[k] /\ l[k] = h[a + k - 1]
      BY <1>2, <1>3, <2>3
    <3>2. a + k - 1 \in 1..Len(g)
      BY <1>1, <2>3
    <3>. QED  BY <3>1, <3>2
  <2>6. e[1].seq = a /\ a + Len(e) - 1 <= Len(g)
    BY <1>1, <1>2, <1>3, <2>3, <2>4
  <2>7. Segment(e, g)
    BY <1>3, <2>5, <2>6 DEF Segment
  <2>. QED  BY <1>1, <1>3, <1>5, <2>4, <2>7
<1>. QED  BY <1>4, <1>5

(* The last record of the log, which no snapshot and no previous segment has,
   is lost. *)
LEMMA TruncatedTells ==
  ASSUME NEW h \in Seq(Record), Gapless(h), NEW u, Tells(u, h),
         Log(u) # <<>>, PreviousAt(u) < Len(h),
         NEW g, Shortened(g, h), NEW file, Shortened(Whole(file.data), Log(u))
  PROVE  Tells(WithLog(u, file), g)
<1>. DEFINE v == WithLog(u, file)
<1>0. /\ v.wal = file /\ v.previous = u.previous
      /\ v.snapshot = u.snapshot /\ v.published = u.published
  BY DEF WithLog
<1>. HIDE DEF v
<1>1. PICK l, e : l = Log(u) /\ e = Whole(file.data)
  OBVIOUS
<1>2. Log(v) = e
  BY <1>0, <1>1 DEF Log
<1>3. Segment(l, h) /\ Attached(l, PreviousAt(u)) /\ l[Len(l)].seq = Len(h) /\ l # <<>>
  BY <1>1 DEF Tells, LogTells
<1>4. PICK p : p = PreviousAt(u)
  OBVIOUS
<1>5. p \in 0..Len(h) /\ Len(h) \in Nat /\ Len(g) \in Nat /\ p <= Len(g) /\ g \in Seq(Record)
  <2>1. p \in 0..Len(h)
    BY <1>4, TellsBounds
  <2>. QED  BY <1>4, <2>1 DEF Shortened
<1>6. /\ Segment(e, g)
      /\ e = <<>> => l[1].seq = Len(g) + 1
      /\ e # <<>> => e[1] = l[1] /\ e[Len(e)].seq = Len(g)
  BY <1>1, <1>3, SegmentShortened
<1>7. SnapshotAt(v) = SnapshotAt(u) /\ PreviousAt(v) = p
  BY <1>0, <1>4 DEF SnapshotAt, PreviousAt
<1>8. SnapshotTells(v, g) /\ PreviousTells(v, g)
  <2>1. \A k \in 1..Len(h) : k <= Len(g) => g[k] = h[k]
    <3>1. \A k \in 1..Len(h) : k <= Len(g) => k \in 1..Len(g)
      BY <1>5
    <3>. QED  BY <3>1 DEF Shortened
  <2>2. SnapshotTells(u, g) /\ PreviousTells(u, g)
    BY <1>4, <1>5, <2>1, OlderPartKept
  <2>. QED  BY <1>0, <1>7, <2>2 DEF SnapshotTells, PreviousTells
<1>9. LogTells(v, g)
  <2>1. e = <<>> => p = Len(g)
    BY <1>3, <1>4, <1>5, <1>6 DEF Attached
  <2>2. Attached(e, p)
    BY <1>3, <1>4, <1>6 DEF Attached
  <2>. QED  BY <1>2, <1>6, <1>7, <2>1, <2>2 DEF LogTells
<1>. QED  BY <1>8, <1>9 DEF Tells, v

-----------------------------------------------------------------------------
(* The steps. *)

(* Some numbers. *)
LEMMA Numbers ==
  ASSUME NEW h \in Seq(Record), IInv(h)
  PROVE  /\ Gapless(h) /\ Len(h) \in Nat /\ Len(db) \in Nat /\ Len(mem) \in Nat
         /\ View(disk, dir) \in PossibleViews /\ dir \in PossibleDirs
         /\ \A v \in PossibleViews :
              /\ Tells(v, h)
              /\ SnapshotAt(v) \in 0..Len(h) /\ PreviousAt(v) \in 0..Len(h)
              /\ SnapshotAt(v) <= PreviousAt(v)
<1>1. Gapless(h) /\ dir \in PossibleDirs
  BY DEF IInv, HistoryInv, DirsInv
<1>2. View(disk, dir) \in PossibleViews
  BY <1>1 DEF PossibleViews
<1>3. \A v \in PossibleViews : Tells(v, h)
  BY DEF IInv, ViewsInv, ViewInv
<1>4. \A v \in PossibleViews :
        /\ SnapshotAt(v) \in 0..Len(h) /\ PreviousAt(v) \in 0..Len(h)
        /\ SnapshotAt(v) <= PreviousAt(v)
  BY <1>1, <1>3, TellsBounds
<1>5. Len(h) \in Nat /\ Len(db) \in Nat /\ Len(mem) \in Nat
  BY DEF IInv, TypeOK
<1>. QED  BY <1>1, <1>2, <1>3, <1>4, <1>5

(* What ViewInv depends on, apart from the view. *)
LEMMA ViewInvKept ==
  ASSUME NEW v, NEW h, ViewInv(v, h), UNCHANGED <<dir, status, failed, kpc, frozen, db>>,
         cpc' = "synced" => cpc = "synced"
  PROVE  ViewInv(v, h)'
BY DEF ViewInv, Copied, PowerFails, Safe, Unsettled

(* Files are files when one of them is emptied, or becomes another. *)
LEMMA EmptiedFile ==
  ASSUME TypeOK, NEW i \in Inodes, disk' = [disk EXCEPT ![i] = Emptied]
  PROVE  /\ disk' \in [Inodes -> [data : Seq(Item), synced : Nat]]
         /\ \A j \in Inodes : disk'[j].synced <= Len(disk'[j].data)
<1>1. Emptied \in [data : Seq(Item), synced : Nat] /\ Emptied.synced <= Len(Emptied.data)
  BY DEF Emptied
<1>. QED  BY <1>1 DEF TypeOK

(* Replacing the contents of one file keeps the type of the disk. *)
LEMMA ChangedFile ==
  ASSUME TypeOK, NEW i \in Inodes, NEW x \in [data : Seq(Item), synced : Nat],
         x.synced <= Len(x.data), disk' = [disk EXCEPT ![i] = x]
  PROVE  /\ disk' \in [Inodes -> [data : Seq(Item), synced : Nat]]
         /\ \A j \in Inodes : disk'[j].synced <= Len(disk'[j].data)
BY DEF TypeOK

(* What becomes of a file. *)
LEMMA FileOps ==
  ASSUME NEW file \in [data : Seq(Item), synced : Nat], file.synced <= Len(file.data)
  PROVE  /\ Flushed(file) \in [data : Seq(Item), synced : Nat]
         /\ Flushed(file).data = file.data /\ Flushed(file).synced = Len(file.data)
         /\ \A x \in Item :
              /\ Appended(file, x) \in [data : Seq(Item), synced : Nat]
              /\ Appended(file, x).data = Append(file.data, x)
              /\ Appended(file, x).synced = file.synced
              /\ Len(Appended(file, x).data) = Len(file.data) + 1
<1>1. PICK data, synced : data = file.data /\ synced = file.synced
  OBVIOUS
<1>2. /\ file = [data |-> data, synced |-> synced]
      /\ data \in Seq(Item) /\ synced \in Nat /\ Len(data) \in Nat
  BY <1>1
<1>3. Flushed(file) = [data |-> data, synced |-> Len(data)]
  BY <1>2 DEF Flushed
<1>4. /\ Flushed(file) \in [data : Seq(Item), synced : Nat]
      /\ Flushed(file).data = data /\ Flushed(file).synced = Len(data)
  BY <1>2, <1>3
<1>5. ASSUME NEW x \in Item
      PROVE  /\ Appended(file, x) \in [data : Seq(Item), synced : Nat]
             /\ Appended(file, x).data = Append(data, x) /\ Appended(file, x).synced = synced
             /\ Len(Appended(file, x).data) = Len(data) + 1
  <2>1. PICK y : y = Append(data, x)
    OBVIOUS
  <2>2. y \in Seq(Item) /\ Len(y) = Len(data) + 1
    BY <1>2, <2>1
  <2>3. Appended(file, x) = [data |-> y, synced |-> synced]
    <3>1. Appended(file, x) = [file EXCEPT !.data = y]
      BY <1>1, <2>1 DEF Appended
    <3>. QED  BY <1>1, <3>1
  <2>4. synced \in Nat
    BY <1>2
  <2>5. Appended(file, x) \in [data : Seq(Item), synced : Nat]
    BY <2>2, <2>3, <2>4
  <2>6. Appended(file, x).data = y /\ Appended(file, x).synced = synced
    BY <2>3
  <2>. QED  BY <2>1, <2>2, <2>5, <2>6
<1>. QED  BY <1>1, <1>4, <1>5

(* A step that leaves the files alone. *)
LEMMA QuietStep ==
  ASSUME NEW h \in Seq(Record), IInv(h), UNCHANGED filesystem,
         TypeOK', TmpInv', HistoryInv(h)', ProcessInv(h)', CheckpointInv(h)',
         WalNamed' => WalNamed, status' = "down" => status = "down" \/ ~PowerFails,
         \A v \in PossibleViews : ViewInv(v, h)',
         kpc' = "renamedSnapshot" => kpc = "renamedSnapshot" /\ frozen' = frozen
  PROVE  IInv(h)'
<1>1. /\ PossibleDirs' = PossibleDirs /\ PossibleViews' = PossibleViews
      /\ View(disk, dir)' = View(disk, dir)
  BY ViewsSame
<1>2. dir' = dir /\ DirsInv /\ ViewsInv(h)
  BY DEF filesystem, IInv
<1>3. ~PowerFails => PossibleDirs = {dir}
  BY DEF PossibleDirs
<1>4. DirsInv'
  BY <1>1, <1>2, <1>3 DEF DirsInv, TmpApart
<1>5. ViewsInv(h)'
  BY <1>1, <1>2 DEF ViewsInv
<1>. QED  BY <1>4, <1>5 DEF IInv

(* commitMany begins. *)
LEMMA CommitStartStep ==
  ASSUME NEW h \in Seq(Record), IInv(h), CommitStart
  PROVE  IInv(h)'
<1>0. /\ UNCHANGED filesystem
      /\ UNCHANGED <<disk, dir, ddir, pending, status, mem, failed, walFile, kpc, frozen, db,
                     acked, faults, errors>>
      /\ status = "up" /\ cpc = "idle" /\ ~Freezing /\ ~failed /\ issued < MaxRecords
      /\ sequence' = sequence + 1 /\ issued' = issued + 1
      /\ cpc' = IF walFile = None THEN "open" ELSE "write"
  BY DEF CommitStart, Unlocked, filesystem
<1>1. /\ TypeOK /\ TmpInv /\ ViewsInv(h) /\ HistoryInv(h) /\ ProcessInv(h) /\ CheckpointInv(h)
  BY DEF IInv
<1>2. issued \in Nat /\ sequence \in Nat /\ sequence <= issued /\ MaxRecords \in Nat
  BY <1>1, WalAssumption DEF TypeOK, ProcessInv
<1>3. TypeOK'
  <2>1. sequence + 1 \in 0..MaxRecords /\ issued + 1 \in 0..MaxRecords
    BY <1>0, <1>2
  <2>. QED  BY <1>0, <1>1, <2>1 DEF TypeOK
<1>4. TmpInv'
  BY <1>0, <1>1 DEF TmpInv
<1>5. \A v \in PossibleViews : ViewInv(v, h)'
  BY <1>0, <1>1, ViewInvKept DEF ViewsInv
<1>6. HistoryInv(h)'
  <2>1. Len(h) <= issued'
    BY <1>0, <1>1, <1>2 DEF HistoryInv
  <2>. QED  BY <1>0, <1>1, <2>1 DEF HistoryInv
<1>7. ProcessInv(h)'
  <2>1. sequence' <= issued' /\ issued' > 0
    BY <1>0, <1>2
  <2>2. cpc' \in {"open", "write"} /\ (cpc' = "write" => walFile # None)
    BY <1>0
  <2>. QED  BY <1>0, <1>1, <1>2, <2>1, <2>2 DEF ProcessInv, Freezing, Written
<1>8. CheckpointInv(h)'
  BY <1>0, <1>1 DEF CheckpointInv, Copied, Freezing
<1>9. WalNamed
  BY <1>0 DEF WalNamed, Freezing
<1>. QED  BY <1>0, <1>3, <1>4, <1>5, <1>6, <1>7, <1>8, <1>9, QuietStep

(* A commit under way: the process is up, has not failed, and the checkpoint
   does not hold the lock. *)
LEMMA Committing ==
  ASSUME NEW h \in Seq(Record), IInv(h), cpc # "idle"
  PROVE  /\ status = "up" /\ ~failed /\ ~Freezing
         /\ kpc \notin {"closed", "renamed", "segmented", "created"}
         /\ issued \in 1..MaxRecords /\ sequence = Len(mem) + 1 /\ sequence <= issued
         /\ CurrentRecord \in Record /\ CurrentRecord.seq = Len(mem) + 1
         /\ Len(db) = Len(mem) /\ Len(mem) \in Nat
         /\ Len(h) = IF Written THEN Len(mem) + 1 ELSE Len(mem)
         /\ Written => h[Len(h)] = CurrentRecord
         /\ \A v \in PossibleViews : Log(v) = v.wal.data
         /\ cpc # "opened" => WalNamed
         /\ cpc \in {"opened", "write", "written", "synced"} => walFile # None
<1>1. TypeOK /\ ViewsInv(h) /\ ProcessInv(h)
  BY DEF IInv
<1>2. status = "up" /\ ~failed /\ ~Freezing /\ issued > 0 /\ sequence <= issued
  BY <1>1 DEF ProcessInv, TypeOK
<1>3. kpc \notin {"closed", "renamed", "segmented", "created"}
  BY <1>2 DEF Freezing
<1>4. /\ Len(db) = Len(mem) /\ Len(h) = IF Written THEN Len(mem) + 1 ELSE Len(mem)
      /\ Written => h[Len(h)] = CurrentRecord
      /\ sequence = Len(mem) + 1
  BY <1>1, <1>2 DEF ProcessInv
<1>5. Len(mem) \in Nat /\ issued \in 0..MaxRecords /\ MaxRecords \in Nat
  BY <1>1, WalAssumption DEF TypeOK
<1>6. CurrentRecord \in Record /\ CurrentRecord.seq = Len(mem) + 1
  <2>1. sequence \in 1..MaxRecords /\ issued \in 1..MaxRecords
    BY <1>2, <1>4, <1>5
  <2>. QED  BY <1>4, <2>1 DEF CurrentRecord, Record
<1>7. \A v \in PossibleViews : Log(v) = v.wal.data
  BY <1>1, <1>2 DEF ViewsInv, ViewInv
<1>8. cpc # "opened" => WalNamed
  BY <1>2, <1>3 DEF WalNamed
<1>9. cpc \in {"opened", "write", "written", "synced"} => walFile # None
  BY <1>1 DEF ProcessInv
<1>10. issued \in 1..MaxRecords
  BY <1>2, <1>5
<1>. QED  BY <1>2, <1>3, <1>4, <1>5, <1>6, <1>7, <1>8, <1>9, <1>10

(* A step that syncs the directory. *)
LEMMA SyncStep ==
  ASSUME NEW h \in Seq(Record), IInv(h), SyncDirectory,
         UNCHANGED <<status, mem, sequence, failed, walFile, frozen, db, acked, issued, faults, errors>>,
         cpc' \in {"idle", "open", "opened", "write", "written", "synced"},
         kpc' \in {"idle", "closed", "renamed", "segmented", "created", "frozen", "opened",
                   "encoded", "flushed", "renamedSnapshot", "published", "removed"},
         ProcessInv(h)', CheckpointInv(h)',
         kpc' \in {"opened", "encoded", "flushed"} => kpc' = kpc,
         cpc' = "synced" => cpc = "synced",
         Copied' => Copied,
         kpc' = "published" => kpc \in {"published", "renamedSnapshot"},
         kpc' = "renamedSnapshot" => kpc = "renamedSnapshot"
  PROVE  IInv(h)'
<1>1. /\ TypeOK /\ DirsInv /\ TmpInv /\ ViewsInv(h) /\ HistoryInv(h)
  BY DEF IInv
<1>0. PICK cur : cur = View(disk, dir)
  OBVIOUS
<1>2. /\ dir' = dir /\ dir \in PossibleDirs /\ PossibleDirs' = {dir}
      /\ \A n \in Names : dir[n] # None => disk'[dir[n]] = disk[dir[n]]
      /\ View(disk, dir)' = cur
      /\ PossibleViews' = {cur} /\ cur \in PossibleViews
  BY <1>0, <1>1, ViewsAfterSync DEF DirsInv
<1>3. TypeOK'
  <2>1. ddir' = dir /\ pending' = <<>>
    BY DEF SyncDirectory
  <2>2. /\ disk' \in [Inodes -> [data : Seq(Item), synced : Nat]]
        /\ \A i \in Inodes : disk'[i].synced <= Len(disk'[i].data)
    <3>1. disk' = [i \in Inodes |-> IF \E n \in Names : dir[n] = i THEN disk[i] ELSE Emptied]
      BY DEF SyncDirectory
    <3>2. Emptied \in [data : Seq(Item), synced : Nat] /\ Emptied.synced <= Len(Emptied.data)
      BY DEF Emptied
    <3>3. /\ disk \in [Inodes -> [data : Seq(Item), synced : Nat]]
          /\ \A i \in Inodes : disk[i].synced <= Len(disk[i].data)
      BY <1>1 DEF TypeOK
    <3>4. \A i \in Inodes : disk'[i] = disk[i] \/ disk'[i] = Emptied
      BY <3>1
    <3>. QED  BY <3>1, <3>2, <3>3, <3>4
  <2>. QED  BY <1>1, <1>2, <2>1, <2>2 DEF TypeOK
<1>4. DirsInv'
  <2>1. Injective(dir) /\ TmpApart(dir)
    BY <1>1, <1>2 DEF DirsInv
  <2>. QED  BY <1>2, <2>1 DEF DirsInv, TmpApart
<1>5. TmpInv'
  <2>1. dir["tmp"] # None => disk'[dir["tmp"]] = disk[dir["tmp"]]
    BY <1>2 DEF Names
  <2>. QED  BY <1>1, <1>2, <2>1 DEF TmpInv
<1>6. ViewInv(cur, h)'
  <2>1. ViewInv(cur, h) /\ (kpc = "renamedSnapshot" => SnapshotAt(cur) = frozen.sequence)
    BY <1>0, <1>1, <1>2 DEF ViewsInv
  <2>. QED  BY <1>2, <2>1 DEF ViewInv, PowerFails, Safe, Unsettled
<1>7. ViewsInv(h)'
  <2>1. kpc = "renamedSnapshot" => SnapshotAt(cur) = frozen.sequence
    BY <1>0, <1>1 DEF ViewsInv
  <2>. QED  BY <1>2, <1>6, <2>1 DEF ViewsInv
<1>8. HistoryInv(h)'
  BY <1>1 DEF HistoryInv
<1>. QED  BY <1>3, <1>4, <1>5, <1>7, <1>8 DEF IInv

(* The log is opened: a new file or the one there is. *)
LEMMA OpenWalStep ==
  ASSUME NEW h \in Seq(Record), IInv(h), OpenWal
  PROVE  IInv(h)'
<1>0. /\ cpc = "open" /\ cpc' = "opened"
      /\ UNCHANGED <<status, mem, sequence, failed, kpc, frozen, db, acked, issued, faults, errors>>
  BY DEF OpenWal
<1>1. /\ TypeOK /\ DirsInv /\ TmpInv /\ ViewsInv(h) /\ HistoryInv(h) /\ ProcessInv(h) /\ CheckpointInv(h)
  BY DEF IInv
<1>2. /\ status = "up" /\ ~failed /\ WalNamed
      /\ kpc \notin {"closed", "renamed", "segmented", "created"}
  BY <1>0, Committing
<1>3. HistoryInv(h)'
  BY <1>0, <1>1 DEF HistoryInv
<1>4. ~WalNamed'
  BY <1>0 DEF WalNamed
<1>5. CASE dir["wal"] # None
  <2>0. walFile' = dir["wal"] /\ UNCHANGED filesystem
    BY <1>5 DEF OpenWal
  <2>1. disk' = disk /\ dir' = dir /\ ddir' = ddir /\ pending' = pending
    BY <2>0 DEF filesystem
  <2>2. TypeOK'
    BY <1>0, <1>1, <2>0, <2>1 DEF TypeOK
  <2>3. TmpInv'
    BY <1>0, <1>1, <2>1 DEF TmpInv
  <2>4. \A v \in PossibleViews : ViewInv(v, h)'
    BY <1>0, <1>1, <2>1, ViewInvKept DEF ViewsInv
  <2>5. ProcessInv(h)'
    BY <1>0, <1>1, <1>2, <1>5, <2>0 DEF ProcessInv, Freezing, Written
  <2>6. CheckpointInv(h)'
    BY <1>0, <1>1, <1>2, <2>1 DEF CheckpointInv, Copied, Freezing
  <2>. QED  BY <1>0, <1>3, <1>4, <2>0, <2>2, <2>3, <2>4, <2>5, <2>6, QuietStep
<1>6. CASE dir["wal"] = None
  <2>0. /\ HasInode /\ walFile' = FreshInode /\ disk' = [disk EXCEPT ![FreshInode] = Emptied]
        /\ DirectoryOp(Linked("wal", FreshInode))
    BY <1>6 DEF OpenWal
  <2>1. \A d \in PossibleDirs : d["wal"] = None
    BY <1>1, <1>2, <1>6 DEF DirsInv
  <2>2. /\ FreshInode \in Inodes /\ FreshInode # None
        /\ dir' \in PossibleDirs' /\ dir' \in Directory /\ pending' \in Seq(Operation)
        /\ \A m \in Names : dir'[m] = IF m = "wal" THEN FreshInode ELSE dir[m]
        /\ \A d \in PossibleDirs' : Injective(d) /\ TmpApart(d)'
        /\ PossibleViews' \subseteq PossibleViews
        /\ View(disk, dir)' = View(disk, dir)
        /\ dir["tmp"] # None => disk'[dir["tmp"]] = disk[dir["tmp"]]
    BY <1>1, <1>6, <2>0, <2>1, ViewsAfterLink
  <2>3. dir'["wal"] = FreshInode /\ dir'["tmp"] = dir["tmp"] /\ dir'["previous"] = dir["previous"]
    BY <2>2 DEF Names
  <2>4. TypeOK'
    <3>1. /\ disk' \in [Inodes -> [data : Seq(Item), synced : Nat]]
          /\ \A i \in Inodes : disk'[i].synced <= Len(disk'[i].data)
      BY <1>1, <2>0, <2>2, EmptiedFile
    <3>2. ddir' = ddir
      BY <2>0 DEF DirectoryOp
    <3>. HIDE DEF Item, Directory, Operation
    <3>. QED  BY <1>0, <1>1, <2>0, <2>2, <2>3, <3>1, <3>2 DEF TypeOK
  <2>5. DirsInv'
    BY <1>0, <1>2, <1>4, <2>2 DEF DirsInv
  <2>6. TmpInv'
    BY <1>0, <1>1, <2>2, <2>3 DEF TmpInv
  <2>7. \A v \in PossibleViews : ViewInv(v, h)'
    <3>1. \A v \in PossibleViews : ViewInv(v, h)
      BY <1>1 DEF ViewsInv
    <3>. QED  BY <1>0, <2>3, <3>1 DEF ViewInv, Copied, PowerFails, Safe, Unsettled
  <2>8. ViewsInv(h)'
    BY <1>0, <1>1, <2>2, <2>7 DEF ViewsInv
  <2>9. ProcessInv(h)'
    BY <1>0, <1>1, <1>2, <2>0, <2>2 DEF ProcessInv, Freezing, Written
  <2>10. CheckpointInv(h)'
    BY <1>0, <1>1, <1>2, <2>3 DEF CheckpointInv, Copied, Freezing
  <2>. QED  BY <1>3, <2>4, <2>5, <2>6, <2>8, <2>9, <2>10 DEF IInv
<1>. QED  BY <1>5, <1>6

(* The log has been opened for a commit: the directory is synced. *)
LEMMA SyncOpenedWalStep ==
  ASSUME NEW h \in Seq(Record), IInv(h), SyncOpenedWal
  PROVE  IInv(h)'
<1>0. /\ cpc = "opened" /\ cpc' = "write" /\ SyncDirectory
      /\ UNCHANGED <<status, mem, sequence, failed, walFile, kpc, frozen, db, acked, issued, faults, errors>>
  BY DEF SyncOpenedWal
<1>1. TypeOK /\ ProcessInv(h) /\ CheckpointInv(h) /\ dir' = dir
  BY <1>0 DEF IInv, SyncDirectory
<1>2. ProcessInv(h)'
  BY <1>0, <1>1 DEF ProcessInv, Freezing, Written
<1>3. CheckpointInv(h)'
  BY <1>0, <1>1 DEF CheckpointInv, Copied, Freezing
<1>4. Copied' = Copied /\ kpc' = kpc
  BY <1>0 DEF Copied
<1>5. kpc' \in {"idle", "closed", "renamed", "segmented", "created", "frozen", "opened",
                "encoded", "flushed", "renamedSnapshot", "published", "removed"}
  BY <1>0, <1>1 DEF TypeOK
<1>. QED  BY <1>0, <1>2, <1>3, <1>4, <1>5, SyncStep

(* Where power fails, a log without a written record under way is settled. *)
LEMMA SettledLog ==
  ASSUME NEW h \in Seq(Record), IInv(h), status = "up", ~failed, ~Written, PowerFails,
         NEW v \in PossibleViews
  PROVE  Settled(v.wal) /\ Settled(v.previous)
<1>1. ProcessInv(h) /\ ViewInv(v, h)
  BY DEF IInv, ViewsInv
<1>2. Len(db) = Len(h) /\ Len(h) \in Nat
  BY <1>1 DEF ProcessInv
<1>3. Log(v) = v.wal.data /\ Safe(v, h)
  BY <1>1 DEF ViewInv
<1>. QED  BY <1>2, <1>3 DEF Safe, Unsettled

(* The record is written: the history grows. *)
LEMMA WriteRecordStep ==
  ASSUME NEW h \in Seq(Record), IInv(h), WriteRecord
  PROVE  \E g \in Seq(Record) : IInv(g)'
<1>0. /\ cpc = "write" /\ cpc' = "written"
      /\ UNCHANGED <<dir, ddir, pending, status, mem, sequence, failed, walFile, kpc, frozen,
                     db, acked, issued, faults, errors>>
      /\ disk' = [disk EXCEPT ![walFile] = Appended(disk[walFile], CurrentRecord)]
  BY DEF WriteRecord
<1>1. /\ TypeOK /\ DirsInv /\ TmpInv /\ ViewsInv(h) /\ HistoryInv(h) /\ ProcessInv(h) /\ CheckpointInv(h)
  BY DEF IInv
<1>2. /\ status = "up" /\ ~failed /\ ~Freezing /\ WalNamed /\ walFile # None /\ ~Written
      /\ CurrentRecord \in Record /\ CurrentRecord.seq = Len(mem) + 1
      /\ sequence = Len(mem) + 1 /\ sequence <= issued
      /\ Len(db) = Len(mem) /\ Len(mem) \in Nat /\ Len(h) = Len(mem)
      /\ \A v \in PossibleViews : Log(v) = v.wal.data
  BY <1>0, Committing DEF Written
<1>3. PICK r : r = CurrentRecord
  OBVIOUS
<1>4. PICK x : x = Appended(disk[walFile], r)
  OBVIOUS
<1>5. r \in Record /\ r.seq = Len(h) + 1 /\ Gapless(h) /\ r \in Item
  BY <1>1, <1>2, <1>3 DEF HistoryInv, Item
<1>6. PICK g : g = Append(h, r)
  OBVIOUS
<1>7. /\ g \in Seq(Record) /\ Len(g) = Len(h) + 1 /\ g[Len(h) + 1] = r
      /\ \A k \in 1..Len(h) : g[k] = h[k]
  BY <1>5, <1>6, AppendProperties
<1>8. /\ PossibleDirs' = PossibleDirs
      /\ \A u \in PossibleViews : u.wal = disk[walFile]
      /\ PossibleViews' = {WithLog(u, x) : u \in PossibleViews}
      /\ View(disk, dir) \in PossibleViews
      /\ View(disk, dir)' = WithLog(View(disk, dir), x)
      /\ walFile \in Inodes /\ disk'[walFile] = x
      /\ dir["tmp"] # None => disk'[dir["tmp"]] = disk[dir["tmp"]]
  BY <1>0, <1>1, <1>2, <1>3, <1>4, ViewsAfterWal
<1>9. /\ x \in [data : Seq(Item), synced : Nat] /\ x.synced = disk[walFile].synced
      /\ Len(x.data) = Len(disk[walFile].data) + 1 /\ x.synced <= Len(x.data)
      /\ Len(disk[walFile].data) \in Nat
  <2>0. PICK file : file = disk[walFile]
    OBVIOUS
  <2>1. file \in [data : Seq(Item), synced : Nat] /\ file.synced <= Len(file.data)
    BY <1>1, <1>8, <2>0 DEF TypeOK
  <2>2. Len(file.data) \in Nat /\ file.synced \in Nat
    BY <2>1
  <2>3. /\ Appended(file, r) \in [data : Seq(Item), synced : Nat]
        /\ Appended(file, r).synced = file.synced
        /\ Len(Appended(file, r).data) = Len(file.data) + 1
    BY <1>5, <2>1, FileOps
  <2>. QED  BY <1>4, <2>0, <2>1, <2>2, <2>3
<1>10. ASSUME NEW u \in PossibleViews
       PROVE  /\ Gapless(g)
              /\ Tells(WithLog(u, x), g)
              /\ SnapshotAt(WithLog(u, x)) = SnapshotAt(u) /\ PreviousAt(WithLog(u, x)) = PreviousAt(u)
              /\ Log(WithLog(u, x)) = WithLog(u, x).wal.data
  <2>1. x = Appended(u.wal, r) /\ Tells(u, h) /\ Log(u) = u.wal.data
    BY <1>2, <1>4, <1>8, Numbers
  <2>. QED  BY <1>5, <1>6, <2>1, ExtendedTells
<1>11. TypeOK'
  <2>1. /\ disk' \in [Inodes -> [data : Seq(Item), synced : Nat]]
        /\ \A j \in Inodes : disk'[j].synced <= Len(disk'[j].data)
    BY <1>0, <1>1, <1>3, <1>4, <1>8, <1>9, ChangedFile
  <2>. HIDE DEF Item
  <2>. QED  BY <1>0, <1>1, <2>1 DEF TypeOK
<1>12. DirsInv'
  <2>1. WalNamed' => WalNamed
    BY <1>2
  <2>. QED  BY <1>0, <1>1, <1>8, <2>1 DEF DirsInv, TmpApart
<1>13. TmpInv'
  BY <1>0, <1>1, <1>8 DEF TmpInv
<1>14. ASSUME NEW u \in PossibleViews  PROVE ViewInv(WithLog(u, x), g)'
  <2>1. PICK v : v = WithLog(u, x)
    OBVIOUS
  <2>2. v.wal = x /\ v.previous = u.previous
    BY <2>1 DEF WithLog
  <2>3. ViewInv(u, h)
    BY <1>1 DEF ViewsInv
  <2>4. Tells(v, g) /\ SnapshotAt(v) = SnapshotAt(u) /\ PreviousAt(v) = PreviousAt(u) /\ Log(v) = v.wal.data
    BY <1>10, <2>1
  <2>5. (PowerFails => Safe(v, g))'
    <3>. SUFFICES ASSUME PowerFails  PROVE Safe(v, g)'
      BY DEF PowerFails
    <3>1. Settled(u.wal) /\ Settled(u.previous)
      BY <1>2, SettledLog
    <3>2. x.synced = Len(x.data) - 1
      BY <1>8, <1>9, <3>1 DEF Settled
    <3>3. status' = "up" /\ Len(db') < Len(g)
      BY <1>0, <1>2, <1>7
    <3>. QED  BY <2>2, <3>1, <3>2, <3>3 DEF Safe, Unsettled
  <2>6. ViewInv(v, g)'
    BY <1>0, <2>3, <2>4, <2>5 DEF ViewInv, Copied
  <2>. QED  BY <2>1, <2>6
<1>15. ViewsInv(g)'
  <2>1. \A v \in PossibleViews' : ViewInv(v, g)'
    BY <1>8, <1>14
  <2>2. kpc' = "renamedSnapshot" => SnapshotAt(View(disk, dir)') = frozen'.sequence
    BY <1>0, <1>1, <1>8, <1>10 DEF ViewsInv
  <2>. QED  BY <2>1, <2>2 DEF ViewsInv
<1>16. \A m \in 0..Len(h) : StateAt(g, m) = StateAt(h, m) /\ SubSeq(g, 1, m) = SubSeq(h, 1, m)
  <2>. TAKE m \in 0..Len(h)
  <2>1. m <= Len(g)
    BY <1>7
  <2>. QED  BY <1>7, <2>1, StateKept
<1>17. HistoryInv(g)'
  <2>1. Gapless(g)
    BY <1>8, <1>10
  <2>2. Len(mem) \in 0..Len(h) /\ Len(db) \in 0..Len(h)
    BY <1>2
  <2>3. SubSeq(g, 1, Len(db)) = db /\ SubSeq(g, 1, Len(mem)) = mem
    BY <1>1, <1>16, <2>2 DEF HistoryInv
  <2>4. Len(g) <= issued /\ Len(db) <= Len(g)
    BY <1>2, <1>7
  <2>. QED  BY <1>0, <1>1, <2>1, <2>3, <2>4 DEF HistoryInv
<1>18. ProcessInv(g)'
  <2>1. CurrentRecord' = r
    BY <1>0, <1>3 DEF CurrentRecord
  <2>. QED  BY <1>0, <1>1, <1>2, <1>7, <2>1 DEF ProcessInv, Freezing, Written
<1>19. CheckpointInv(g)'
  <2>1. Copied => frozen.sequence \in 0..Len(h)
    BY <1>1, <1>2 DEF CheckpointInv, TypeOK, State
  <2>2. Copied => StateAt(g, frozen.sequence) = StateAt(h, frozen.sequence)
    BY <1>16, <2>1
  <2>. QED  BY <1>0, <1>1, <1>2, <2>2 DEF CheckpointInv, Copied, Freezing
<1>20. IInv(g)'
  BY <1>11, <1>12, <1>13, <1>15, <1>17, <1>18, <1>19 DEF IInv
<1>. QED  BY <1>7, <1>20

(* The log is flushed, after the record or before it is rotated. *)
LEMMA FlushedLog ==
  ASSUME NEW h \in Seq(Record), IInv(h), WalNamed, walFile # None,
         disk' = [disk EXCEPT ![walFile] = Flushed(disk[walFile])],
         UNCHANGED <<dir, ddir, pending>>
  PROVE  /\ PossibleDirs' = PossibleDirs
         /\ \A v \in PossibleViews' : \E u \in PossibleViews :
              /\ Tells(v, h) /\ SnapshotAt(v) = SnapshotAt(u) /\ PreviousAt(v) = PreviousAt(u)
              /\ Log(v) = Log(u) /\ v.wal.data = u.wal.data /\ v.previous = u.previous
              /\ Settled(v.wal)
         /\ SnapshotAt(View(disk, dir)') = SnapshotAt(View(disk, dir))
         /\ disk' \in [Inodes -> [data : Seq(Item), synced : Nat]]
         /\ \A j \in Inodes : disk'[j].synced <= Len(disk'[j].data)
         /\ dir["tmp"] # None => disk'[dir["tmp"]] = disk[dir["tmp"]]
<1>1. TypeOK /\ DirsInv
  BY DEF IInv
<1>2. PICK x : x = Flushed(disk[walFile])
  OBVIOUS
<1>3. /\ PossibleDirs' = PossibleDirs
      /\ \A u \in PossibleViews : u.wal = disk[walFile]
      /\ PossibleViews' = {WithLog(u, x) : u \in PossibleViews}
      /\ View(disk, dir) \in PossibleViews
      /\ View(disk, dir)' = WithLog(View(disk, dir), x)
      /\ walFile \in Inodes /\ disk'[walFile] = x
      /\ dir["tmp"] # None => disk'[dir["tmp"]] = disk[dir["tmp"]]
  BY <1>1, <1>2, ViewsAfterWal
<1>4. /\ x \in [data : Seq(Item), synced : Nat] /\ x.data = disk[walFile].data
      /\ x.synced = Len(x.data) /\ x.synced <= Len(x.data)
  <2>0. PICK file : file = disk[walFile]
    OBVIOUS
  <2>1. file \in [data : Seq(Item), synced : Nat] /\ file.synced <= Len(file.data)
    BY <1>1, <1>3, <2>0 DEF TypeOK
  <2>2. Len(file.data) \in Nat
    BY <2>1
  <2>3. /\ Flushed(file) \in [data : Seq(Item), synced : Nat]
        /\ Flushed(file).data = file.data /\ Flushed(file).synced = Len(file.data)
    BY <2>1, FileOps
  <2>. QED  BY <1>2, <2>0, <2>2, <2>3
<1>5. ASSUME NEW u \in PossibleViews
      PROVE  /\ Tells(WithLog(u, x), h)
             /\ SnapshotAt(WithLog(u, x)) = SnapshotAt(u) /\ PreviousAt(WithLog(u, x)) = PreviousAt(u)
             /\ Log(WithLog(u, x)) = Log(u)
             /\ WithLog(u, x).wal = x /\ WithLog(u, x).previous = u.previous
  <2>1. x = Flushed(u.wal) /\ Tells(u, h)
    BY <1>2, <1>3, Numbers
  <2>2. Alike(u, WithLog(u, x))
    BY <2>1, FlushedAlike
  <2>3. WithLog(u, x).wal = x /\ WithLog(u, x).previous = u.previous
    BY DEF WithLog
  <2>4. Log(WithLog(u, x)) = Log(u)
    BY <2>2 DEF Alike
  <2>. QED  BY <2>1, <2>2, <2>3, <2>4, AlikeTell
<1>6. /\ disk' \in [Inodes -> [data : Seq(Item), synced : Nat]]
      /\ \A j \in Inodes : disk'[j].synced <= Len(disk'[j].data)
  BY <1>1, <1>2, <1>3, <1>4, ChangedFile
<1>7. ASSUME NEW v \in PossibleViews'
      PROVE  \E u \in PossibleViews :
              /\ Tells(v, h) /\ SnapshotAt(v) = SnapshotAt(u) /\ PreviousAt(v) = PreviousAt(u)
              /\ Log(v) = Log(u) /\ v.wal.data = u.wal.data /\ v.previous = u.previous
              /\ Settled(v.wal)
  <2>1. PICK u \in PossibleViews : v = WithLog(u, x)
    BY <1>3
  <2>2. v.wal = x /\ v.wal.data = u.wal.data
    BY <1>3, <1>4, <1>5, <2>1
  <2>3. Settled(v.wal)
    BY <1>4, <2>2 DEF Settled
  <2>. QED  BY <1>5, <2>1, <2>2, <2>3
<1>. QED  BY <1>3, <1>5, <1>6, <1>7

(* The record is fsynced: from here on a power loss cannot take it. *)
LEMMA SyncRecordStep ==
  ASSUME NEW h \in Seq(Record), IInv(h), SyncRecord
  PROVE  IInv(h)'
<1>0. /\ cpc = "written" /\ cpc' = "synced"
      /\ UNCHANGED <<dir, ddir, pending, status, mem, sequence, failed, walFile, kpc, frozen,
                     db, acked, issued, faults, errors>>
      /\ disk' = [disk EXCEPT ![walFile] = Flushed(disk[walFile])]
  BY DEF SyncRecord
<1>1. /\ TypeOK /\ DirsInv /\ TmpInv /\ ViewsInv(h) /\ HistoryInv(h) /\ ProcessInv(h) /\ CheckpointInv(h)
  BY DEF IInv
<1>2. status = "up" /\ ~failed /\ ~Freezing /\ WalNamed /\ walFile # None
  BY <1>0, Committing
<1>3. /\ PossibleDirs' = PossibleDirs
      /\ \A v \in PossibleViews' : \E u \in PossibleViews :
           /\ Tells(v, h) /\ SnapshotAt(v) = SnapshotAt(u) /\ PreviousAt(v) = PreviousAt(u)
           /\ Log(v) = Log(u) /\ v.wal.data = u.wal.data /\ v.previous = u.previous
           /\ Settled(v.wal)
      /\ SnapshotAt(View(disk, dir)') = SnapshotAt(View(disk, dir))
      /\ disk' \in [Inodes -> [data : Seq(Item), synced : Nat]]
      /\ \A j \in Inodes : disk'[j].synced <= Len(disk'[j].data)
      /\ dir["tmp"] # None => disk'[dir["tmp"]] = disk[dir["tmp"]]
  BY <1>0, <1>2, FlushedLog
<1>4. TypeOK'
  BY <1>0, <1>1, <1>3 DEF TypeOK
<1>5. DirsInv'
  BY <1>0, <1>1, <1>2, <1>3 DEF DirsInv, TmpApart
<1>6. TmpInv'
  BY <1>0, <1>1, <1>3 DEF TmpInv
<1>7. ASSUME NEW v \in PossibleViews'  PROVE ViewInv(v, h)'
  <2>1. PICK u \in PossibleViews :
           /\ Tells(v, h) /\ SnapshotAt(v) = SnapshotAt(u) /\ PreviousAt(v) = PreviousAt(u)
           /\ Log(v) = Log(u) /\ v.wal.data = u.wal.data /\ v.previous = u.previous
           /\ Settled(v.wal)
    BY <1>3
  <2>2. ViewInv(u, h)
    BY <1>1 DEF ViewsInv
  <2>. QED  BY <1>0, <2>1, <2>2 DEF ViewInv, Copied, PowerFails, Safe
<1>8. ViewsInv(h)'
  BY <1>0, <1>1, <1>3, <1>7 DEF ViewsInv
<1>9. HistoryInv(h)'
  BY <1>0, <1>1 DEF HistoryInv
<1>10. ProcessInv(h)'
  <2>1. CurrentRecord' = CurrentRecord
    BY <1>0 DEF CurrentRecord
  <2>. QED  BY <1>0, <1>1, <1>2, <2>1 DEF ProcessInv, Freezing, Written
<1>11. CheckpointInv(h)'
  BY <1>0, <1>1 DEF CheckpointInv, Copied, Freezing
<1>. QED  BY <1>4, <1>5, <1>6, <1>8, <1>9, <1>10, <1>11 DEF IInv

(* With the record projected, PostgreSQL has the whole history. *)
LEMMA ProjectCurrent ==
  ASSUME NEW h \in Seq(Record), IInv(h), Written
  PROVE  Projected(db, <<CurrentRecord>>) = h /\ Append(mem, CurrentRecord) = h
<1>1. cpc # "idle"
  BY DEF Written
<1>2. /\ Len(db) = Len(mem) /\ Len(mem) \in Nat /\ Len(h) = Len(mem) + 1
      /\ h[Len(h)] = CurrentRecord
  BY <1>1, Committing
<1>3. Gapless(h) /\ db = SubSeq(h, 1, Len(db)) /\ mem = SubSeq(h, 1, Len(mem))
  BY DEF IInv, HistoryInv
<1>4. PICK b : b = Len(mem)
  OBVIOUS
<1>5. /\ b \in 0..Len(h) /\ b \in 0..b /\ Len(h) \in b..Len(h) /\ ~(Len(h) <= b) /\ b < Len(h)
      /\ Len(h) = b + 1
  BY <1>2, <1>4
<1>6. SubSeq(h, 1, Len(h)) = h
  BY SubSeqFull
<1>7. SubSeq(h, b + 1, Len(h)) = <<CurrentRecord>>
  <2>. DEFINE s == SubSeq(h, b + 1, Len(h))
  <2>1. s \in Seq(Record) /\ Len(s) = Len(h) - b /\ \A k \in 1..(Len(h) - b) : s[k] = h[b + k]
    BY <1>5, Parts
  <2>. HIDE DEF s
  <2>2. Len(s) = 1 /\ s[1] = CurrentRecord
    BY <1>2, <1>5, <2>1
  <2>3. PICK r : r = CurrentRecord
    OBVIOUS
  <2>4. r \in Record /\ s[1] = r
    BY <1>1, <2>2, <2>3, Committing
  <2>5. <<r>> \in Seq(Record) /\ Len(<<r>>) = 1 /\ <<r>>[1] = r
    BY <2>4
  <2>6. \A t \in Seq(Record) : Len(t) = 1 /\ t[1] = r => s = t
    BY <2>1, <2>2, <2>4, SameElements
  <2>7. s = <<CurrentRecord>>
    BY <2>3, <2>5, <2>6
  <2>. QED  BY <2>7 DEF s
<1>8. Projected(SubSeq(h, 1, b), SubSeq(h, b + 1, Len(h)))
        = SubSeq(h, 1, IF Len(h) <= b THEN b ELSE Len(h))
  BY <1>3, <1>5, ProjectedPart
<1>9. Append(SubSeq(h, 1, b), h[b + 1]) = SubSeq(h, 1, b + 1)
  BY <1>5, PrefixAppend
<1>10. Projected(db, <<CurrentRecord>>) = h
  <2>1. db = SubSeq(h, 1, b)
    BY <1>2, <1>3, <1>4
  <2>. QED  BY <1>5, <1>6, <1>7, <1>8, <2>1
<1>11. Append(mem, CurrentRecord) = h
  <2>1. mem = SubSeq(h, 1, b) /\ CurrentRecord = h[b + 1]
    BY <1>2, <1>3, <1>4
  <2>. QED  BY <1>5, <1>6, <1>9, <2>1
<1>. QED  BY <1>10, <1>11

(* The record reaches PostgreSQL and memory, and the caller is told. *)
LEMMA CommitDoneStep ==
  ASSUME NEW h \in Seq(Record), IInv(h), CommitDone
  PROVE  IInv(h)'
<1>0. /\ cpc = "synced" /\ cpc' = "idle" /\ UNCHANGED filesystem
      /\ UNCHANGED <<disk, dir, ddir, pending, status, sequence, failed, walFile, kpc, frozen,
                     issued, faults, errors>>
      /\ db' = Projected(db, <<CurrentRecord>>)
      /\ mem' = Append(mem, CurrentRecord)
      /\ acked' = acked \cup {CurrentRecord}
  BY DEF CommitDone, filesystem
<1>1. /\ TypeOK /\ TmpInv /\ ViewsInv(h) /\ HistoryInv(h) /\ ProcessInv(h) /\ CheckpointInv(h)
  BY DEF IInv
<1>2. /\ status = "up" /\ ~failed /\ ~Freezing /\ WalNamed /\ Written
      /\ CurrentRecord \in Record /\ h[Len(h)] = CurrentRecord
      /\ sequence = Len(mem) + 1 /\ Len(db) = Len(mem) /\ Len(mem) \in Nat /\ Len(h) = Len(mem) + 1
  BY <1>0, Committing DEF Written
<1>3. db' = h /\ mem' = h
  BY <1>0, <1>2, ProjectCurrent
<1>4. Len(h) \in Nat /\ Len(h) \in 1..Len(h) /\ h \in Seq(Record) /\ SubSeq(h, 1, Len(h)) = h
  BY <1>2, SubSeqFull
<1>5. TypeOK'
  BY <1>0, <1>1, <1>2, <1>3 DEF TypeOK
<1>6. TmpInv'
  BY <1>0, <1>1 DEF TmpInv
<1>7. \A v \in PossibleViews : ViewInv(v, h)'
  <2>. TAKE v \in PossibleViews
  <2>1. ViewInv(v, h) /\ PreviousAt(v) \in 0..Len(h)
    BY <1>1, Numbers DEF ViewsInv
  <2>2. PreviousAt(v) <= Len(db')
    BY <1>3, <1>4, <2>1
  <2>3. Settled(v.wal) /\ (PowerFails => Settled(v.previous))
    BY <1>0, <2>1 DEF ViewInv, Safe
  <2>. QED  BY <1>0, <2>1, <2>2, <2>3 DEF ViewInv, Copied, PowerFails, Safe
<1>8. HistoryInv(h)'
  <2>1. acked \subseteq {mem[k] : k \in 1..Len(mem)}
    BY <1>1, <1>2 DEF HistoryInv
  <2>2. \A k \in 1..Len(mem) : k \in 1..Len(h) /\ mem[k] = h[k]
    <3>1. Len(mem) \in 0..Len(h) /\ mem = SubSeq(h, 1, Len(mem))
      BY <1>1, <1>2 DEF HistoryInv
    <3>2. \A k \in 1..Len(mem) : SubSeq(h, 1, Len(mem))[k] = h[k]
      BY <3>1, Prefixes
    <3>. QED  BY <1>2, <3>1, <3>2
  <2>3. acked' \subseteq {h[k] : k \in 1..Len(h)}
    BY <1>0, <1>2, <1>4, <2>1, <2>2
  <2>4. /\ acked' \subseteq {db'[k] : k \in 1..Len(db')}
        /\ acked' \subseteq {mem'[k] : k \in 1..Len(mem')}
    BY <1>3, <2>3
  <2>5. /\ Len(db') <= Len(h) /\ db' = SubSeq(h, 1, Len(db'))
        /\ Len(mem') <= Len(db') /\ mem' = SubSeq(h, 1, Len(mem'))
    BY <1>3, <1>4
  <2>6. Gapless(h) /\ Len(h) <= issued'
    BY <1>0, <1>1 DEF HistoryInv
  <2>. QED  BY <2>4, <2>5, <2>6 DEF HistoryInv
<1>9. ProcessInv(h)'
  BY <1>0, <1>1, <1>2, <1>3, <1>4 DEF ProcessInv, Freezing, Written
<1>10. CheckpointInv(h)'
  <2>1. Copied => frozen.sequence \in Nat
    BY <1>1, WalAssumption DEF TypeOK, State
  <2>2. Copied => frozen.sequence <= Len(mem')
    BY <1>1, <1>2, <1>3, <1>4, <2>1 DEF CheckpointInv
  <2>. QED  BY <1>0, <1>1, <1>2, <2>2 DEF CheckpointInv, Copied, Freezing
<1>11. WalNamed' => WalNamed
  BY <1>2
<1>. QED  BY <1>0, <1>5, <1>6, <1>7, <1>8, <1>9, <1>10, <1>11, QuietStep

(* A retry is answered from memory. *)
LEMMA AnswerRetryStep ==
  ASSUME NEW h \in Seq(Record), IInv(h), NEW i \in DOMAIN mem, AnswerRetry(mem[i])
  PROVE  IInv(h)'
<1>0. /\ UNCHANGED filesystem /\ acked' = acked \cup {mem[i]}
      /\ UNCHANGED <<disk, dir, ddir, pending, status, mem, sequence, failed, walFile, cpc, kpc, frozen,
                     db, issued, faults, errors>>
      /\ status = "up" /\ ~failed
  BY DEF AnswerRetry, filesystem, process, Unlocked
<1>1. /\ TypeOK /\ TmpInv /\ ViewsInv(h) /\ HistoryInv(h) /\ ProcessInv(h) /\ CheckpointInv(h)
  BY DEF IInv
<1>2. i \in 1..Len(mem) /\ mem[i] \in Record
  BY <1>1 DEF TypeOK
<1>3. TypeOK'
  BY <1>0, <1>1, <1>2 DEF TypeOK
<1>4. TmpInv'
  BY <1>0, <1>1 DEF TmpInv
<1>5. \A v \in PossibleViews : ViewInv(v, h)'
  BY <1>0, <1>1, ViewInvKept DEF ViewsInv
<1>6. HistoryInv(h)'
  <2>1. /\ Len(h) \in Nat /\ Len(db) \in 0..Len(h) /\ Len(mem) \in 0..Len(h) /\ Len(mem) <= Len(db)
        /\ db = SubSeq(h, 1, Len(db)) /\ mem = SubSeq(h, 1, Len(mem))
    BY <1>1, Numbers DEF HistoryInv
  <2>2. i \in 1..Len(db)
    BY <1>2, <2>1
  <2>3. SubSeq(h, 1, Len(mem))[i] = h[i] /\ SubSeq(h, 1, Len(db))[i] = h[i]
    BY <1>2, <2>1, <2>2, Prefixes
  <2>4. mem[i] = db[i]
    BY <2>1, <2>3
  <2>. QED  BY <1>0, <1>1, <1>2, <2>2, <2>4 DEF HistoryInv
<1>7. ProcessInv(h)'
  BY <1>0, <1>1 DEF ProcessInv, Freezing, Written, CurrentRecord
<1>8. CheckpointInv(h)'
  BY <1>0, <1>1 DEF CheckpointInv, Copied, Freezing
<1>9. WalNamed' => WalNamed
  BY <1>0 DEF WalNamed
<1>. QED  BY <1>0, <1>3, <1>4, <1>5, <1>6, <1>7, <1>8, <1>9, QuietStep

(* Memory, PostgreSQL and the history agree as far as they go. *)
LEMMA Prefixed ==
  ASSUME NEW h \in Seq(Record), IInv(h)
  PROVE  /\ \A k \in 1..Len(mem) : k \in 1..Len(h) /\ mem[k] = h[k]
         /\ \A k \in 1..Len(db) : k \in 1..Len(h) /\ db[k] = h[k]
<1>1. /\ Len(h) \in Nat /\ Len(db) \in 0..Len(h) /\ Len(mem) \in 0..Len(h)
      /\ db = SubSeq(h, 1, Len(db)) /\ mem = SubSeq(h, 1, Len(mem))
  BY Numbers DEF IInv, HistoryInv
<1>2. /\ \A k \in 1..Len(mem) : SubSeq(h, 1, Len(mem))[k] = h[k]
      /\ \A k \in 1..Len(db) : SubSeq(h, 1, Len(db))[k] = h[k]
  BY <1>1, Prefixes
<1>. QED  BY <1>1, <1>2

(* A commit fails, before or after its record is in PostgreSQL. *)
LEMMA CommitErrorQuiet ==
  ASSUME NEW h \in Seq(Record), IInv(h), CommitError, disk' = disk
  PROVE  IInv(h)'
<1>0. /\ cpc # "idle" /\ cpc' = "idle" /\ failed' = TRUE /\ errors < MaxErrors /\ errors' = errors + 1
      /\ UNCHANGED <<dir, ddir, pending, status, mem, sequence, walFile, kpc, frozen, acked, issued, faults>>
      /\ UNCHANGED filesystem
  BY DEF CommitError, filesystem
<1>1. /\ TypeOK /\ TmpInv /\ ViewsInv(h) /\ HistoryInv(h) /\ ProcessInv(h) /\ CheckpointInv(h)
  BY DEF IInv
<1>2. status = "up" /\ ~failed /\ ~Freezing
  BY <1>0, Committing
<1>3. db' = db \/ (cpc = "synced" /\ db' = h)
  <2>1. db' = db \/ (cpc = "synced" /\ db' = Projected(db, <<CurrentRecord>>))
    BY DEF CommitError
  <2>2. cpc = "synced" => Written
    BY DEF Written
  <2>. QED  BY <2>1, <2>2, ProjectCurrent
<1>4. Len(h) \in Nat /\ Len(db) \in Nat /\ Len(mem) \in Nat /\ Len(db) <= Len(h) /\ Len(mem) <= Len(db)
  BY <1>1, Numbers DEF HistoryInv
<1>5. TypeOK'
  <2>1. errors + 1 \in 0..MaxErrors
    BY <1>0, <1>1, WalAssumption DEF TypeOK
  <2>2. db' \in Seq(Record)
    BY <1>1, <1>3 DEF TypeOK
  <2>. QED  BY <1>0, <1>1, <2>1, <2>2 DEF TypeOK
<1>6. TmpInv'
  BY <1>0, <1>1 DEF TmpInv
<1>7. \A v \in PossibleViews : ViewInv(v, h)'
  <2>. TAKE v \in PossibleViews
  <2>1. ViewInv(v, h) /\ PreviousAt(v) \in 0..Len(h)
    BY <1>1, Numbers DEF ViewsInv
  <2>2. PreviousAt(v) <= Len(db')
    BY <1>3, <1>4, <2>1 DEF ViewInv
  <2>3. (PowerFails => Safe(v, h))'
    BY <1>0, <1>3, <2>1 DEF ViewInv, PowerFails, Safe, Unsettled
  <2>. QED  BY <1>0, <2>1, <2>2, <2>3 DEF ViewInv, Copied
<1>8. HistoryInv(h)'
  <2>1. CASE db' = db
    BY <1>0, <1>1, <2>1 DEF HistoryInv
  <2>2. CASE db' = h
    <3>1. SubSeq(h, 1, Len(h)) = h
      BY SubSeqFull
    <3>2. acked \subseteq {h[k] : k \in 1..Len(h)}
      <4>1. acked \subseteq {db[k] : k \in 1..Len(db)}
        BY <1>1 DEF HistoryInv
      <4>. QED  BY <4>1, Prefixed
    <3>3. acked' \subseteq {db'[k] : k \in 1..Len(db')}
      BY <1>0, <2>2, <3>2
    <3>4. Len(db') <= Len(h) /\ db' = SubSeq(h, 1, Len(db')) /\ Len(mem') <= Len(db')
      BY <1>0, <1>4, <2>2, <3>1
    <3>. QED  BY <1>0, <1>1, <3>3, <3>4 DEF HistoryInv
  <2>. QED  BY <1>3, <2>1, <2>2
<1>9. ProcessInv(h)'
  BY <1>0, <1>1, <1>2 DEF ProcessInv
<1>10. CheckpointInv(h)'
  BY <1>0, <1>1, <1>2 DEF CheckpointInv, Copied, Freezing
<1>11. ~WalNamed'
  BY <1>0 DEF WalNamed
<1>. QED  BY <1>0, <1>5, <1>6, <1>7, <1>8, <1>9, <1>10, <1>11, QuietStep

(* The write is short: a torn record ends the log. *)
LEMMA CommitErrorTorn ==
  ASSUME NEW h \in Seq(Record), IInv(h), CommitError, cpc = "write",
         disk' = [disk EXCEPT ![walFile] = Appended(disk[walFile], Torn)], db' = db
  PROVE  IInv(h)'
<1>0. /\ cpc' = "idle" /\ failed' = TRUE /\ errors < MaxErrors /\ errors' = errors + 1
      /\ UNCHANGED <<dir, ddir, pending, status, mem, sequence, walFile, kpc, frozen, acked, issued, faults>>
  BY DEF CommitError
<1>1. /\ TypeOK /\ DirsInv /\ TmpInv /\ ViewsInv(h) /\ HistoryInv(h) /\ ProcessInv(h) /\ CheckpointInv(h)
  BY DEF IInv
<1>2. /\ status = "up" /\ ~failed /\ ~Freezing /\ WalNamed /\ walFile # None /\ ~Written
      /\ \A v \in PossibleViews : Log(v) = v.wal.data
  BY Committing DEF Written
<1>3. PICK x : x = Appended(disk[walFile], Torn)
  OBVIOUS
<1>4. /\ PossibleDirs' = PossibleDirs
      /\ \A u \in PossibleViews : u.wal = disk[walFile]
      /\ PossibleViews' = {WithLog(u, x) : u \in PossibleViews}
      /\ View(disk, dir) \in PossibleViews
      /\ View(disk, dir)' = WithLog(View(disk, dir), x)
      /\ walFile \in Inodes /\ disk'[walFile] = x
      /\ dir["tmp"] # None => disk'[dir["tmp"]] = disk[dir["tmp"]]
  BY <1>0, <1>1, <1>2, <1>3, ViewsAfterWal
<1>5. /\ x \in [data : Seq(Item), synced : Nat] /\ x.synced = disk[walFile].synced
      /\ Len(x.data) = Len(disk[walFile].data) + 1 /\ x.synced <= Len(x.data)
      /\ Len(disk[walFile].data) \in Nat
  <2>0. PICK file : file = disk[walFile]
    OBVIOUS
  <2>1. file \in [data : Seq(Item), synced : Nat] /\ file.synced <= Len(file.data) /\ Torn \in Item
    BY <1>1, <1>4, <2>0 DEF TypeOK, Item
  <2>2. Len(file.data) \in Nat /\ file.synced \in Nat
    BY <2>1
  <2>3. /\ Appended(file, Torn) \in [data : Seq(Item), synced : Nat]
        /\ Appended(file, Torn).synced = file.synced
        /\ Len(Appended(file, Torn).data) = Len(file.data) + 1
    BY <2>1, FileOps
  <2>. QED  BY <1>3, <2>0, <2>1, <2>2, <2>3
<1>6. ASSUME NEW u \in PossibleViews
      PROVE  /\ Tells(WithLog(u, x), h)
             /\ SnapshotAt(WithLog(u, x)) = SnapshotAt(u) /\ PreviousAt(WithLog(u, x)) = PreviousAt(u)
             /\ Log(WithLog(u, x)) = Log(u)
  <2>1. x = Appended(u.wal, Torn) /\ Tells(u, h) /\ Log(u) = u.wal.data
    BY <1>2, <1>3, <1>4, Numbers
  <2>2. Alike(u, WithLog(u, x))
    BY <2>1, TornTells
  <2>. QED  BY <2>1, <2>2, AlikeTell DEF Alike
<1>7. TypeOK'
  <2>1. /\ disk' \in [Inodes -> [data : Seq(Item), synced : Nat]]
        /\ \A j \in Inodes : disk'[j].synced <= Len(disk'[j].data)
    BY <1>1, <1>3, <1>4, <1>5, ChangedFile
  <2>2. errors + 1 \in 0..MaxErrors
    BY <1>0, <1>1, WalAssumption DEF TypeOK
  <2>. QED  BY <1>0, <1>1, <2>1, <2>2 DEF TypeOK
<1>8. DirsInv'
  <2>1. ~WalNamed'
    BY <1>0 DEF WalNamed
  <2>. QED  BY <1>0, <1>1, <1>2, <1>4, <2>1 DEF DirsInv, TmpApart
<1>9. TmpInv'
  BY <1>0, <1>1, <1>4 DEF TmpInv
<1>10. ASSUME NEW u \in PossibleViews  PROVE ViewInv(WithLog(u, x), h)'
  <2>1. PICK v : v = WithLog(u, x)
    OBVIOUS
  <2>2. v.wal = x /\ v.previous = u.previous
    BY <2>1 DEF WithLog
  <2>3. ViewInv(u, h)
    BY <1>1 DEF ViewsInv
  <2>4. Tells(v, h) /\ SnapshotAt(v) = SnapshotAt(u) /\ PreviousAt(v) = PreviousAt(u) /\ Log(v) = Log(u)
    BY <1>6, <2>1
  <2>5. (PowerFails => Safe(v, h))'
    <3>. SUFFICES ASSUME PowerFails  PROVE Safe(v, h)'
      BY DEF PowerFails
    <3>1. Settled(u.wal) /\ Settled(u.previous)
      BY <1>2, SettledLog
    <3>2. x.synced = Len(x.data) - 1
      BY <1>4, <1>5, <3>1 DEF Settled
    <3>3. Log(v) # x.data
      <4>1. Log(v) = disk[walFile].data
        BY <1>2, <1>4, <2>4
      <4>. QED  BY <1>5, <4>1
    <3>. QED  BY <1>0, <1>2, <2>2, <3>1, <3>2, <3>3 DEF Safe, Unsettled
  <2>6. ViewInv(v, h)'
    BY <1>0, <2>3, <2>4, <2>5 DEF ViewInv, Copied
  <2>. QED  BY <2>1, <2>6
<1>11. ViewsInv(h)'
  <2>1. \A v \in PossibleViews' : ViewInv(v, h)'
    BY <1>4, <1>10
  <2>2. kpc' = "renamedSnapshot" => SnapshotAt(View(disk, dir)') = frozen'.sequence
    BY <1>0, <1>1, <1>4, <1>6 DEF ViewsInv
  <2>. QED  BY <2>1, <2>2 DEF ViewsInv
<1>12. HistoryInv(h)'
  BY <1>0, <1>1 DEF HistoryInv
<1>13. ProcessInv(h)'
  BY <1>0, <1>1, <1>2 DEF ProcessInv
<1>14. CheckpointInv(h)'
  BY <1>0, <1>1, <1>2 DEF CheckpointInv, Copied, Freezing
<1>. QED  BY <1>7, <1>8, <1>9, <1>11, <1>12, <1>13, <1>14 DEF IInv

(* A call of a commit fails, with or without a torn write left behind. *)
LEMMA CommitErrorStep ==
  ASSUME NEW h \in Seq(Record), IInv(h), CommitError
  PROVE  IInv(h)'
<1>1. \/ disk' = disk
      \/ cpc = "write" /\ disk' = [disk EXCEPT ![walFile] = Appended(disk[walFile], Torn)] /\ db' = db
  BY DEF CommitError
<1>. QED  BY <1>1, CommitErrorQuiet, CommitErrorTorn

(* The process dies, where power does not fail. *)
LEMMA CrashStep ==
  ASSUME NEW h \in Seq(Record), IInv(h), OneKindOfDeath, Crash
  PROVE  IInv(h)'
<1>0. /\ UNCHANGED filesystem /\ UNCHANGED <<disk, dir, ddir, pending, db, acked, issued, errors>>
      /\ faults < MaxFaults /\ faults' = faults + 1 /\ status' = "down" /\ mem' = <<>>
      /\ sequence' = 0 /\ failed' = FALSE /\ walFile' = None /\ cpc' = "idle" /\ kpc' = "idle"
      /\ frozen' = InitialState
      /\ ~PowerFails
  BY DEF Crash, Dies, filesystem, OneKindOfDeath, PowerFails
<1>1. /\ TypeOK /\ TmpInv /\ ViewsInv(h) /\ HistoryInv(h) /\ ProcessInv(h) /\ CheckpointInv(h)
  BY DEF IInv
<1>2. Len(h) \in Nat /\ Len(db) \in Nat /\ issued \in Nat /\ MaxRecords \in Nat
  BY <1>1, Numbers, WalAssumption DEF TypeOK
<1>3. TypeOK'
  <2>1. faults + 1 \in 0..MaxFaults /\ 0 \in 0..MaxRecords
    BY <1>0, <1>1, <1>2, WalAssumption DEF TypeOK
  <2>2. InitialState \in State /\ <<>> \in Seq(Record)
    BY <2>1 DEF InitialState, State
  <2>. QED  BY <1>0, <1>1, <2>1, <2>2 DEF TypeOK
<1>4. TmpInv'
  BY <1>0 DEF TmpInv
<1>5. \A v \in PossibleViews : ViewInv(v, h)'
  <2>1. \A v \in PossibleViews : ViewInv(v, h)
    BY <1>1 DEF ViewsInv
  <2>. QED  BY <1>0, <2>1 DEF ViewInv, Copied, PowerFails
<1>6. HistoryInv(h)'
  <2>1. Len(mem') = 0 /\ SubSeq(h, 1, 0) = <<>>
    BY <1>0
  <2>2. Len(mem') <= Len(db') /\ mem' = SubSeq(h, 1, Len(mem'))
    BY <1>0, <1>2, <2>1
  <2>. QED  BY <1>0, <1>1, <2>2 DEF HistoryInv
<1>7. ProcessInv(h)'
  BY <1>0, <1>2 DEF ProcessInv
<1>8. CheckpointInv(h)'
  BY <1>0 DEF CheckpointInv, Copied, Freezing
<1>9. ~WalNamed'
  BY <1>0 DEF WalNamed
<1>. QED  BY <1>0, <1>3, <1>4, <1>5, <1>6, <1>7, <1>8, <1>9, QuietStep

(* A checkpoint under way. *)
LEMMA Checkpointing ==
  ASSUME NEW h \in Seq(Record), IInv(h), kpc # "idle"
  PROVE  /\ status = "up"
         /\ Freezing => /\ cpc = "idle" /\ ~failed /\ ~Written
                        /\ frozen.sequence = Len(h) /\ Len(db) = Len(h) /\ Len(mem) = Len(h)
         /\ Copied => /\ frozen.sequence \in 0..Len(h) /\ frozen.sequence <= Len(db)
                      /\ frozen = StateAt(h, frozen.sequence)
<1>1. TypeOK /\ HistoryInv(h) /\ ProcessInv(h) /\ CheckpointInv(h)
  BY DEF IInv
<1>2. status = "up"
  BY <1>1 DEF ProcessInv, TypeOK
<1>3. Freezing => cpc = "idle" /\ ~failed /\ ~Written
  BY <1>1 DEF ProcessInv, CheckpointInv, Written
<1>4. Freezing => frozen.sequence = Len(h) /\ Len(db) = Len(h) /\ Len(mem) = Len(h)
  BY <1>1, <1>2, <1>3 DEF ProcessInv, CheckpointInv
<1>5. Len(h) \in Nat /\ Len(db) \in Nat /\ Len(mem) \in Nat /\ Len(db) <= Len(h) /\ Len(mem) <= Len(db)
  BY <1>1, Numbers DEF HistoryInv
<1>6. frozen.sequence \in Nat
  BY <1>1, WalAssumption DEF TypeOK, State
<1>7. Copied => frozen.sequence <= Len(mem) /\ frozen = StateAt(h, frozen.sequence)
  BY <1>1 DEF CheckpointInv
<1>. QED  BY <1>2, <1>3, <1>4, <1>5, <1>6, <1>7

(* freezeCheckpoint copies the state; without a leftover segment the log is
   fsynced and closed. *)
LEMMA FreezeFacts ==
  ASSUME NEW h \in Seq(Record), IInv(h), Freeze
  PROVE  /\ status = "up" /\ cpc = "idle" /\ kpc = "idle" /\ ~failed /\ WalNamed /\ ~Written
         /\ kpc' \in {"frozen", "closed"} /\ walFile' \in {None, walFile}
         /\ UNCHANGED <<dir, ddir, pending, status, mem, sequence, failed, cpc, db, acked,
                        issued, faults, errors>>
         /\ frozen' \in State /\ frozen'.sequence = Len(mem)
         /\ Len(mem) = Len(h) /\ Len(db) = Len(h)
         /\ HistoryInv(h)' /\ ProcessInv(h)' /\ CheckpointInv(h)' /\ TmpInv'
<1>0. /\ UNCHANGED <<dir, ddir, pending, status, mem, sequence, failed, cpc, db, acked,
                     issued, faults, errors>>
      /\ status = "up" /\ cpc = "idle" /\ kpc = "idle" /\ ~failed /\ ~Freezing
      /\ frozen' = CopiedState
      /\ kpc' \in {"frozen", "closed"} /\ walFile' \in {None, walFile}
      /\ kpc' = "closed" => walFile' = None /\ dir["previous"] = None
  BY DEF Freeze, CanFreeze, Unlocked, Leftover
<1>1. /\ TypeOK /\ HistoryInv(h) /\ ProcessInv(h)
  BY DEF IInv
<1>2. WalNamed /\ ~Written
  BY <1>0 DEF WalNamed, Written
<1>3. sequence = Len(mem) /\ Len(mem) = Len(h) /\ Len(db) = Len(h) /\ Len(h) \in Nat
  BY <1>0, <1>1, <1>2 DEF ProcessInv
<1>4. /\ frozen' \in State /\ frozen'.sequence = Len(mem)
      /\ frozen' = StateAt(h, Len(mem))
  <2>1. mem = SubSeq(h, 1, Len(mem))
    BY <1>1 DEF HistoryInv
  <2>2. CopiedState = [sequence |-> Len(mem), applied |-> mem]
    BY <1>3 DEF CopiedState
  <2>3. CopiedState = StateAt(h, Len(mem))
    BY <2>1, <2>2 DEF StateAt
  <2>4. CopiedState \in State
    BY <1>1 DEF TypeOK, CopiedState, State
  <2>. QED  BY <1>0, <2>2, <2>3, <2>4
<1>5. HistoryInv(h)'
  BY <1>0, <1>1 DEF HistoryInv
<1>6. ProcessInv(h)'
  BY <1>0, <1>1, <1>3 DEF ProcessInv, Freezing, Written
<1>7. CheckpointInv(h)'
  BY <1>0, <1>3, <1>4 DEF CheckpointInv, Copied, Freezing
<1>8. TmpInv'
  BY <1>0 DEF TmpInv
<1>. QED  BY <1>0, <1>2, <1>3, <1>4, <1>5, <1>6, <1>7, <1>8

(* The checkpoint copies the state and, without a leftover segment, syncs and
   closes the log. *)
LEMMA FreezeStep ==
  ASSUME NEW h \in Seq(Record), IInv(h), Freeze
  PROVE  IInv(h)'
<1>0. /\ status = "up" /\ cpc = "idle" /\ kpc = "idle" /\ ~failed /\ WalNamed /\ ~Written
      /\ kpc' \in {"frozen", "closed"} /\ walFile' \in {None, walFile}
      /\ UNCHANGED <<dir, ddir, pending, status, mem, sequence, failed, cpc, db, acked,
                     issued, faults, errors>>
      /\ frozen' \in State /\ frozen'.sequence = Len(mem)
      /\ Len(mem) = Len(h) /\ Len(db) = Len(h)
      /\ HistoryInv(h)' /\ ProcessInv(h)' /\ CheckpointInv(h)' /\ TmpInv'
  BY FreezeFacts
<1>1. TypeOK /\ DirsInv /\ ViewsInv(h)
  BY DEF IInv
<1>2. WalNamed'
  BY <1>0 DEF WalNamed
<1>3. CASE disk' = disk
  <2>1. UNCHANGED filesystem
    BY <1>0, <1>3 DEF filesystem
  <2>2. TypeOK'
    BY <1>0, <1>1, <1>3 DEF TypeOK
  <2>3. \A v \in PossibleViews : ViewInv(v, h)'
    <3>. TAKE v \in PossibleViews
    <3>1. ViewInv(v, h)
      BY <1>1 DEF ViewsInv
    <3>2. PreviousAt(v) <= frozen'.sequence
      BY <1>0, <3>1 DEF ViewInv
    <3>. QED  BY <1>0, <3>1, <3>2 DEF ViewInv, Copied, PowerFails, Safe, Unsettled
  <2>. QED  BY <1>0, <2>1, <2>2, <2>3, QuietStep
<1>4. CASE disk' # disk
  <2>1. walFile # None /\ disk' = [disk EXCEPT ![walFile] = Flushed(disk[walFile])]
    BY <1>4 DEF Freeze
  <2>2. /\ PossibleDirs' = PossibleDirs
        /\ \A v \in PossibleViews' : \E u \in PossibleViews :
             /\ Tells(v, h) /\ SnapshotAt(v) = SnapshotAt(u) /\ PreviousAt(v) = PreviousAt(u)
             /\ Log(v) = Log(u) /\ v.wal.data = u.wal.data /\ v.previous = u.previous
             /\ Settled(v.wal)
        /\ disk' \in [Inodes -> [data : Seq(Item), synced : Nat]]
        /\ \A j \in Inodes : disk'[j].synced <= Len(disk'[j].data)
    BY <1>0, <2>1, FlushedLog
  <2>3. TypeOK'
    BY <1>0, <1>1, <2>2 DEF TypeOK
  <2>4. DirsInv'
    BY <1>0, <1>1, <2>2 DEF DirsInv, TmpApart
  <2>5. ASSUME NEW v \in PossibleViews'  PROVE ViewInv(v, h)'
    <3>1. PICK u \in PossibleViews :
             /\ Tells(v, h) /\ SnapshotAt(v) = SnapshotAt(u) /\ PreviousAt(v) = PreviousAt(u)
             /\ Log(v) = Log(u) /\ v.wal.data = u.wal.data /\ v.previous = u.previous
             /\ Settled(v.wal)
      BY <2>2
    <3>2. ViewInv(u, h)
      BY <1>1 DEF ViewsInv
    <3>3. PreviousAt(v) <= frozen'.sequence
      BY <1>0, <3>1, <3>2 DEF ViewInv
    <3>. QED  BY <1>0, <3>1, <3>2, <3>3 DEF ViewInv, Copied, PowerFails, Safe
  <2>6. ViewsInv(h)'
    BY <1>0, <2>5 DEF ViewsInv
  <2>. QED  BY <1>0, <2>3, <2>4, <2>6 DEF IInv
<1>. QED  BY <1>3, <1>4

(* The log is rotated. *)
LEMMA RenameWalStep ==
  ASSUME NEW h \in Seq(Record), IInv(h), RenameWal
  PROVE  IInv(h)'
<1>0. /\ kpc = "closed" /\ kpc' = "renamed"
      /\ UNCHANGED <<disk, status, mem, sequence, failed, walFile, cpc, frozen, db, acked,
                     issued, faults, errors>>
  BY DEF RenameWal
<1>1. /\ TypeOK /\ DirsInv /\ TmpInv /\ ViewsInv(h) /\ HistoryInv(h) /\ ProcessInv(h) /\ CheckpointInv(h)
  BY DEF IInv
<1>2. /\ status = "up" /\ cpc = "idle" /\ ~failed /\ ~Written
      /\ frozen.sequence = Len(h) /\ Len(db) = Len(h) /\ Len(h) \in Nat
  BY <1>0, Checkpointing DEF Freezing
<1>3. walFile = None /\ dir["previous"] = None /\ WalNamed
  BY <1>0, <1>1, <1>2 DEF CheckpointInv, WalNamed
<1>4. HistoryInv(h)'
  BY <1>0, <1>1 DEF HistoryInv
<1>5. ProcessInv(h)'
  BY <1>0, <1>1, <1>2 DEF ProcessInv, Freezing, Written
<1>6. CheckpointInv(h)'
  BY <1>0, <1>1, <1>3 DEF CheckpointInv, Copied, Freezing
<1>7. TmpInv'
  BY <1>0 DEF TmpInv
<1>8. ~WalNamed'
  BY <1>0 DEF WalNamed
<1>9. CASE dir["wal"] = None
  <2>1. UNCHANGED filesystem /\ dir' = dir /\ ddir' = ddir /\ pending' = pending
    BY <1>0, <1>9 DEF RenameWal, filesystem
  <2>2. TypeOK'
    BY <1>0, <1>1, <2>1 DEF TypeOK
  <2>3. \A v \in PossibleViews : ViewInv(v, h)'
    <3>1. \A v \in PossibleViews : ViewInv(v, h)
      BY <1>1 DEF ViewsInv
    <3>. QED  BY <1>0, <2>1, <3>1 DEF ViewInv, Copied, PowerFails, Safe, Unsettled
  <2>. QED  BY <1>0, <1>4, <1>5, <1>6, <1>7, <1>8, <2>1, <2>2, <2>3, QuietStep
<1>10. CASE dir["wal"] # None
  <2>1. DirectoryOp(Renamed("wal", "previous"))
    BY <1>10 DEF RenameWal
  <2>2. /\ dir' \in PossibleDirs' /\ dir' \in Directory /\ pending' \in Seq(Operation)
        /\ dir'["previous"] = dir["wal"]
        /\ \A d \in PossibleDirs' : Injective(d) /\ TmpApart(d)'
        /\ \A v \in PossibleViews' : v \in PossibleViews \/ \E u \in PossibleViews : v = Rotated(u)
    BY <1>0, <1>1, <1>3, <1>10, <2>1, ViewsAfterRotation
  <2>3. TypeOK'
    <3>1. ddir' = ddir
      BY <2>1 DEF DirectoryOp
    <3>. QED  BY <1>0, <1>1, <1>3, <2>2, <3>1 DEF TypeOK
  <2>4. DirsInv'
    BY <1>0, <1>2, <1>8, <2>2 DEF DirsInv
  <2>5. ASSUME NEW u \in PossibleViews  PROVE ViewInv(u, h)' /\ ViewInv(Rotated(u), h)'
    <3>1. ViewInv(u, h)
      BY <1>1 DEF ViewsInv
    <3>2. ViewInv(u, h)'
      BY <1>0, <1>10, <2>2, <3>1 DEF ViewInv, Copied, PowerFails, Safe, Unsettled
    <3>3. Tells(u, h) /\ Log(u) = u.wal.data /\ PreviousAt(u) = SnapshotAt(u)
      BY <1>2, <1>3, <3>1 DEF ViewInv
    <3>4. PICK v : v = Rotated(u)
      OBVIOUS
    <3>5. Tells(v, h) /\ PreviousAt(v) = Len(h) /\ Log(v) = v.wal.data
      BY <1>1, <3>3, <3>4, RotatedTells DEF HistoryInv
    <3>6. v.wal = Emptied /\ v.previous = u.wal
      BY <3>4 DEF Rotated
    <3>7. Settled(v.wal)
      BY <3>6 DEF Settled, Emptied
    <3>8. PowerFails => Settled(v.previous)
      BY <1>2, <3>6, SettledLog
    <3>9. ViewInv(v, h)'
      BY <1>0, <1>2, <1>10, <2>2, <3>5, <3>7, <3>8 DEF ViewInv, Copied, PowerFails, Safe
    <3>. QED  BY <3>2, <3>4, <3>9
  <2>6. ViewsInv(h)'
    BY <1>0, <2>2, <2>5 DEF ViewsInv
  <2>. QED  BY <1>4, <1>5, <1>6, <1>7, <2>3, <2>4, <2>6 DEF IInv
<1>. QED  BY <1>9, <1>10

(* The name of the previous segment becomes durable. *)
LEMMA SyncRenamedStep ==
  ASSUME NEW h \in Seq(Record), IInv(h), SyncRenamed
  PROVE  IInv(h)'
<1>0. /\ kpc = "renamed" /\ kpc' = "segmented" /\ SyncDirectory
      /\ UNCHANGED <<status, mem, sequence, failed, walFile, cpc, frozen, db, acked, issued, faults, errors>>
  BY DEF SyncRenamed
<1>1. TypeOK /\ ProcessInv(h) /\ CheckpointInv(h)
  BY DEF IInv
<1>2. ProcessInv(h)'
  BY <1>0, <1>1 DEF ProcessInv, Freezing, Written, CurrentRecord
<1>3. CheckpointInv(h)'
  BY <1>0, <1>1 DEF CheckpointInv, Copied, Freezing
<1>4. Copied
  BY <1>0 DEF Copied
<1>5. cpc' \in {"idle", "open", "opened", "write", "written", "synced"}
  BY <1>0, <1>1 DEF TypeOK
<1>. QED  BY <1>0, <1>2, <1>3, <1>4, <1>5, SyncStep

(* The new log is created. *)
LEMMA CreateWalStep ==
  ASSUME NEW h \in Seq(Record), IInv(h), CreateWal
  PROVE  IInv(h)'
<1>0. /\ kpc = "segmented" /\ kpc' = "created" /\ dir["wal"] = None /\ HasInode
      /\ walFile' = FreshInode /\ disk' = [disk EXCEPT ![FreshInode] = Emptied]
      /\ DirectoryOp(Linked("wal", FreshInode))
      /\ UNCHANGED <<status, mem, sequence, failed, cpc, frozen, db, acked, issued, faults, errors>>
  BY DEF CreateWal
<1>1. /\ TypeOK /\ DirsInv /\ TmpInv /\ ViewsInv(h) /\ HistoryInv(h) /\ ProcessInv(h) /\ CheckpointInv(h)
  BY DEF IInv
<1>2. status = "up" /\ cpc = "idle" /\ ~failed /\ ~Written
  BY <1>0, Checkpointing DEF Freezing
<1>3. \A d \in PossibleDirs : d["wal"] = None
  BY <1>0, <1>1, <1>2 DEF DirsInv, WalNamed
<1>4. /\ FreshInode \in Inodes /\ FreshInode # None
      /\ dir' \in PossibleDirs' /\ dir' \in Directory /\ pending' \in Seq(Operation)
      /\ \A m \in Names : dir'[m] = IF m = "wal" THEN FreshInode ELSE dir[m]
      /\ \A d \in PossibleDirs' : Injective(d) /\ TmpApart(d)'
      /\ PossibleViews' \subseteq PossibleViews
      /\ View(disk, dir)' = View(disk, dir)
  BY <1>0, <1>1, <1>3, ViewsAfterLink
<1>5. dir'["wal"] = FreshInode /\ dir'["previous"] = dir["previous"]
  BY <1>4 DEF Names
<1>6. TypeOK'
  <2>1. /\ disk' \in [Inodes -> [data : Seq(Item), synced : Nat]]
        /\ \A i \in Inodes : disk'[i].synced <= Len(disk'[i].data)
    BY <1>0, <1>1, <1>4, EmptiedFile
  <2>2. ddir' = ddir
    BY <1>0 DEF DirectoryOp
  <2>. QED  BY <1>0, <1>1, <1>4, <1>5, <2>1, <2>2 DEF TypeOK
<1>7. DirsInv'
  <2>1. ~WalNamed'
    BY <1>0 DEF WalNamed
  <2>. QED  BY <1>0, <1>2, <1>4, <2>1 DEF DirsInv
<1>8. TmpInv'
  BY <1>0 DEF TmpInv
<1>9. \A v \in PossibleViews : ViewInv(v, h)'
  <2>1. \A v \in PossibleViews : ViewInv(v, h)
    BY <1>1 DEF ViewsInv
  <2>. QED  BY <1>0, <1>5, <2>1 DEF ViewInv, Copied, PowerFails, Safe, Unsettled
<1>10. ViewsInv(h)'
  BY <1>0, <1>4, <1>9 DEF ViewsInv
<1>11. HistoryInv(h)'
  BY <1>0, <1>1 DEF HistoryInv
<1>12. ProcessInv(h)'
  BY <1>0, <1>1, <1>2 DEF ProcessInv, Freezing, Written
<1>13. CheckpointInv(h)'
  BY <1>0, <1>1 DEF CheckpointInv, Copied, Freezing
<1>. QED  BY <1>6, <1>7, <1>8, <1>10, <1>11, <1>12, <1>13 DEF IInv

(* The name of the new log becomes durable. *)
LEMMA SyncCreatedStep ==
  ASSUME NEW h \in Seq(Record), IInv(h), SyncCreated
  PROVE  IInv(h)'
<1>0. /\ kpc = "created" /\ kpc' = "frozen" /\ SyncDirectory
      /\ UNCHANGED <<status, mem, sequence, failed, walFile, cpc, frozen, db, acked, issued, faults, errors>>
  BY DEF SyncCreated
<1>1. TypeOK /\ ProcessInv(h) /\ CheckpointInv(h)
  BY DEF IInv
<1>2. ProcessInv(h)'
  BY <1>0, <1>1 DEF ProcessInv, Freezing, Written, CurrentRecord
<1>3. CheckpointInv(h)'
  BY <1>0, <1>1 DEF CheckpointInv, Copied, Freezing
<1>4. Copied
  BY <1>0 DEF Copied
<1>5. cpc' \in {"idle", "open", "opened", "write", "written", "synced"}
  BY <1>0, <1>1 DEF TypeOK
<1>. QED  BY <1>0, <1>2, <1>3, <1>4, <1>5, SyncStep

(* writeSnapshot changes the file of tmp. *)
LEMMA TmpStep ==
  ASSUME NEW h \in Seq(Record), IInv(h), dir["tmp"] # None,
         NEW x \in [data : Seq(Item), synced : Nat], x.synced <= Len(x.data),
         disk' = [disk EXCEPT ![dir["tmp"]] = x],
         UNCHANGED <<dir, ddir, pending, status, mem, sequence, failed, walFile, cpc, db, acked,
                     issued, faults>>,
         kpc \in {"frozen", "opened", "encoded"}, frozen' \in State, errors' \in 0..MaxErrors,
         \/ kpc' = "idle"
         \/ frozen' = frozen /\ \/ kpc' = "opened" /\ x = Emptied
                                \/ kpc' = "encoded" /\ x.data = <<frozen>>
                                \/ kpc' = "flushed" /\ x = [data |-> <<frozen>>, synced |-> 1]
  PROVE  IInv(h)'
<1>1. /\ TypeOK /\ DirsInv /\ ViewsInv(h) /\ HistoryInv(h) /\ ProcessInv(h) /\ CheckpointInv(h)
  BY DEF IInv
<1>2. /\ PossibleDirs' = PossibleDirs /\ PossibleViews' = PossibleViews
      /\ dir["tmp"] \in Inodes /\ disk'[dir["tmp"]] = x
  BY <1>1, ViewsAfterTmp
<1>3. /\ kpc' \in {"idle", "opened", "encoded", "flushed"}
      /\ Copied /\ (kpc' # "idle" => frozen' = frozen)
  BY DEF Copied
<1>4. TypeOK'
  <2>1. /\ disk' \in [Inodes -> [data : Seq(Item), synced : Nat]]
        /\ \A j \in Inodes : disk'[j].synced <= Len(disk'[j].data)
    <3>1. PICK i : i = dir["tmp"]
      OBVIOUS
    <3>2. i \in Inodes /\ disk' = [disk EXCEPT ![i] = x]
      BY <1>2, <3>1
    <3>. QED  BY <1>1, <3>2, ChangedFile
  <2>. QED  BY <1>1, <1>3, <2>1 DEF TypeOK
<1>5. DirsInv'
  <2>1. WalNamed' => WalNamed
    BY DEF WalNamed
  <2>2. status' = "down" => status = "down"
    OBVIOUS
  <2>. QED  BY <1>1, <1>2, <2>1, <2>2 DEF DirsInv, TmpApart
<1>6. TmpInv'
  <2>1. dir'["tmp"] = dir["tmp"] /\ disk'[dir'["tmp"]] = x
    BY <1>2
  <2>. QED  BY <1>3, <2>1 DEF TmpInv
<1>7. \A v \in PossibleViews : ViewInv(v, h)'
  <2>1. \A v \in PossibleViews : ViewInv(v, h)
    BY <1>1 DEF ViewsInv
  <2>2. Copied' => frozen' = frozen
    BY <1>3 DEF Copied
  <2>. QED  BY <1>3, <2>1, <2>2 DEF ViewInv, PowerFails, Safe, Unsettled
<1>8. ViewsInv(h)'
  BY <1>2, <1>3, <1>7 DEF ViewsInv
<1>9. HistoryInv(h)'
  BY <1>1 DEF HistoryInv
<1>10. ProcessInv(h)'
  BY <1>1, <1>3 DEF ProcessInv, Freezing, Written, CurrentRecord
<1>11. CheckpointInv(h)'
  BY <1>1, <1>3 DEF CheckpointInv, Copied, Freezing
<1>. QED  BY <1>4, <1>5, <1>6, <1>8, <1>9, <1>10, <1>11 DEF IInv

(* tmp is opened: a new file, or the one there is, emptied. *)
LEMMA OpenTmpStep ==
  ASSUME NEW h \in Seq(Record), IInv(h), OpenTmp
  PROVE  IInv(h)'
<1>0. /\ kpc = "frozen" /\ kpc' = "opened"
      /\ UNCHANGED <<status, mem, sequence, failed, walFile, cpc, frozen, db, acked, issued,
                     faults, errors>>
  BY DEF OpenTmp
<1>1. /\ TypeOK /\ DirsInv /\ ViewsInv(h) /\ HistoryInv(h) /\ ProcessInv(h) /\ CheckpointInv(h)
  BY DEF IInv
<1>2. CASE dir["tmp"] # None
  <2>1. disk' = [disk EXCEPT ![dir["tmp"]] = Emptied] /\ UNCHANGED <<dir, ddir, pending>>
    BY <1>2 DEF OpenTmp
  <2>2. PICK x : x = Emptied
    OBVIOUS
  <2>3. x \in [data : Seq(Item), synced : Nat] /\ x.synced <= Len(x.data)
    BY <2>2 DEF Emptied
  <2>4. frozen' \in State /\ errors' \in 0..MaxErrors
    BY <1>0, <1>1 DEF TypeOK
  <2>5. disk' = [disk EXCEPT ![dir["tmp"]] = x]
    BY <2>1, <2>2
  <2>. QED  BY <1>0, <1>2, <2>1, <2>2, <2>3, <2>4, <2>5, TmpStep
<1>3. CASE dir["tmp"] = None
  <2>0. /\ HasInode /\ disk' = [disk EXCEPT ![FreshInode] = Emptied]
        /\ DirectoryOp(Linked("tmp", FreshInode))
    BY <1>3 DEF OpenTmp
  <2>1. /\ FreshInode \in Inodes /\ FreshInode # None
        /\ dir' \in PossibleDirs' /\ dir' \in Directory /\ pending' \in Seq(Operation)
        /\ \A m \in Names : dir'[m] = IF m = "tmp" THEN FreshInode ELSE dir[m]
        /\ \A d \in PossibleDirs' : Injective(d) /\ TmpApart(d)'
        /\ \A d \in PossibleDirs' : \E e \in PossibleDirs : \A m \in Names \ {"tmp"} : d[m] = e[m]
        /\ PossibleViews' \subseteq PossibleViews
        /\ View(disk, dir)' = View(disk, dir)
    BY <1>1, <1>3, <2>0, ViewsAfterLink
  <2>2. dir'["tmp"] = FreshInode /\ dir'["wal"] = dir["wal"] /\ dir'["previous"] = dir["previous"]
    BY <2>1 DEF Names
  <2>3. TypeOK'
    <3>1. /\ disk' \in [Inodes -> [data : Seq(Item), synced : Nat]]
          /\ \A i \in Inodes : disk'[i].synced <= Len(disk'[i].data)
      BY <1>1, <2>0, <2>1, EmptiedFile
    <3>2. ddir' = ddir
      BY <2>0 DEF DirectoryOp
    <3>. QED  BY <1>0, <1>1, <2>1, <2>2, <3>1, <3>2 DEF TypeOK
  <2>4. DirsInv'
    <3>1. WalNamed' => \A d \in PossibleDirs' : d["wal"] = dir'["wal"]
      <4>. SUFFICES ASSUME WalNamed'  PROVE \A d \in PossibleDirs' : d["wal"] = dir'["wal"]
        OBVIOUS
      <4>1. WalNamed
        BY <1>0 DEF WalNamed
      <4>2. \A e \in PossibleDirs : e["wal"] = dir["wal"]
        BY <1>1, <4>1 DEF DirsInv
      <4>3. "wal" \in Names \ {"tmp"}
        BY DEF Names
      <4>4. \A d \in PossibleDirs' : \E e \in PossibleDirs : d["wal"] = e["wal"]
        BY <2>1, <4>3
      <4>. QED  BY <2>2, <4>2, <4>4
    <3>2. status' # "down"
      BY <1>0, Checkpointing
    <3>. QED  BY <2>1, <3>1, <3>2 DEF DirsInv
  <2>5. TmpInv'
    <3>1. disk'[FreshInode] = Emptied
      BY <1>1, <2>0, <2>1 DEF TypeOK
    <3>. QED  BY <1>0, <2>1, <2>2, <3>1 DEF TmpInv
  <2>6. \A v \in PossibleViews : ViewInv(v, h)'
    <3>1. \A v \in PossibleViews : ViewInv(v, h)
      BY <1>1 DEF ViewsInv
    <3>. QED  BY <1>0, <2>2, <3>1 DEF ViewInv, Copied, PowerFails, Safe, Unsettled
  <2>7. ViewsInv(h)'
    BY <1>0, <2>1, <2>6 DEF ViewsInv
  <2>8. HistoryInv(h)'
    BY <1>0, <1>1 DEF HistoryInv
  <2>9. ProcessInv(h)'
    BY <1>0, <1>1 DEF ProcessInv, Freezing, Written, CurrentRecord
  <2>10. CheckpointInv(h)'
    BY <1>0, <1>1 DEF CheckpointInv, Copied, Freezing
  <2>. QED  BY <2>3, <2>4, <2>5, <2>7, <2>8, <2>9, <2>10 DEF IInv
<1>. QED  BY <1>2, <1>3

(* The copy is encoded into tmp, which is then fsynced. *)
LEMMA EncodeTmpStep ==
  ASSUME NEW h \in Seq(Record), IInv(h), EncodeTmp
  PROVE  IInv(h)'
<1>0. /\ kpc = "opened" /\ kpc' = "encoded" /\ UNCHANGED <<dir, ddir, pending>>
      /\ disk' = [disk EXCEPT ![dir["tmp"]] = Appended(disk[dir["tmp"]], frozen)]
      /\ UNCHANGED <<status, mem, sequence, failed, walFile, cpc, frozen, db, acked, issued,
                     faults, errors>>
  BY DEF EncodeTmp
<1>1. TypeOK /\ dir["tmp"] # None /\ disk[dir["tmp"]] = Emptied
  BY <1>0 DEF IInv, TmpInv
<1>2. PICK x : x = [data |-> <<frozen>>, synced |-> 0]
  OBVIOUS
<1>3. x \in [data : Seq(Item), synced : Nat] /\ x.synced <= Len(x.data) /\ x.data = <<frozen>>
  BY <1>1, <1>2 DEF TypeOK, Item
<1>4. Appended(Emptied, frozen) = x
  BY <1>2 DEF Appended, Emptied
<1>5. disk' = [disk EXCEPT ![dir["tmp"]] = x]
  BY <1>0, <1>1, <1>4
<1>6. frozen' \in State /\ errors' \in 0..MaxErrors
  BY <1>0, <1>1 DEF TypeOK
<1>. QED  BY <1>0, <1>1, <1>3, <1>5, <1>6, TmpStep

(* The encoded snapshot is fsynced under its temporary name. *)
LEMMA SyncTmpStep ==
  ASSUME NEW h \in Seq(Record), IInv(h), SyncTmp
  PROVE  IInv(h)'
<1>0. /\ kpc = "encoded" /\ kpc' = "flushed" /\ UNCHANGED <<dir, ddir, pending>>
      /\ disk' = [disk EXCEPT ![dir["tmp"]] = Flushed(disk[dir["tmp"]])]
      /\ UNCHANGED <<status, mem, sequence, failed, walFile, cpc, frozen, db, acked, issued,
                     faults, errors>>
  BY DEF SyncTmp
<1>1. TypeOK /\ dir["tmp"] # None /\ disk[dir["tmp"]].data = <<frozen>>
  BY <1>0 DEF IInv, TmpInv
<1>2. PICK x : x = [data |-> <<frozen>>, synced |-> 1]
  OBVIOUS
<1>3. x \in [data : Seq(Item), synced : Nat] /\ x.synced <= Len(x.data)
  BY <1>1, <1>2 DEF TypeOK, Item
<1>4. Flushed(disk[dir["tmp"]]) = x
  <2>1. PICK file : file = disk[dir["tmp"]]
    OBVIOUS
  <2>2. dir["tmp"] \in Inodes
    BY <1>1 DEF TypeOK, Directory, Names
  <2>3. file \in [data : Seq(Item), synced : Nat] /\ file.data = <<frozen>>
    BY <1>1, <2>1, <2>2 DEF TypeOK
  <2>4. Flushed(file) = x
    BY <1>2, <2>3 DEF Flushed
  <2>. QED  BY <2>1, <2>4
<1>5. disk' = [disk EXCEPT ![dir["tmp"]] = x]
  BY <1>0, <1>4
<1>6. frozen' \in State /\ errors' \in 0..MaxErrors
  BY <1>0, <1>1 DEF TypeOK
<1>. QED  BY <1>0, <1>1, <1>2, <1>3, <1>5, <1>6, TmpStep

(* tmp becomes the snapshot. *)
LEMMA RenameSnapshotStep ==
  ASSUME NEW h \in Seq(Record), IInv(h), RenameSnapshot
  PROVE  IInv(h)'
<1>0. /\ kpc = "flushed" /\ kpc' = "renamedSnapshot" /\ DirectoryOp(Renamed("tmp", "snapshot"))
      /\ UNCHANGED <<disk, status, mem, sequence, failed, walFile, cpc, frozen, db, acked,
                     issued, faults, errors>>
  BY DEF RenameSnapshot
<1>1. /\ TypeOK /\ DirsInv /\ TmpInv /\ ViewsInv(h) /\ HistoryInv(h) /\ ProcessInv(h) /\ CheckpointInv(h)
  BY DEF IInv
<1>2. Copied
  BY <1>0 DEF Copied
<1>3. /\ status = "up" /\ frozen.sequence \in 0..Len(h) /\ frozen.sequence <= Len(db)
      /\ frozen = StateAt(h, frozen.sequence)
  BY <1>0, <1>2, Checkpointing
<1>4. PICK m, file : m = frozen.sequence /\ file = [data |-> <<StateAt(h, m)>>, synced |-> 1]
  OBVIOUS
<1>5. dir["tmp"] # None /\ disk[dir["tmp"]] = file
  BY <1>0, <1>1, <1>3, <1>4 DEF TmpInv
<1>6. /\ dir' \in PossibleDirs' /\ dir' \in Directory /\ pending' \in Seq(Operation)
      /\ dir'["previous"] = dir["previous"] /\ dir'["wal"] = dir["wal"]
      /\ \A d \in PossibleDirs' : Injective(d) /\ TmpApart(d)'
      /\ \A d \in PossibleDirs' : \E e \in PossibleDirs : d["wal"] = e["wal"]
      /\ \A v \in PossibleViews' : v \in PossibleViews \/ \E u \in PossibleViews : v = Published(u, file)
      /\ View(disk, dir)' = Published(View(disk, dir), file)
  BY <1>0, <1>1, <1>5, ViewsAfterPublication
<1>7. TypeOK'
  <2>1. ddir' = ddir
    BY <1>0 DEF DirectoryOp
  <2>. QED  BY <1>0, <1>1, <1>6, <2>1 DEF TypeOK
<1>8. DirsInv'
  <2>1. WalNamed' => WalNamed
    BY <1>0 DEF WalNamed
  <2>2. WalNamed => \A e \in PossibleDirs : e["wal"] = dir["wal"]
    BY <1>1 DEF DirsInv
  <2>. QED  BY <1>0, <1>3, <1>6, <2>1, <2>2 DEF DirsInv
<1>9. TmpInv'
  BY <1>0 DEF TmpInv
<1>10. ASSUME NEW u \in PossibleViews
       PROVE  /\ ViewInv(u, h)' /\ ViewInv(Published(u, file), h)'
              /\ SnapshotAt(Published(u, file)) = m
  <2>1. ViewInv(u, h)
    BY <1>1 DEF ViewsInv
  <2>2. ViewInv(u, h)'
    BY <1>0, <1>6, <2>1 DEF ViewInv, Copied, PowerFails, Safe, Unsettled
  <2>3. Tells(u, h) /\ PreviousAt(u) <= m /\ m \in 0..Len(h) /\ Gapless(h)
    BY <1>1, <1>2, <1>3, <1>4, <2>1 DEF ViewInv, HistoryInv
  <2>4. PICK v : v = Published(u, file)
    OBVIOUS
  <2>5. Tells(v, h) /\ SnapshotAt(v) = m /\ PreviousAt(v) = m /\ Log(v) = Log(u)
    BY <1>4, <2>3, <2>4, PublishedTells
  <2>6. v.wal = u.wal /\ v.previous = u.previous
    BY <2>4 DEF Published
  <2>7. (PowerFails => Safe(v, h))'
    BY <1>0, <2>1, <2>5, <2>6 DEF ViewInv, PowerFails, Safe, Unsettled
  <2>8. m <= Len(db') /\ m <= frozen'.sequence
    BY <1>0, <1>3, <1>4
  <2>9. ViewInv(v, h)'
    BY <1>0, <2>1, <2>5, <2>6, <2>7, <2>8 DEF ViewInv
  <2>. QED  BY <2>2, <2>4, <2>5, <2>9
<1>11. ViewsInv(h)'
  <2>1. \A v \in PossibleViews' : ViewInv(v, h)'
    BY <1>6, <1>10
  <2>2. View(disk, dir) \in PossibleViews
    BY Numbers
  <2>3. SnapshotAt(View(disk, dir)') = frozen'.sequence
    BY <1>0, <1>4, <1>6, <1>10, <2>2
  <2>. QED  BY <2>1, <2>3 DEF ViewsInv
<1>12. HistoryInv(h)'
  BY <1>0, <1>1 DEF HistoryInv
<1>13. ProcessInv(h)'
  BY <1>0, <1>1 DEF ProcessInv, Freezing, Written, CurrentRecord
<1>14. CheckpointInv(h)'
  BY <1>0, <1>1 DEF CheckpointInv, Copied, Freezing
<1>. QED  BY <1>7, <1>8, <1>9, <1>11, <1>12, <1>13, <1>14 DEF IInv

(* The name of the new snapshot becomes durable: no view is left with the old one. *)
LEMMA SyncSnapshotStep ==
  ASSUME NEW h \in Seq(Record), IInv(h), SyncSnapshot
  PROVE  IInv(h)'
<1>0. /\ kpc = "renamedSnapshot" /\ kpc' = "published" /\ SyncDirectory
      /\ UNCHANGED <<status, mem, sequence, failed, walFile, cpc, frozen, db, acked, issued, faults, errors>>
  BY DEF SyncSnapshot
<1>1. TypeOK /\ ProcessInv(h) /\ CheckpointInv(h)
  BY DEF IInv
<1>2. ProcessInv(h)'
  BY <1>0, <1>1 DEF ProcessInv, Freezing, Written, CurrentRecord
<1>3. CheckpointInv(h)'
  BY <1>0, <1>1 DEF CheckpointInv, Copied, Freezing
<1>4. Copied
  BY <1>0 DEF Copied
<1>5. cpc' \in {"idle", "open", "opened", "write", "written", "synced"}
  BY <1>0, <1>1 DEF TypeOK
<1>. QED  BY <1>0, <1>2, <1>3, <1>4, <1>5, SyncStep

(* The snapshot is published, so the previous segment goes. *)
LEMMA RemovePreviousStep ==
  ASSUME NEW h \in Seq(Record), IInv(h), RemovePrevious
  PROVE  IInv(h)'
<1>0. /\ kpc = "published" /\ kpc' \in {"idle", "removed"} /\ frozen' = InitialState
      /\ UNCHANGED <<disk, status, mem, sequence, failed, walFile, cpc, db, acked,
                     issued, faults, errors>>
  BY DEF RemovePrevious
<1>1. /\ TypeOK /\ DirsInv /\ ViewsInv(h) /\ HistoryInv(h) /\ ProcessInv(h) /\ CheckpointInv(h)
  BY DEF IInv
<1>2. status = "up" /\ Copied
  BY <1>0, Checkpointing DEF Copied
<1>3. frozen' \in State
  <2>1. 0 \in 0..MaxRecords /\ <<>> \in Seq(Record)
    BY WalAssumption
  <2>. QED  BY <1>0, <2>1 DEF InitialState, State
<1>4. HistoryInv(h)'
  BY <1>0, <1>1 DEF HistoryInv
<1>5. ProcessInv(h)'
  BY <1>0, <1>1 DEF ProcessInv, Freezing, Written, CurrentRecord
<1>6. CheckpointInv(h)'
  BY <1>0 DEF CheckpointInv, Copied, Freezing
<1>7. TmpInv'
  BY <1>0 DEF TmpInv
<1>8. WalNamed' => WalNamed
  BY <1>0 DEF WalNamed
<1>9. CASE UNCHANGED <<dir, ddir, pending>>
  <2>1. UNCHANGED filesystem
    BY <1>0, <1>9 DEF filesystem
  <2>2. TypeOK'
    BY <1>0, <1>1, <1>3, <1>9 DEF TypeOK
  <2>3. \A v \in PossibleViews : ViewInv(v, h)'
    <3>1. \A v \in PossibleViews : ViewInv(v, h)
      BY <1>1 DEF ViewsInv
    <3>. QED  BY <1>0, <1>9, <3>1 DEF ViewInv, Copied, PowerFails, Safe, Unsettled
  <2>. QED  BY <1>0, <1>2, <1>4, <1>5, <1>6, <1>7, <1>8, <2>1, <2>2, <2>3, QuietStep
<1>10. CASE ~UNCHANGED <<dir, ddir, pending>>
  <2>1. dir["previous"] # None /\ DirectoryOp(Unlinked("previous"))
    BY <1>10 DEF RemovePrevious
  <2>2. /\ dir' \in PossibleDirs' /\ dir' \in Directory /\ pending' \in Seq(Operation)
        /\ dir'["wal"] = dir["wal"]
        /\ \A d \in PossibleDirs' : Injective(d) /\ TmpApart(d)'
        /\ \A d \in PossibleDirs' : \E e \in PossibleDirs : d["wal"] = e["wal"]
        /\ \A v \in PossibleViews' : v \in PossibleViews \/ \E u \in PossibleViews : v = Dropped(u)
    BY <1>0, <1>1, <2>1, ViewsAfterRemoval
  <2>3. TypeOK'
    <3>1. ddir' = ddir
      BY <2>1 DEF DirectoryOp
    <3>. QED  BY <1>0, <1>1, <1>3, <2>2, <3>1 DEF TypeOK
  <2>4. DirsInv'
    <3>1. WalNamed => \A e \in PossibleDirs : e["wal"] = dir["wal"]
      BY <1>1 DEF DirsInv
    <3>. QED  BY <1>0, <1>2, <1>8, <2>2, <3>1 DEF DirsInv
  <2>5. ASSUME NEW u \in PossibleViews  PROVE ViewInv(u, h)' /\ ViewInv(Dropped(u), h)'
    <3>1. ViewInv(u, h)
      BY <1>1 DEF ViewsInv
    <3>2. /\ SnapshotAt(u) \in 0..Len(h) /\ PreviousAt(u) \in 0..Len(h)
          /\ SnapshotAt(u) <= PreviousAt(u) /\ Gapless(h)
      BY Numbers
    <3>3. PreviousAt(u) = SnapshotAt(u)
      BY <1>0, <1>2, <3>1, <3>2 DEF ViewInv
    <3>4. ViewInv(u, h)'
      BY <1>0, <3>1, <3>3 DEF ViewInv, Copied, PowerFails, Safe, Unsettled
    <3>5. PICK v : v = Dropped(u)
      OBVIOUS
    <3>6. Tells(v, h) /\ SnapshotAt(v) = SnapshotAt(u) /\ PreviousAt(v) = SnapshotAt(u) /\ Log(v) = Log(u)
      BY <3>1, <3>2, <3>3, <3>5, DroppedTells DEF ViewInv
    <3>7. v.wal = u.wal /\ v.previous = Emptied
      BY <3>5 DEF Dropped
    <3>8. Settled(v.previous)
      BY <3>7 DEF Settled, Emptied
    <3>9. (PowerFails => Safe(v, h))'
      BY <1>0, <3>1, <3>6, <3>7, <3>8 DEF ViewInv, PowerFails, Safe, Unsettled
    <3>10. ViewInv(v, h)'
      BY <1>0, <3>1, <3>3, <3>6, <3>7, <3>9 DEF ViewInv, Copied
    <3>. QED  BY <3>4, <3>5, <3>10
  <2>6. ViewsInv(h)'
    BY <1>0, <2>2, <2>5 DEF ViewsInv
  <2>. QED  BY <1>4, <1>5, <1>6, <1>7, <2>3, <2>4, <2>6 DEF IInv
<1>. QED  BY <1>9, <1>10

(* The removal of the previous segment becomes durable; the checkpoint ends. *)
LEMMA SyncRemovedStep ==
  ASSUME NEW h \in Seq(Record), IInv(h), SyncRemoved
  PROVE  IInv(h)'
<1>0. /\ kpc = "removed" /\ kpc' = "idle" /\ SyncDirectory
      /\ UNCHANGED <<status, mem, sequence, failed, walFile, cpc, frozen, db, acked, issued, faults, errors>>
  BY DEF SyncRemoved
<1>1. TypeOK /\ ProcessInv(h) /\ CheckpointInv(h)
  BY DEF IInv
<1>2. ProcessInv(h)'
  BY <1>0, <1>1 DEF ProcessInv, Freezing, Written, CurrentRecord
<1>3. CheckpointInv(h)'
  BY <1>0, <1>1 DEF CheckpointInv, Copied, Freezing
<1>4. ~Copied'
  BY <1>0 DEF Copied
<1>5. cpc' \in {"idle", "open", "opened", "write", "written", "synced"}
  BY <1>0, <1>1 DEF TypeOK
<1>. QED  BY <1>0, <1>2, <1>3, <1>4, <1>5, SyncStep

(* The checkpoint fails; a failed Encode leaves a piece of the copy in tmp. *)
LEMMA CheckpointErrorStep ==
  ASSUME NEW h \in Seq(Record), IInv(h), CheckpointError
  PROVE  IInv(h)'
<1>0. /\ kpc # "idle" /\ kpc' = "idle" /\ frozen' = InitialState
      /\ failed' = (failed \/ Freezing) /\ errors < MaxErrors /\ errors' = errors + 1
      /\ UNCHANGED <<dir, ddir, pending, status, mem, sequence, walFile, cpc, db, acked,
                     issued, faults>>
  BY DEF CheckpointError
<1>1. /\ TypeOK /\ DirsInv /\ TmpInv /\ ViewsInv(h) /\ HistoryInv(h) /\ ProcessInv(h) /\ CheckpointInv(h)
  BY DEF IInv
<1>2. status = "up" /\ (Freezing => cpc = "idle")
  BY <1>0, Checkpointing
<1>3. frozen' \in State /\ errors' \in 0..MaxErrors
  <2>1. 0 \in 0..MaxRecords /\ <<>> \in Seq(Record) /\ errors + 1 \in 0..MaxErrors
    BY <1>0, <1>1, WalAssumption DEF TypeOK
  <2>. QED  BY <1>0, <2>1 DEF InitialState, State
<1>4. CASE disk' = disk
  <2>1. UNCHANGED filesystem
    BY <1>0, <1>4 DEF filesystem
  <2>2. TypeOK'
    <3>1. failed' \in BOOLEAN
      BY <1>0, <1>1 DEF Freezing
    <3>. QED  BY <1>0, <1>1, <1>3, <1>4, <3>1 DEF TypeOK
  <2>3. \A v \in PossibleViews : ViewInv(v, h)'
    <3>1. \A v \in PossibleViews : ViewInv(v, h)
      BY <1>1 DEF ViewsInv
    <3>. QED  BY <1>0, <3>1 DEF ViewInv, Copied, PowerFails, Safe, Unsettled
  <2>4. HistoryInv(h)'
    BY <1>0, <1>1 DEF HistoryInv
  <2>5. ProcessInv(h)'
    BY <1>0, <1>1, <1>2 DEF ProcessInv, Freezing, Written, CurrentRecord
  <2>6. CheckpointInv(h)' /\ TmpInv'
    BY <1>0 DEF CheckpointInv, Copied, Freezing, TmpInv
  <2>7. WalNamed' => WalNamed
    BY <1>0 DEF WalNamed, Freezing
  <2>. QED  BY <1>0, <1>2, <2>1, <2>2, <2>3, <2>4, <2>5, <2>6, <2>7, QuietStep
<1>5. CASE disk' # disk
  <2>1. kpc = "opened" /\ disk' = [disk EXCEPT ![dir["tmp"]] = Appended(disk[dir["tmp"]], Torn)]
    BY <1>5 DEF CheckpointError
  <2>2. dir["tmp"] # None /\ disk[dir["tmp"]] = Emptied
    BY <1>1, <2>1 DEF TmpInv
  <2>3. PICK x : x = [data |-> <<Torn>>, synced |-> 0]
    OBVIOUS
  <2>4. x \in [data : Seq(Item), synced : Nat] /\ x.synced <= Len(x.data)
    BY <2>3 DEF Item
  <2>5. Appended(Emptied, Torn) = x
    BY <2>3 DEF Appended, Emptied
  <2>6. disk' = [disk EXCEPT ![dir["tmp"]] = x]
    BY <2>1, <2>2, <2>5
  <2>7. failed' = failed
    BY <1>0, <1>1, <2>1 DEF Freezing, TypeOK
  <2>. QED  BY <1>0, <1>3, <2>1, <2>2, <2>4, <2>6, <2>7, TmpStep
<1>. QED  BY <1>4, <1>5

(* What start-up projects, all of it or some. *)
LEMMA ReplayProjects ==
  ASSUME NEW h \in Seq(Record), IInv(h)
  PROVE  /\ ReplayReadable /\ ReplayedState.applied = h /\ ReplayedState.sequence = Len(h)
         /\ Projected(db, ReplayedRecords) = h
         /\ \A k \in 0..Len(ReplayedRecords) : \E n \in Len(db)..Len(h) :
              Projected(db, SubSeq(ReplayedRecords, 1, k)) = SubSeq(h, 1, n)
<1>1. TypeOK /\ Gapless(h) /\ Tells(View(disk, dir), h) /\ HistoryInv(h) /\ ViewInv(View(disk, dir), h)
  BY Numbers DEF IInv, ViewsInv
<1>2. PICK s, b, l : s = SnapshotAt(View(disk, dir)) /\ b = Len(db) /\ l = Len(h)
  OBVIOUS
<1>3. /\ ReplayReadable /\ ReplayedState.applied = h /\ ReplayedState.sequence = Len(h)
      /\ ReplayedRecords = SubSeq(h, s + 1, l)
  BY <1>1, <1>2, ReplayTells
<1>4. l \in Nat /\ b \in 0..l /\ s \in 0..b /\ db = SubSeq(h, 1, b)
  <2>1. /\ s \in 0..Len(h) /\ PreviousAt(View(disk, dir)) \in 0..Len(h)
        /\ s <= PreviousAt(View(disk, dir)) /\ Len(h) \in Nat /\ Len(db) \in Nat
    BY <1>2, Numbers
  <2>2. PreviousAt(View(disk, dir)) <= Len(db) /\ Len(db) <= Len(h) /\ db = SubSeq(h, 1, Len(db))
    BY <1>1 DEF ViewInv, HistoryInv
  <2>. QED  BY <1>2, <2>1, <2>2
<1>5. PICK r : r = ReplayedRecords
  OBVIOUS
<1>6. r \in Seq(Record) /\ Len(r) = l - s /\ r = SubSeq(h, s + 1, l)
  <2>1. s \in 0..Len(h) /\ l \in s..Len(h)
    BY <1>2, <1>4
  <2>. QED  BY <1>3, <1>5, <2>1, Parts
<1>7. ASSUME NEW k \in 0..Len(r)
      PROVE  \E n \in Len(db)..Len(h) : Projected(db, SubSeq(r, 1, k)) = SubSeq(h, 1, n)
  <2>1. PICK n : n = s + k
    OBVIOUS
  <2>2. n \in s..Len(h) /\ b \in 0..Len(h) /\ s \in 0..Len(h)
    <3>1. k \in 0..(l - s)
      BY <1>6
    <3>2. n \in s..l /\ b \in 0..l /\ s \in 0..l
      BY <1>4, <2>1, <3>1
    <3>. QED  BY <1>2, <3>2
  <2>3. SubSeq(r, 1, k) = SubSeq(h, s + 1, n)
    <3>1. /\ SubSeq(h, s + 1, n) \in Seq(Record) /\ Len(SubSeq(h, s + 1, n)) = n - s
          /\ \A j \in 1..(n - s) : SubSeq(h, s + 1, n)[j] = h[s + j]
      BY <2>2, Parts
    <3>2. /\ SubSeq(r, 1, k) \in Seq(Record) /\ Len(SubSeq(r, 1, k)) = k
          /\ \A j \in 1..k : SubSeq(r, 1, k)[j] = r[j]
      BY <1>6, Prefixes
    <3>3. \A j \in 1..(l - s) : r[j] = h[s + j]
      <4>1. l \in s..Len(h)
        BY <1>2, <1>4
      <4>. QED  BY <1>6, <2>2, <4>1, Parts
    <3>4. n - s = k /\ \A j \in 1..k : j \in 1..(l - s)
      BY <1>4, <1>6, <2>1
    <3>5. \A j \in 1..k : SubSeq(r, 1, k)[j] = SubSeq(h, s + 1, n)[j]
      BY <3>1, <3>2, <3>3, <3>4
    <3>. QED  BY <3>1, <3>2, <3>4, <3>5, SameElements
  <2>4. Projected(db, SubSeq(r, 1, k)) = SubSeq(h, 1, IF n <= b THEN b ELSE n)
    BY <1>1, <1>4, <2>2, <2>3, ProjectedPart
  <2>5. (IF n <= b THEN b ELSE n) \in Len(db)..Len(h)
    BY <1>2, <1>4, <2>2
  <2>. QED  BY <2>4, <2>5
<1>8. Projected(db, r) = h
  <2>1. l \in s..Len(h) /\ b \in 0..Len(h)
    BY <1>2, <1>4
  <2>2. Projected(db, r) = SubSeq(h, 1, IF l <= b THEN b ELSE l)
    BY <1>1, <1>4, <1>6, <2>1, ProjectedPart
  <2>3. (IF l <= b THEN b ELSE l) = Len(h)
    BY <1>2, <1>4
  <2>4. SubSeq(h, 1, Len(h)) = h
    BY SubSeqFull
  <2>. QED  BY <2>2, <2>3, <2>4
<1>. QED  BY <1>3, <1>5, <1>7, <1>8

(* Start-up ends early, with some records projected. *)
LEMMA StartErrorStep ==
  ASSUME NEW h \in Seq(Record), IInv(h), StartError
  PROVE  IInv(h)'
<1>0. /\ status = "down" /\ errors < MaxErrors /\ errors' = errors + 1
      /\ UNCHANGED filesystem
      /\ UNCHANGED <<disk, dir, ddir, pending, status, mem, sequence, failed, walFile, cpc, kpc,
                     frozen, acked, issued, faults>>
  BY DEF StartError, filesystem, process
<1>1. /\ TypeOK /\ TmpInv /\ ViewsInv(h) /\ HistoryInv(h) /\ ProcessInv(h) /\ CheckpointInv(h)
  BY DEF IInv
<1>2. PICK n \in Len(db)..Len(h) : db' = SubSeq(h, 1, n)
  BY ReplayProjects DEF StartError
<1>3. Len(h) \in Nat /\ Len(db) \in Nat /\ Len(mem) \in Nat /\ Len(mem) <= Len(db) /\ n \in 0..Len(h)
  BY <1>1, Numbers DEF HistoryInv
<1>4. db' \in Seq(Record) /\ Len(db') = n /\ \A k \in 1..n : db'[k] = h[k]
  BY <1>2, <1>3, Prefixes
<1>5. TypeOK'
  <2>1. errors + 1 \in 0..MaxErrors
    BY <1>0, <1>1, WalAssumption DEF TypeOK
  <2>. QED  BY <1>0, <1>1, <1>4, <2>1 DEF TypeOK
<1>6. TmpInv'
  BY <1>0, <1>1 DEF TmpInv
<1>7. \A v \in PossibleViews : ViewInv(v, h)'
  <2>. TAKE v \in PossibleViews
  <2>1. ViewInv(v, h) /\ PreviousAt(v) \in 0..Len(h)
    BY <1>1, Numbers DEF ViewsInv
  <2>2. PreviousAt(v) <= Len(db')
    BY <1>3, <1>4, <2>1 DEF ViewInv
  <2>3. (PowerFails => Safe(v, h))'
    BY <1>0, <2>1 DEF ViewInv, PowerFails, Safe, Unsettled
  <2>. QED  BY <1>0, <2>1, <2>2, <2>3 DEF ViewInv, Copied
<1>8. HistoryInv(h)'
  <2>1. acked' \subseteq {db'[k] : k \in 1..Len(db')}
    <3>1. acked \subseteq {db[k] : k \in 1..Len(db)}
      BY <1>1 DEF HistoryInv
    <3>2. \A k \in 1..Len(db) : k \in 1..n
      BY <1>3
    <3>3. \A k \in 1..Len(db) : k \in 1..Len(db') /\ db[k] = db'[k]
      BY <1>4, <3>2, Prefixed
    <3>. QED  BY <1>0, <3>1, <3>3
  <2>2. Len(db') <= Len(h) /\ db' = SubSeq(h, 1, Len(db')) /\ Len(mem') <= Len(db')
    BY <1>0, <1>2, <1>3, <1>4
  <2>. QED  BY <1>0, <1>1, <2>1, <2>2 DEF HistoryInv
<1>9. ProcessInv(h)'
  BY <1>0, <1>1 DEF ProcessInv, Freezing
<1>10. CheckpointInv(h)'
  BY <1>0, <1>1 DEF CheckpointInv, Copied, Freezing
<1>11. ~WalNamed'
  BY <1>0 DEF WalNamed
<1>12. kpc' # "renamedSnapshot"
  BY <1>0, <1>1 DEF ProcessInv
<1>. QED  BY <1>0, <1>5, <1>6, <1>7, <1>8, <1>9, <1>10, <1>11, <1>12, QuietStep

(* A repaired segment holds the records that can be read from it. *)
LEMMA RepairedFile ==
  ASSUME NEW file \in [data : Seq(Item), synced : Nat], file.synced <= Len(file.data),
         Whole(file.data) \in Seq(Record)
  PROVE  /\ Repaired(file) \in [data : Seq(Item), synced : Nat]
         /\ Repaired(file).synced <= Len(Repaired(file).data)
         /\ Repaired(file).data = Whole(file.data)
         /\ Settled(file) => Settled(Repaired(file))
         /\ file.data \in Seq(Record) => Repaired(file) = file
<1>1. CASE file.data = Whole(file.data)
  <2>1. \A k \in DOMAIN file.data : file.data[k] # Torn
    BY <1>1, WalAssumption
  <2>2. Repaired(file) = file
    BY <2>1 DEF Repaired
  <2>. QED  BY <1>1, <2>2
<1>2. CASE file.data # Whole(file.data)
  <2>1. PICK w : w = Whole(file.data)
    OBVIOUS
  <2>2. file.data = Append(w, Torn) /\ w \in Seq(Record)
    BY <1>2, <2>1, WholeOrTorn
  <2>3. Len(file.data) \in DOMAIN file.data /\ file.data[Len(file.data)] = Torn
    BY <2>2
  <2>4. Repaired(file) = Flushed([file EXCEPT !.data = w])
    BY <2>1, <2>3 DEF Repaired
  <2>5. [file EXCEPT !.data = w] = [data |-> w, synced |-> file.synced]
    OBVIOUS
  <2>6. Repaired(file) = [data |-> w, synced |-> Len(w)]
    BY <2>4, <2>5 DEF Flushed
  <2>7. w \in Seq(Item) /\ Len(w) \in Nat
    BY <2>2 DEF Item
  <2>8. file.data \notin Seq(Record)
    BY <1>2, WholeRecords
  <2>. QED  BY <2>1, <2>6, <2>7, <2>8 DEF Settled
<1>. QED  BY <1>1, <1>2

(* What start-up leaves of the files. *)
LEMMA RepairedView ==
  ASSUME NEW h \in Seq(Record), IInv(h), status = "down", disk' = RepairedDisk, dir' = dir
  PROVE  LET u == View(disk, dir)
             v == View(disk', dir) IN
         /\ Alike(u, v) /\ v.previous = u.previous
         /\ Log(v) = v.wal.data
         /\ Settled(u.wal) => Settled(v.wal)
         /\ disk' \in [Inodes -> [data : Seq(Item), synced : Nat]]
         /\ \A j \in Inodes : disk'[j].synced <= Len(disk'[j].data)
<1>. DEFINE u == View(disk, dir)
            v == View(disk', dir)
<1>0. /\ u.wal = Seen(disk, dir, "wal") /\ u.previous = Seen(disk, dir, "previous")
      /\ u.snapshot = Seen(disk, dir, "snapshot") /\ u.published = (dir["snapshot"] # None)
      /\ v.wal = Seen(disk', dir, "wal") /\ v.previous = Seen(disk', dir, "previous")
      /\ v.snapshot = Seen(disk', dir, "snapshot") /\ v.published = (dir["snapshot"] # None)
  BY DEF View
<1>1. Segment(Log(u), h) /\ Segment(u.previous.data, h)
  BY Numbers DEF Tells, LogTells, PreviousTells
<1>. HIDE DEF u, v
<1>2. Log(u) \in Seq(Record) /\ u.previous.data \in Seq(Record)
  BY <1>1 DEF Segment
<1>3. /\ disk \in [Inodes -> [data : Seq(Item), synced : Nat]]
      /\ \A j \in Inodes : disk[j].synced <= Len(disk[j].data)
      /\ \A n \in {"wal", "previous", "snapshot"} : dir[n] # None => dir[n] \in Inodes
      /\ Injective(dir)
  BY DEF IInv, TypeOK, DirsInv, Directory, Names
<1>4. dir["snapshot"] # None => dir["snapshot"] # dir["wal"] /\ dir["snapshot"] # dir["previous"]
  BY <1>3 DEF Injective, Names
<1>5. \A i \in Inodes : disk'[i] = IF i \in {dir["previous"], dir["wal"]} THEN Repaired(disk[i]) ELSE disk[i]
  BY DEF RepairedDisk
<1>6. v.snapshot = u.snapshot
  BY <1>0, <1>3, <1>4, <1>5 DEF Seen
<1>7. /\ v.previous = u.previous
      /\ dir["previous"] # None =>
           /\ disk'[dir["previous"]] \in [data : Seq(Item), synced : Nat]
           /\ disk'[dir["previous"]].synced <= Len(disk'[dir["previous"]].data)
  <2>1. CASE dir["previous"] = None
    BY <1>0, <2>1 DEF Seen
  <2>2. CASE dir["previous"] # None
    <3>1. PICK file : file = disk[dir["previous"]]
      OBVIOUS
    <3>2. /\ file = u.previous /\ disk'[dir["previous"]] = Repaired(file) /\ v.previous = Repaired(file)
          /\ file \in [data : Seq(Item), synced : Nat] /\ file.synced <= Len(file.data)
      BY <1>0, <1>3, <1>5, <2>2, <3>1 DEF Seen
    <3>3. file.data \in Seq(Record) /\ Whole(file.data) \in Seq(Record)
      BY <1>2, <3>2, WholeRecords
    <3>4. Repaired(file) = file
      BY <3>2, <3>3, RepairedFile
    <3>. QED  BY <2>2, <3>2, <3>4
  <2>. QED  BY <2>1, <2>2
<1>8. /\ v.wal.data = Log(u)
      /\ Settled(u.wal) => Settled(v.wal)
      /\ dir["wal"] # None =>
           /\ disk'[dir["wal"]] \in [data : Seq(Item), synced : Nat]
           /\ disk'[dir["wal"]].synced <= Len(disk'[dir["wal"]].data)
  <2>1. CASE dir["wal"] = None
    BY <1>0, <2>1 DEF Seen, Log, Whole, Emptied
  <2>2. CASE dir["wal"] # None
    <3>1. PICK file : file = disk[dir["wal"]]
      OBVIOUS
    <3>2. /\ file = u.wal /\ disk'[dir["wal"]] = Repaired(file) /\ v.wal = Repaired(file)
          /\ file \in [data : Seq(Item), synced : Nat] /\ file.synced <= Len(file.data)
      BY <1>0, <1>3, <1>5, <2>2, <3>1 DEF Seen
    <3>3. Whole(file.data) = Log(u)
      BY <3>2 DEF Log
    <3>4. /\ Repaired(file) \in [data : Seq(Item), synced : Nat]
          /\ Repaired(file).synced <= Len(Repaired(file).data)
          /\ Repaired(file).data = Whole(file.data)
          /\ Settled(file) => Settled(Repaired(file))
      BY <1>2, <3>2, <3>3, RepairedFile
    <3>. QED  BY <3>2, <3>3, <3>4
  <2>. QED  BY <2>1, <2>2
<1>9. Log(v) = v.wal.data
  BY <1>2, <1>8, WholeRecords DEF Log
<1>10. /\ disk' \in [Inodes -> [data : Seq(Item), synced : Nat]]
       /\ \A j \in Inodes : disk'[j].synced <= Len(disk'[j].data)
  <2>1. \A i \in Inodes : disk'[i] = disk[i] \/ i = dir["previous"] \/ i = dir["wal"]
    BY <1>5
  <2>2. \A i \in Inodes : i # None
    BY DEF Inodes, None
  <2>3. \A i \in Inodes : /\ disk'[i] \in [data : Seq(Item), synced : Nat]
                          /\ disk'[i].synced <= Len(disk'[i].data)
    BY <1>3, <1>7, <1>8, <2>1, <2>2
  <2>4. disk' = [i \in Inodes |-> disk'[i]]
    BY DEF RepairedDisk
  <2>. QED  BY <2>3, <2>4
<1>11. Alike(u, v)
  BY <1>0, <1>6, <1>7, <1>8, <1>9 DEF Alike
<1>. QED  BY <1>7, <1>8, <1>9, <1>10, <1>11 DEF u, v

(* Start-up: loadSnapshot, replayFile(previous), replayFile(wal). *)
LEMMA StartStep ==
  ASSUME NEW h \in Seq(Record), IInv(h), Start
  PROVE  IInv(h)'
<1>0. /\ status = "down" /\ status' = "up" /\ mem' = h /\ sequence' = Len(h) /\ db' = h
      /\ disk' = RepairedDisk
      /\ UNCHANGED <<dir, ddir, pending, failed, walFile, cpc, kpc, frozen, acked, issued, faults, errors>>
  BY ReplayProjects DEF Start
<1>1. /\ TypeOK /\ DirsInv /\ ViewsInv(h) /\ HistoryInv(h) /\ ProcessInv(h)
  BY DEF IInv
<1>2. /\ cpc = "idle" /\ kpc = "idle" /\ walFile = None /\ ~failed
      /\ Len(h) \in Nat /\ Len(h) <= issued /\ issued \in 0..MaxRecords
      /\ Gapless(h)
  BY <1>0, <1>1 DEF ProcessInv, HistoryInv, TypeOK
<1>3. PICK u, v : u = View(disk, dir) /\ v = View(disk', dir)
  OBVIOUS
<1>4. /\ Alike(u, v) /\ v.previous = u.previous /\ Log(v) = v.wal.data
      /\ Settled(u.wal) => Settled(v.wal)
      /\ disk' \in [Inodes -> [data : Seq(Item), synced : Nat]]
      /\ \A j \in Inodes : disk'[j].synced <= Len(disk'[j].data)
  BY <1>0, <1>3, RepairedView
<1>5. PossibleDirs' = {dir} /\ dir \in PossibleDirs /\ dir' = dir
  <2>1. PossibleDirs' = PossibleDirs
    BY <1>0, DirsSame
  <2>. QED  BY <1>0, <1>1, <2>1 DEF DirsInv
<1>6. PossibleViews' = {v} /\ u \in PossibleViews
  BY <1>3, <1>5 DEF PossibleViews
<1>7. TypeOK'
  <2>1. Len(h) \in 0..MaxRecords
    BY <1>2, WalAssumption
  <2>. QED  BY <1>0, <1>1, <1>4, <2>1 DEF TypeOK
<1>8. DirsInv'
  <2>1. Injective(dir) /\ TmpApart(dir)
    BY <1>1, <1>5 DEF DirsInv
  <2>. QED  BY <1>0, <1>5, <2>1 DEF DirsInv, TmpApart
<1>9. TmpInv' /\ CheckpointInv(h)'
  BY <1>0, <1>2 DEF TmpInv, CheckpointInv, Copied, Freezing
<1>10. ViewInv(v, h)'
  <2>1. ViewInv(u, h) /\ Tells(u, h) /\ PreviousAt(u) \in 0..Len(h)
    BY <1>1, <1>6, Numbers DEF ViewsInv
  <2>2. Tells(v, h) /\ SnapshotAt(v) = SnapshotAt(u) /\ PreviousAt(v) = PreviousAt(u)
    BY <1>4, <2>1, AlikeTell
  <2>3. PreviousAt(v) <= Len(db')
    BY <1>0, <1>2, <2>1, <2>2
  <2>4. PowerFails => Settled(v.wal) /\ Settled(v.previous)
    BY <1>0, <1>4, <2>1 DEF ViewInv, Safe, Unsettled
  <2>. QED  BY <1>0, <1>2, <1>4, <2>1, <2>2, <2>3, <2>4 DEF ViewInv, Copied, PowerFails, Safe
<1>11. ViewsInv(h)'
  BY <1>0, <1>2, <1>6, <1>10 DEF ViewsInv
<1>12. HistoryInv(h)'
  <2>1. SubSeq(h, 1, Len(h)) = h
    BY SubSeqFull
  <2>2. acked \subseteq {h[k] : k \in 1..Len(h)}
    <3>1. acked \subseteq {db[k] : k \in 1..Len(db)}
      BY <1>1 DEF HistoryInv
    <3>. QED  BY <3>1, Prefixed
  <2>. QED  BY <1>0, <1>2, <2>1, <2>2 DEF HistoryInv
<1>13. ProcessInv(h)'
  BY <1>0, <1>2 DEF ProcessInv, Freezing, Written
<1>. QED  BY <1>7, <1>8, <1>9, <1>11, <1>12, <1>13 DEF IInv

(* What a power loss leaves of a file. *)
LEMMA RemainsOf ==
  ASSUME NEW file \in [data : Seq(Item), synced : Nat], file.synced <= Len(file.data),
         NEW x \in Remains(file)
  PROVE  /\ x \in [data : Seq(Item), synced : Nat] /\ x.synced = Len(x.data)
         /\ \E k \in file.synced..Len(file.data) :
              \/ x.data = SubSeq(file.data, 1, k)
              \/ k < Len(file.data) /\ x.data = Append(SubSeq(file.data, 1, k), Torn)
<1>1. PICK k \in file.synced..Len(file.data) :
        \/ x = [data |-> SubSeq(file.data, 1, k), synced |-> k]
        \/ k # Len(file.data) /\ x = [data |-> Append(SubSeq(file.data, 1, k), Torn), synced |-> k + 1]
  BY DEF Remains
<1>2. k \in 0..Len(file.data) /\ Len(file.data) \in Nat
  OBVIOUS
<1>3. SubSeq(file.data, 1, k) \in Seq(Item) /\ Len(SubSeq(file.data, 1, k)) = k
  BY <1>2, Prefixes
<1>4. PICK w : w = SubSeq(file.data, 1, k)
  OBVIOUS
<1>5. Append(w, Torn) \in Seq(Item) /\ Len(Append(w, Torn)) = k + 1
  BY <1>3, <1>4 DEF Item
<1>6. k # Len(file.data) => k < Len(file.data)
  BY <1>2
<1>7. x \in [data : Seq(Item), synced : Nat] /\ x.synced = Len(x.data)
  <2>1. CASE x = [data |-> w, synced |-> k]
    <3>1. w \in Seq(Item) /\ Len(w) = k /\ k \in Nat
      BY <1>2, <1>3, <1>4
    <3>. QED  BY <2>1, <3>1
  <2>2. CASE x = [data |-> Append(w, Torn), synced |-> k + 1]
    <3>1. PICK y, n : y = Append(w, Torn) /\ n = k + 1
      OBVIOUS
    <3>2. y \in Seq(Item) /\ Len(y) = n /\ n \in Nat /\ x = [data |-> y, synced |-> n]
      BY <1>2, <1>5, <2>2, <3>1
    <3>. QED  BY <3>2
  <2>. QED  BY <1>1, <1>4, <2>1, <2>2
<1>. QED  BY <1>1, <1>6, <1>7

(* The files a power loss leaves: settled ones as they were, of the others a remainder. *)
LEMMA LeftAfterPowerLoss ==
  ASSUME TypeOK, PowerLoss
  PROVE  /\ disk' \in [Inodes -> [data : Seq(Item), synced : Nat]]
         /\ \A j \in Inodes : disk'[j].synced <= Len(disk'[j].data)
         /\ \A n \in Names : dir'[n] # None =>
              /\ dir'[n] \in Inodes
              /\ disk'[dir'[n]] \in Remains(disk[dir'[n]]) \/ (Settled(disk[dir'[n]]) /\ disk'[dir'[n]] = disk[dir'[n]])
<1>1. PICK left \in [Dirty -> UNION {Remains(disk[i]) : i \in Dirty}] :
        /\ \A i \in Dirty : left[i] \in Remains(disk[i])
        /\ disk' = [i \in Inodes |-> IF \A n \in Names : dir'[n] # i THEN Emptied
                                     ELSE IF i \in Dirty THEN left[i] ELSE disk[i]]
  BY DEF PowerLoss
<1>2. dir' \in PossibleDirs
  BY DirsAfterPowerLoss
<1>3. \A n \in Names : dir'[n] \in InUse /\ (dir'[n] # None => dir'[n] \in Inodes)
  BY <1>2, DirsInUse DEF Directory
<1>4. \A i \in Inodes : \/ disk'[i] = Emptied /\ \A n \in Names : dir'[n] # i
                        \/ i \in Dirty /\ disk'[i] \in Remains(disk[i])
                        \/ i \notin Dirty /\ disk'[i] = disk[i]
  BY <1>1
<1>5. /\ disk \in [Inodes -> [data : Seq(Item), synced : Nat]]
      /\ \A j \in Inodes : disk[j].synced <= Len(disk[j].data)
  BY DEF TypeOK
<1>6. ASSUME NEW i \in Inodes
      PROVE  disk'[i] \in [data : Seq(Item), synced : Nat] /\ disk'[i].synced <= Len(disk'[i].data)
  <2>1. CASE disk'[i] = Emptied
    BY <2>1 DEF Emptied
  <2>2. CASE disk'[i] \in Remains(disk[i])
    <3>1. PICK x, file : x = disk'[i] /\ file = disk[i]
      OBVIOUS
    <3>2. file \in [data : Seq(Item), synced : Nat] /\ file.synced <= Len(file.data) /\ x \in Remains(file)
      BY <1>5, <2>2, <3>1
    <3>3. x \in [data : Seq(Item), synced : Nat] /\ x.synced = Len(x.data)
      BY <3>2, RemainsOf
    <3>. QED  BY <3>1, <3>3
  <2>3. CASE disk'[i] = disk[i]
    BY <1>5, <2>3
  <2>. QED  BY <1>4, <2>1, <2>2, <2>3
<1>7. disk' \in [Inodes -> [data : Seq(Item), synced : Nat]]
  <2>1. disk' = [i \in Inodes |-> disk'[i]]
    BY <1>1
  <2>. QED  BY <1>6, <2>1
<1>8. ASSUME NEW n \in Names, dir'[n] # None
      PROVE  disk'[dir'[n]] \in Remains(disk[dir'[n]])
               \/ (Settled(disk[dir'[n]]) /\ disk'[dir'[n]] = disk[dir'[n]])
  <2>1. PICK i : i = dir'[n]
    OBVIOUS
  <2>2. i \in Inodes /\ i \in InUse \ {None}
    BY <1>3, <1>8, <2>1
  <2>3. disk[i].synced \in Nat /\ Len(disk[i].data) \in Nat /\ disk[i].synced <= Len(disk[i].data)
    BY <1>5, <2>2
  <2>4. i \notin Dirty => Settled(disk[i])
    BY <2>2, <2>3 DEF Dirty, Settled
  <2>5. ~\A m \in Names : dir'[m] # i
    BY <2>1
  <2>6. disk'[i] \in Remains(disk[i]) \/ (Settled(disk[i]) /\ disk'[i] = disk[i])
    <3>1. i \in Inodes
      BY <2>2
    <3>2. \/ disk'[i] = Emptied /\ \A m \in Names : dir'[m] # i
          \/ i \in Dirty /\ disk'[i] \in Remains(disk[i])
          \/ i \notin Dirty /\ disk'[i] = disk[i]
      BY <1>4, <3>1, Zenon
    <3>. QED  BY <2>4, <2>5, <3>2
  <2>. QED  BY <2>1, <2>6
<1>. QED  BY <1>3, <1>6, <1>7, <1>8

(* What is left tells the history, or all of it but a last record that
   PostgreSQL does not have. *)
LEMMA ViewAfterPowerLoss ==
  ASSUME NEW h \in Seq(Record), IInv(h), PowerLoss
  PROVE  LET v == View(disk', dir') IN
         /\ Settled(v.wal) /\ Settled(v.previous)
         /\ PreviousAt(v) <= Len(db)
         /\ Tells(v, h) \/ (Len(db) < Len(h) /\ Tells(v, SubSeq(h, 1, Len(h) - 1)))
<1>. DEFINE d == dir'
            v == View(disk', dir')
<1>0. PICK u : u = View(disk, d)
  OBVIOUS
<1>1. TypeOK /\ ViewsInv(h) /\ Gapless(h) /\ PowerFails
  BY DEF IInv, HistoryInv, PowerLoss, PowerFails
<1>2. d \in PossibleDirs
  BY <1>1, DirsAfterPowerLoss
<1>3. u \in PossibleViews
  BY <1>0, <1>2 DEF PossibleViews
<1>4. ViewInv(u, h) /\ Safe(u, h)
  BY <1>1, <1>3 DEF ViewsInv, ViewInv
<1>5. \A n \in Names : d[n] # None =>
        /\ d[n] \in Inodes
        /\ disk'[d[n]] \in Remains(disk[d[n]]) \/ (Settled(disk[d[n]]) /\ disk'[d[n]] = disk[d[n]])
  BY <1>1, LeftAfterPowerLoss
<1>6. /\ u.wal = Seen(disk, d, "wal") /\ u.previous = Seen(disk, d, "previous")
      /\ u.snapshot = Seen(disk, d, "snapshot") /\ u.published = (d["snapshot"] # None)
      /\ v.wal = Seen(disk', d, "wal") /\ v.previous = Seen(disk', d, "previous")
      /\ v.snapshot = Seen(disk', d, "snapshot") /\ v.published = (d["snapshot"] # None)
  BY <1>0 DEF View
<1>. HIDE DEF v, d
<1>7. ASSUME NEW n \in {"wal", "previous", "snapshot"}
      PROVE  LET old == Seen(disk, d, n)
                 new == Seen(disk', d, n) IN
             /\ new \in Remains(old) \/ (Settled(old) /\ new = old)
             /\ old \in [data : Seq(Item), synced : Nat] /\ old.synced <= Len(old.data)
  <2>1. n \in Names
    BY DEF Names
  <2>2. CASE d[n] = None
    BY <2>2 DEF Seen, Settled, Emptied
  <2>3. CASE d[n] # None
    BY <1>1, <1>5, <2>1, <2>3 DEF Seen, TypeOK
  <2>. QED  BY <2>2, <2>3
<1>8. ASSUME NEW old \in [data : Seq(Item), synced : Nat], NEW new,
             new \in Remains(old) \/ new = old, Settled(old)
      PROVE  new = old
  <2>1. PICK l : l = Len(old.data)
    OBVIOUS
  <2>2. l \in Nat /\ old.synced = l /\ l..l = {l} /\ SubSeq(old.data, 1, l) = old.data
    BY <1>8, <2>1, SubSeqFull DEF Settled
  <2>3. old = [data |-> old.data, synced |-> l]
    BY <2>2
  <2>4. Remains(old) = {[data |-> SubSeq(old.data, 1, l), synced |-> l]}
    BY <2>1, <2>2 DEF Remains
  <2>. QED  BY <1>8, <2>2, <2>3, <2>4
<1>9. v.previous = u.previous /\ Settled(u.previous)
  <2>1. Settled(u.previous)
    BY <1>4 DEF Safe
  <2>. QED  BY <1>6, <1>7, <1>8, <2>1
<1>10. v.published = u.published /\ (u.published => v.snapshot = u.snapshot)
  <2>1. u.published => Settled(u.snapshot)
    <3>. SUFFICES ASSUME u.published  PROVE Settled(u.snapshot)
      OBVIOUS
    <3>1. PICK m \in 0..Len(h) : u.snapshot = [data |-> <<StateAt(h, m)>>, synced |-> 1]
      BY <1>4 DEF ViewInv, Tells, SnapshotTells
    <3>2. PICK x : x = StateAt(h, m)
      OBVIOUS
    <3>. QED  BY <3>1, <3>2 DEF Settled
  <2>. QED  BY <1>6, <1>7, <1>8, <2>1
<1>11. v.snapshot = u.snapshot
  <2>1. ~u.published => v.snapshot = Emptied /\ u.snapshot = Emptied
    BY <1>6 DEF Seen
  <2>. QED  BY <1>10, <2>1
<1>12. PICK x, file : x = v.wal /\ file = u.wal
  OBVIOUS
<1>13. /\ x \in Remains(file) \/ (Settled(file) /\ x = file)
       /\ file \in [data : Seq(Item), synced : Nat] /\ file.synced <= Len(file.data)
  BY <1>6, <1>7, <1>12
<1>14. v = WithLog(u, x)
  <2>1. v = [wal |-> v.wal, previous |-> v.previous, snapshot |-> v.snapshot, published |-> v.published]
    BY DEF v, View
  <2>. QED  BY <1>9, <1>10, <1>11, <1>12, <2>1 DEF WithLog
<1>15. SnapshotAt(v) = SnapshotAt(u)
  BY <1>10, <1>11 DEF SnapshotAt
<1>16. PreviousAt(v) = PreviousAt(u) /\ PreviousAt(u) <= Len(db) /\ PreviousAt(u) \in 0..Len(h)
  BY <1>3, <1>4, <1>9, <1>15, Numbers DEF PreviousAt, ViewInv
<1>17. Settled(x)
  BY <1>13, RemainsOf DEF Settled
<1>18. Log(u) \in Seq(Record) /\ Log(u) = Whole(file.data)
  BY <1>4, <1>12 DEF ViewInv, Tells, LogTells, Segment, Log
<1>19. CASE Whole(x.data) = Log(u)
  <2>1. Log(v) = Log(u)
    BY <1>12, <1>19 DEF Log
  <2>2. Alike(u, v)
    BY <1>9, <1>10, <1>11, <2>1 DEF Alike
  <2>3. Tells(v, h)
    BY <1>4, <2>2, AlikeTell DEF ViewInv
  <2>4. Settled(v.wal) /\ Settled(v.previous) /\ PreviousAt(v) <= Len(db)
    BY <1>9, <1>12, <1>16, <1>17
  <2>. QED  BY <2>3, <2>4 DEF v
<1>20. CASE Whole(x.data) # Log(u)
  <2>1. x # file /\ x \in Remains(file) /\ ~Settled(file)
    BY <1>8, <1>13, <1>18, <1>20
  <2>2. Unsettled(u, h) /\ file.synced = Len(file.data) - 1
    BY <1>4, <1>12, <2>1 DEF Safe, Unsettled
  <2>3. PICK l : l = Len(file.data)
    OBVIOUS
  <2>4. l \in Nat /\ file.synced \in Nat /\ l >= 1 /\ file.synced = l - 1 /\ l - 1 \in 0..l
    BY <1>13, <2>2, <2>3
  <2>5. PICK k \in (l - 1)..l :
          \/ x.data = SubSeq(file.data, 1, k)
          \/ k < l /\ x.data = Append(SubSeq(file.data, 1, k), Torn)
    BY <1>13, <2>1, <2>3, <2>4, RemainsOf
  <2>6. SubSeq(file.data, 1, l) = file.data
    BY <1>13, <2>3, SubSeqFull
  <2>7. k = l - 1
    <3>1. k = l => x.data = file.data
      BY <2>4, <2>5, <2>6
    <3>2. x.data # file.data
      BY <1>18, <1>20
    <3>. QED  BY <2>4, <3>1, <3>2
  <2>8. PICK w : w = SubSeq(file.data, 1, l - 1)
    OBVIOUS
  <2>9. x.data = w \/ x.data = Append(w, Torn)
    BY <2>5, <2>7, <2>8
  <2>10. Log(u) = file.data
    <3>. SUFFICES ASSUME Log(u) # file.data  PROVE FALSE
      OBVIOUS
    <3>1. file.data = Append(Log(u), Torn)
      BY <1>13, <1>18, WholeOrTorn
    <3>2. SubSeq(Append(Log(u), Torn), 1, Len(Append(Log(u), Torn)) - 1) = Log(u)
      BY <1>18
    <3>3. w = Log(u)
      BY <2>3, <2>8, <3>1, <3>2
    <3>. QED  BY <1>18, <1>20, <2>9, <3>3, WholeRecords
  <2>11. file.data \in Seq(Record) /\ Log(u) = u.wal.data /\ Log(u) # <<>> /\ w = SubSeq(u.wal.data, 1, Len(u.wal.data) - 1)
    BY <1>12, <1>18, <2>3, <2>4, <2>8, <2>10
  <2>12. w \in Seq(Record)
    BY <2>3, <2>4, <2>8, <2>11, Prefixes
  <2>13. Whole(x.data) = w
    BY <2>9, <2>12, WholeRecords
  <2>14. Len(db) < Len(h) /\ Len(db) \in Nat /\ Len(h) \in Nat
    BY <2>2, <2>11, Numbers DEF Unsettled
  <2>15. PreviousAt(u) < Len(h)
    BY <1>16, <2>14
  <2>16. Tells(WithLog(u, x), SubSeq(h, 1, Len(h) - 1))
    <3>1. PICK g : g = SubSeq(h, 1, Len(h) - 1)
      OBVIOUS
    <3>2. Shortened(g, h)
      <4>1. Len(h) - 1 \in 0..Len(h)
        BY <2>14
      <4>. QED  BY <3>1, <4>1, Prefixes DEF Shortened
    <3>3. Shortened(w, Log(u))
      BY <2>3, <2>4, <2>8, <2>10, <2>11, Prefixes DEF Shortened
    <3>4. Tells(WithLog(u, x), g)
      BY <1>1, <1>4, <2>11, <2>13, <2>15, <3>2, <3>3, TruncatedTells DEF ViewInv
    <3>. QED  BY <3>1, <3>4
  <2>. QED  BY <1>9, <1>12, <1>14, <1>16, <1>17, <2>14, <2>16 DEF v
<1>. QED  BY <1>19, <1>20

(* The machine loses power. *)
LEMMA PowerLossStep ==
  ASSUME NEW h \in Seq(Record), IInv(h), PowerLoss
  PROVE  Invariant'
<1>0. /\ UNCHANGED <<db, acked, issued, errors>>
      /\ faults < MaxFaults /\ faults' = faults + 1 /\ status' = "down" /\ mem' = <<>>
      /\ sequence' = 0 /\ failed' = FALSE /\ walFile' = None /\ cpc' = "idle" /\ kpc' = "idle"
      /\ frozen' = InitialState /\ pending' = <<>> /\ ddir' = dir'
  <2>1. PICK kept \in Spared : dir' = Surviving(kept) /\ ddir' = Surviving(kept)
    BY DEF PowerLoss
  <2>2. Dies /\ pending' = <<>>
    BY DEF PowerLoss
  <2>. QED  BY <2>1, <2>2 DEF Dies
<1>1. TypeOK /\ DirsInv /\ HistoryInv(h)
  BY DEF IInv
<1>2. dir' \in PossibleDirs /\ PossibleDirs' = {dir'} /\ dir' \in Directory
  <2>1. dir' \in PossibleDirs /\ PossibleDirs' = {dir'}
    BY <1>1, DirsAfterPowerLoss
  <2>. QED  BY <1>1, <2>1, DirsInUse DEF Names
<1>3. PICK v : v = View(disk', dir')
  OBVIOUS
<1>4. PossibleViews' = {v}
  BY <1>2, <1>3 DEF PossibleViews
<1>5. /\ Settled(v.wal) /\ Settled(v.previous) /\ PreviousAt(v) <= Len(db)
      /\ Tells(v, h) \/ (Len(db) < Len(h) /\ Tells(v, SubSeq(h, 1, Len(h) - 1)))
  BY <1>3, ViewAfterPowerLoss
<1>6. /\ Len(h) \in Nat /\ Len(db) \in 0..Len(h) /\ db = SubSeq(h, 1, Len(db))
      /\ Len(h) <= issued /\ Gapless(h) /\ issued \in Nat /\ MaxRecords \in Nat
  BY <1>1, Numbers, WalAssumption DEF HistoryInv, TypeOK
<1>7. PICK g \in Seq(Record) :
        /\ Tells(v, g) /\ Gapless(g) /\ Len(g) <= Len(h) /\ Len(g) \in Nat /\ Len(db) <= Len(g)
        /\ db = SubSeq(g, 1, Len(db))
  <2>1. CASE Tells(v, h)
    BY <1>6, <2>1
  <2>2. CASE Len(db) < Len(h) /\ Tells(v, SubSeq(h, 1, Len(h) - 1))
    <3>1. PICK g, l : l = Len(h) - 1 /\ g = SubSeq(h, 1, l)
      OBVIOUS
    <3>2. l \in Nat /\ l \in 0..Len(h) /\ Len(db) \in 0..l
      BY <1>6, <2>2, <3>1
    <3>3. g \in Seq(Record) /\ Len(g) = l /\ \A k \in 1..l : g[k] = h[k]
      BY <3>1, <3>2, Prefixes
    <3>4. Gapless(g)
      <4>1. \A k \in 1..l : k \in 1..Len(h)
        BY <3>2
      <4>. QED  BY <1>6, <3>3, <4>1 DEF Gapless
    <3>5. db = SubSeq(g, 1, Len(db))
      <4>1. PICK b : b = Len(db)
        OBVIOUS
      <4>2. /\ SubSeq(g, 1, b) \in Seq(Record) /\ Len(SubSeq(g, 1, b)) = b
            /\ \A k \in 1..b : SubSeq(g, 1, b)[k] = g[k]
        BY <3>2, <3>3, <4>1, Prefixes
      <4>3. /\ SubSeq(h, 1, b) \in Seq(Record) /\ Len(SubSeq(h, 1, b)) = b
            /\ \A k \in 1..b : SubSeq(h, 1, b)[k] = h[k]
        BY <1>6, <4>1, Prefixes
      <4>4. \A k \in 1..b : k \in 1..l
        BY <3>2, <4>1
      <4>5. SubSeq(h, 1, b) = SubSeq(g, 1, b)
        BY <3>3, <4>2, <4>3, <4>4, SameElements
      <4>. QED  BY <1>6, <4>1, <4>5
    <3>6. Len(db) <= Len(g) /\ Len(g) <= Len(h) /\ Len(g) \in Nat
      BY <3>2, <3>3
    <3>. QED  BY <2>2, <3>1, <3>3, <3>4, <3>5, <3>6
  <2>. QED  BY <1>5, <2>1, <2>2
<1>8. TypeOK'
  <2>1. faults + 1 \in 0..MaxFaults /\ 0 \in 0..MaxRecords
    BY <1>0, <1>1, <1>6, WalAssumption DEF TypeOK
  <2>2. InitialState \in State /\ <<>> \in Seq(Record) /\ <<>> \in Seq(Operation)
    BY <2>1 DEF InitialState, State
  <2>3. /\ disk' \in [Inodes -> [data : Seq(Item), synced : Nat]]
        /\ \A j \in Inodes : disk'[j].synced <= Len(disk'[j].data)
    BY <1>1, LeftAfterPowerLoss
  <2>. QED  BY <1>0, <1>1, <1>2, <2>1, <2>2, <2>3 DEF TypeOK
<1>9. DirsInv'
  <2>1. Injective(dir')
    BY <1>1, <1>2 DEF DirsInv
  <2>2. \A n \in Names \ {"tmp"} : dir'["tmp"] # None => dir'[n] # dir'["tmp"]
    BY <2>1 DEF Injective, Names
  <2>. QED  BY <1>2, <2>1, <2>2 DEF DirsInv, TmpApart
<1>10. TmpInv' /\ CheckpointInv(g)'
  BY <1>0 DEF TmpInv, CheckpointInv, Copied, Freezing
<1>11. ViewInv(v, g)'
  <2>1. dir'["previous"] = None => PreviousAt(v) = SnapshotAt(v)
    <3>1. dir'["previous"] = None => v.previous.data = <<>>
      BY <1>3 DEF View, Seen, Emptied
    <3>. QED  BY <3>1 DEF PreviousAt, After
  <2>. QED  BY <1>0, <1>5, <1>7, <2>1 DEF ViewInv, Copied, PowerFails, Safe
<1>12. ViewsInv(g)'
  BY <1>0, <1>4, <1>11 DEF ViewsInv
<1>13. HistoryInv(g)'
  <2>1. acked \subseteq {db[k] : k \in 1..Len(db)}
    BY <1>1 DEF HistoryInv
  <2>2. Len(g) <= issued /\ Len(<<>>) <= Len(db) /\ <<>> = SubSeq(g, 1, Len(<<>>))
    BY <1>6, <1>7
  <2>. QED  BY <1>0, <1>7, <2>1, <2>2 DEF HistoryInv
<1>14. ProcessInv(g)'
  BY <1>0, <1>6 DEF ProcessInv
<1>15. IInv(g)'
  BY <1>8, <1>9, <1>10, <1>12, <1>13, <1>14 DEF IInv
<1>. QED  BY <1>7, <1>15 DEF Invariant

-----------------------------------------------------------------------------
(* The specification. *)

(* Nothing is written yet. *)
LEMMA InitInvariant ==
  ASSUME Init
  PROVE  Invariant
<1>0. /\ disk = [i \in Inodes |-> Emptied] /\ dir = [n \in Names |-> None] /\ ddir = dir
      /\ pending = <<>> /\ status = "down" /\ mem = <<>> /\ sequence = 0 /\ failed = FALSE
      /\ walFile = None /\ cpc = "idle" /\ kpc = "idle" /\ frozen = InitialState
      /\ db = <<>> /\ acked = {} /\ issued = 0 /\ faults = 0 /\ errors = 0
  BY DEF Init
<1>1. \A n \in Names : dir[n] = None
  BY <1>0
<1>2. TypeOK
  <2>1. InitialState \in State
    BY WalAssumption DEF InitialState, State
  <2>2. Emptied \in [data : Seq(Item), synced : Nat] /\ Emptied.synced <= Len(Emptied.data)
    BY DEF Emptied
  <2>3. /\ disk \in [Inodes -> [data : Seq(Item), synced : Nat]]
        /\ \A i \in Inodes : disk[i].synced <= Len(disk[i].data)
    BY <1>0, <2>2
  <2>4. dir \in Directory
    BY <1>0 DEF Directory
  <2>5. 0 \in 0..MaxRecords /\ 0 \in 0..MaxFaults /\ 0 \in 0..MaxErrors
    BY WalAssumption
  <2>6. dir \in Directory /\ ddir \in Directory /\ pending \in Seq(Operation)
    BY <1>0, <2>4
  <2>7. mem \in Seq(Record) /\ db \in Seq(Record) /\ acked \subseteq Record /\ failed \in BOOLEAN
    <3>1. mem \in Seq(Record) /\ db \in Seq(Record)
      BY <1>0
    <3>2. acked \subseteq Record
      BY <1>0
    <3>3. failed \in BOOLEAN
      BY <1>0, Zenon
    <3>. QED  BY <3>1, <3>2, <3>3
  <2>8. sequence \in 0..MaxRecords /\ issued \in 0..MaxRecords /\ faults \in 0..MaxFaults /\ errors \in 0..MaxErrors
    BY <1>0, <2>5
  <2>9. /\ status \in {"up", "down", "refused"} /\ walFile \in {None, dir["wal"]} /\ frozen \in State
        /\ cpc \in {"idle", "open", "opened", "write", "written", "synced"}
        /\ kpc \in {"idle", "closed", "renamed", "segmented", "created", "frozen", "opened",
                    "encoded", "flushed", "renamedSnapshot", "published", "removed"}
    BY <1>0, <2>1
  <2>. QED  BY <2>3, <2>6, <2>7, <2>8, <2>9 DEF TypeOK
<1>3. PossibleDirs = {dir}
  <2>1. Surviving({}) = ddir
    BY <1>0, <1>1 DEF Surviving
  <2>2. DOMAIN pending = {}
    BY <1>0
  <2>3. \A kept \in SUBSET DOMAIN pending : kept = {}
    BY <2>2
  <2>4. {Surviving(kept) : kept \in SUBSET DOMAIN pending} = {dir}
    BY <1>0, <2>1, <2>3
  <2>. QED  BY <2>4 DEF PossibleDirs
<1>4. DirsInv
  BY <1>0, <1>1, <1>3 DEF DirsInv, Injective, TmpApart, WalNamed, Names
<1>5. PICK v : v = View(disk, dir)
  OBVIOUS
<1>6. PossibleViews = {v}
  BY <1>3, <1>5 DEF PossibleViews
<1>7. v.wal = Emptied /\ v.previous = Emptied /\ v.published = FALSE
  BY <1>1, <1>5 DEF View, Seen, Names
<1>8. PICK h : h = <<>>
  OBVIOUS
<1>9. h \in Seq(Record) /\ Len(h) = 0 /\ SubSeq(h, 1, 0) = <<>>
  BY <1>8
<1>10. /\ SnapshotAt(v) = 0 /\ PreviousAt(v) = 0 /\ Log(v) = <<>> /\ v.wal.data = <<>>
       /\ v.previous.data = <<>> /\ Settled(v.wal) /\ Settled(v.previous)
  BY <1>7 DEF SnapshotAt, PreviousAt, After, Log, Whole, Emptied, Settled
<1>11. Tells(v, h)
  BY <1>7, <1>9, <1>10 DEF Tells, SnapshotTells, PreviousTells, LogTells, Segment, Attached
<1>12. ViewInv(v, h)
  BY <1>0, <1>10, <1>11 DEF ViewInv, Copied, Safe
<1>13. ViewsInv(h)
  BY <1>0, <1>6, <1>12 DEF ViewsInv
<1>14. HistoryInv(h)
  BY <1>0, <1>8, <1>9 DEF HistoryInv, Gapless
<1>15. ProcessInv(h)
  BY <1>0 DEF ProcessInv
<1>16. TmpInv /\ CheckpointInv(h)
  BY <1>0 DEF TmpInv, CheckpointInv, Copied, Freezing
<1>17. IInv(h)
  BY <1>2, <1>4, <1>13, <1>14, <1>15, <1>16 DEF IInv
<1>. QED  BY <1>9, <1>17 DEF Invariant

(* Nothing happens. *)
LEMMA StutteringStep ==
  ASSUME NEW h \in Seq(Record), IInv(h), UNCHANGED vars
  PROVE  IInv(h)'
<1>0. /\ UNCHANGED filesystem
      /\ UNCHANGED <<disk, dir, ddir, pending, status, mem, sequence, failed, walFile, cpc, kpc,
                     frozen, db, acked, issued, faults, errors>>
  BY DEF vars, filesystem, process
<1>1. /\ TypeOK /\ TmpInv /\ ViewsInv(h) /\ HistoryInv(h) /\ ProcessInv(h) /\ CheckpointInv(h)
  BY DEF IInv
<1>2. TypeOK'
  BY <1>0, <1>1 DEF TypeOK
<1>3. TmpInv' /\ CheckpointInv(h)'
  BY <1>0, <1>1 DEF TmpInv, CheckpointInv, Copied, Freezing
<1>4. \A v \in PossibleViews : ViewInv(v, h)'
  BY <1>0, <1>1, ViewInvKept DEF ViewsInv
<1>5. HistoryInv(h)'
  BY <1>0, <1>1 DEF HistoryInv
<1>6. ProcessInv(h)'
  BY <1>0, <1>1 DEF ProcessInv, Freezing, Written, CurrentRecord
<1>7. WalNamed' => WalNamed
  BY <1>0 DEF WalNamed
<1>. QED  BY <1>0, <1>2, <1>3, <1>4, <1>5, <1>6, <1>7, QuietStep

(* Every step keeps the invariant; a written record lengthens the history,
   and a power loss may shorten it again. *)
LEMMA NextInvariant ==
  ASSUME OneKindOfDeath, Invariant, [Next]_vars
  PROVE  Invariant'
<1>1. PICK h \in Seq(Record) : IInv(h)
  BY DEF Invariant
<1>2. ASSUME IInv(h)'  PROVE Invariant'
  BY <1>2 DEF Invariant
<1>3. CASE Start \/ StartError
  BY <1>1, <1>2, <1>3, StartStep, StartErrorStep
<1>4. CASE CommitStart \/ OpenWal \/ SyncOpenedWal
  BY <1>1, <1>2, <1>4, CommitStartStep, OpenWalStep, SyncOpenedWalStep
<1>5. CASE WriteRecord
  BY <1>1, <1>5, WriteRecordStep DEF Invariant
<1>6. CASE SyncRecord \/ CommitDone \/ CommitError
  BY <1>1, <1>2, <1>6, SyncRecordStep, CommitDoneStep, CommitErrorStep
<1>7. CASE \E k \in DOMAIN mem : AnswerRetry(mem[k])
  BY <1>1, <1>2, <1>7, AnswerRetryStep
<1>8. CASE Freeze \/ RenameWal \/ SyncRenamed \/ CreateWal \/ SyncCreated
  BY <1>1, <1>2, <1>8, FreezeStep, RenameWalStep, SyncRenamedStep, CreateWalStep, SyncCreatedStep
<1>9. CASE OpenTmp \/ EncodeTmp \/ SyncTmp \/ RenameSnapshot
  BY <1>1, <1>2, <1>9, OpenTmpStep, EncodeTmpStep, SyncTmpStep, RenameSnapshotStep
<1>10. CASE SyncSnapshot \/ RemovePrevious \/ SyncRemoved \/ CheckpointError
  BY <1>1, <1>2, <1>10, SyncSnapshotStep, RemovePreviousStep, SyncRemovedStep, CheckpointErrorStep
<1>11. CASE Crash
  BY <1>1, <1>2, <1>11, CrashStep
<1>12. CASE PowerLoss
  BY <1>1, <1>12, PowerLossStep
<1>13. CASE UNCHANGED vars
  BY <1>1, <1>2, <1>13, StutteringStep
<1>. QED  BY <1>3, <1>4, <1>5, <1>6, <1>7, <1>8, <1>9, <1>10, <1>11, <1>12, <1>13
          DEF Next, Commits, Checkpoints

(* What the next process would find tells one gapless history, however many
   records, files, errors and deaths there are, and whichever directory
   operations a power loss spares. *)
THEOREM HistoryTold ==
  ASSUME OneKindOfDeath
  PROVE  Spec => []Invariant
<1>1. Init => Invariant
  BY InitInvariant
<1>2. Invariant /\ [Next]_vars => Invariant'
  BY NextInvariant
<1>. QED  BY <1>1, <1>2, PTL DEF Spec

(* No record whose commit was answered with success is missing from the state
   the service runs with: appendMany fsyncs before commitMany answers, and
   no checkpoint removes a segment that its snapshot does not cover. *)
THEOREM AcknowledgedSurvive ==
  ASSUME OneKindOfDeath
  PROVE  Spec => []AckSurvives
<1>1. Invariant => AckSurvives
  <2>. SUFFICES ASSUME NEW h \in Seq(Record), IInv(h)  PROVE AckSurvives
    BY DEF Invariant
  <2>1. DOMAIN mem = 1..Len(mem)
    BY DEF IInv, TypeOK
  <2>. QED  BY <2>1 DEF IInv, HistoryInv, AckSurvives
<1>. QED  BY <1>1, HistoryTold, PTL

(* Recovery applies every record once, in order and without a gap, and
   PostgreSQL holds the same history whenever the service accepts orders
   (replayFile, ApplyBatch). *)
THEOREM HistoryIsExact ==
  ASSUME OneKindOfDeath
  PROVE  Spec => []ExactHistory
<1>1. Invariant => ExactHistory
  <2>. SUFFICES ASSUME NEW h \in Seq(Record), IInv(h)  PROVE ExactHistory
    BY DEF Invariant
  <2>1. DOMAIN mem = 1..Len(mem) /\ HistoryInv(h) /\ ProcessInv(h)
    BY DEF IInv, TypeOK
  <2>2. NoGap
    <3>1. \A k \in 1..Len(mem) : k \in 1..Len(h) /\ mem[k] = h[k]
      BY Prefixed
    <3>. QED  BY <2>1, <3>1 DEF NoGap, HistoryInv, Gapless
  <2>3. ProjectionExact
    <3>1. status = "up" /\ ~failed => Len(db) = Len(mem)
      BY <2>1 DEF ProcessInv
    <3>2. db = SubSeq(h, 1, Len(db)) /\ mem = SubSeq(h, 1, Len(mem))
      BY <2>1 DEF HistoryInv
    <3>. QED  BY <3>1, <3>2 DEF ProjectionExact, Unlocked
  <2>. QED  BY <2>2, <2>3 DEF ExactHistory
<1>. QED  BY <1>1, HistoryTold, PTL

(* Start-up never refuses the files: neither a corrupt segment, nor sequence
   numbers that do not grow, nor a snapshot cut short is ever under its name
   (replayFile, loadSnapshot). *)
THEOREM StartUpNeverRefuses ==
  ASSUME OneKindOfDeath
  PROVE  Spec => []NeverRefused
<1>1. Invariant => NeverRefused
  BY DEF Invariant, IInv, ProcessInv, NeverRefused
<1>. QED  BY <1>1, HistoryTold, PTL
=============================================================================
