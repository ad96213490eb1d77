-------------------------- MODULE OrderQueueProofs --------------------------
(***************************************************************************)
(* Proofs about order admission, for any number of calls, any queue bound  *)
(* and any batch size: there is at most one worker, no request is left     *)
(* without one, orders are placed in the order of admission, a success is  *)
(* never reported for an order that was not placed, a refusal never for    *)
(* one that was or will be, and Close leaves nothing behind.               *)
(***************************************************************************)
EXTENDS OrderQueue, SequenceTheorems, TLAPS

(* What Append does to a sequence, entry by entry. *)
LEMMA AppendFacts ==
  ASSUME NEW S, NEW s \in Seq(S), NEW e \in S
  PROVE  /\ Append(s, e) \in Seq(S)
         /\ Len(Append(s, e)) = Len(s) + 1
         /\ DOMAIN Append(s, e) = 1..(Len(s) + 1)
         /\ \A i \in 1..Len(s) : Append(s, e)[i] = s[i]
         /\ Append(s, e)[Len(s) + 1] = e
  BY AppendProperties, LenProperties

(* The part of a sequence behind its first n entries, and those entries. *)
LEMMA SplitFacts ==
  ASSUME NEW S, NEW s \in Seq(S), NEW n \in 0..Len(s)
  PROVE  /\ SubSeq(s, 1, n) \in Seq(S)
         /\ Len(SubSeq(s, 1, n)) = n
         /\ \A i \in 1..n : SubSeq(s, 1, n)[i] = s[i]
         /\ SubSeq(s, n + 1, Len(s)) \in Seq(S)
         /\ Len(SubSeq(s, n + 1, Len(s))) = Len(s) - n
         /\ \A i \in 1..(Len(s) - n) : SubSeq(s, n + 1, Len(s))[i] = s[n + i]
<1>0. Len(s) \in Nat  BY LenProperties
<1>1. SubSeq(s, 1, n) \in Seq(S) /\ Len(SubSeq(s, 1, n)) = n
  BY <1>0, SubSeqProperties, ElementOfSeq
<1>2. \A i \in 1..n : SubSeq(s, 1, n)[i] = s[i]
  BY <1>0, SubSeqProperties, ElementOfSeq
<1>3. SubSeq(s, n + 1, Len(s)) \in Seq(S) /\ Len(SubSeq(s, n + 1, Len(s))) = Len(s) - n
  BY <1>0, SubSeqProperties, ElementOfSeq
<1>4. \A i \in 1..(Len(s) - n) : SubSeq(s, n + 1, Len(s))[i] = s[n + i]
  BY <1>0, SubSeqProperties, ElementOfSeq
<1> QED  BY <1>1, <1>2, <1>3, <1>4

(* The place of entry h + 1 among the last n of the first t arrivals. *)
LEMMA PlaceOfNext ==
  ASSUME NEW t \in Nat, NEW n \in Nat, NEW h \in Nat, h < n, n <= t
  PROVE  t - n + h + 1 = t - n + (h + 1) /\ t - n + h + 1 \in 1..t
  OBVIOUS

(* How long a batch is: nothing is taken only from an empty queue. *)
LEMMA TakeLengthFacts ==
  ASSUME pending \in Seq(Calls)
  PROVE  /\ TakeLength \in 0..Len(pending)
         /\ TakeLength = 0 => pending = <<>>
<1>1. Len(pending) \in Nat /\ (Len(pending) = 0 => pending = <<>>)
  BY LenProperties, EmptySeq
<1> QED  BY <1>1, QueueAssumption DEF TakeLength

(* Refusing a call touches nothing but the call. *)
LEMMA RefuseStep ==
  ASSUME IInv, NEW c \in Calls, Refuse(c)
  PROVE  IInv'
<1>1. TypeOK'
  BY DEF IInv, TypeOK, Answers, Refuse, Refusal
<1>2. FlagInv'
  BY DEF IInv, FlagInv, Working, Refuse, TypeOK
<1>3. OneWorker'
  BY DEF IInv, OneWorker, Working, Refuse, TypeOK
<1>4. ClosedInv'
  BY DEF IInv, ClosedInv, ClosedIsDrained, Working, Refuse, TypeOK
<1>5. QueueInv'
  BY DEF IInv, QueueInv, Taken, Refuse, TypeOK
<1>6. BatchInv'
  BY DEF IInv, BatchInv, Taken, Refuse, TypeOK
<1>7. PlacedInv'
  BY DEF IInv, PlacedInv, Behind, Taken, Refuse, TypeOK
<1>8. PlacedInOrder'
  BY DEF IInv, PlacedInOrder, Refuse, TypeOK
<1>9. SuccessInv'
  BY DEF IInv, SuccessInv, IsPlaced, Refuse, Refusal, TypeOK
<1> QED  BY <1>1, <1>2, <1>3, <1>4, <1>5, <1>6, <1>7, <1>8, <1>9 DEF IInv

(* Admission extends queue and arrivals alike and leaves a worker running. *)
LEMMA EnqueueStep ==
  ASSUME IInv, NEW c \in Calls, Enqueue(c)
  PROVE  IInv'
<1>0. /\ Taken' = Taken /\ Taken \in Nat
      /\ Taken <= Len(arrival) /\ Len(arrival) \in Nat
      /\ Len(arrival') = Len(arrival) + 1
      /\ \A k \in 1..Len(arrival) : arrival'[k] = arrival[k]
  <2>1. /\ pending \in Seq(Calls) /\ arrival \in Seq(Calls)
        /\ pending' = Append(pending, c) /\ arrival' = Append(arrival, c)
    BY DEF IInv, TypeOK, Enqueue
  <2>2. Len(pending) \in Nat /\ Len(arrival) \in Nat
    BY <2>1, LenProperties
  <2>3. Len(pending') = Len(pending) + 1 /\ Len(arrival') = Len(arrival) + 1
    BY <2>1, AppendFacts
  <2>4. \A k \in 1..Len(arrival) : arrival'[k] = arrival[k]
    BY <2>1, AppendFacts
  <2> QED  BY <2>2, <2>3, <2>4 DEF IInv, QueueInv, Taken
<1>1. TypeOK'
  <2>1. pending' \in Seq(Calls) /\ arrival' \in Seq(Calls)
    BY AppendFacts DEF IInv, TypeOK, Enqueue
  <2>2. worker' \in [Workers -> {"none", "take", "place", "reply"}] /\ running' \in BOOLEAN
    BY DEF IInv, TypeOK, Enqueue
  <2>3. call' \in [Calls -> {"new", "waiting", "returned"}]
    BY DEF IInv, TypeOK, Enqueue
  <2> QED  BY <2>1, <2>2, <2>3 DEF IInv, TypeOK, Enqueue
<1>2. FlagInv'
  BY DEF IInv, FlagInv, Working, Enqueue, Refused, NeedsWorker, TypeOK
<1>3. OneWorker'
  BY DEF IInv, OneWorker, Working, Enqueue, Refused, NeedsWorker, FlagInv, TypeOK
<1>4. ClosedInv'
  BY DEF IInv, ClosedInv, ClosedIsDrained, Working, Enqueue, Refused, NeedsWorker, FlagInv, TypeOK
<1>5. QueueInv'
  <2>1. /\ pending \in Seq(Calls) /\ arrival \in Seq(Calls)
        /\ pending' = Append(pending, c) /\ arrival' = Append(arrival, c)
    BY DEF IInv, TypeOK, Enqueue
  <2>2. Len(pending) \in Nat /\ Len(arrival) \in Nat
    BY <2>1, LenProperties
  <2>3. Len(pending') = Len(pending) + 1 /\ Len(arrival') = Len(arrival) + 1
    BY <2>1, AppendFacts
  <2>4. Taken' = Taken /\ Taken \in Nat /\ Taken + Len(pending) = Len(arrival)
    BY <2>2, <2>3 DEF IInv, QueueInv, Taken
  <2>5. ASSUME NEW i \in 1..Len(pending')
        PROVE  pending'[i] = arrival'[Taken' + i]
    <3>1. CASE i \in 1..Len(pending)
      <4>1. pending'[i] = pending[i]
        BY <2>1, <3>1, AppendFacts
      <4>2. Taken + i \in 1..Len(arrival)
        BY <2>2, <2>4, <3>1
      <4>3. arrival'[Taken + i] = arrival[Taken + i]
        BY <2>1, <4>2, AppendFacts
      <4> QED  BY <2>4, <3>1, <4>1, <4>3 DEF IInv, QueueInv
    <3>2. CASE i = Len(pending) + 1
      <4>1. pending'[i] = c
        BY <2>1, <3>2, AppendFacts
      <4>2. Taken + i = Len(arrival) + 1
        BY <2>2, <2>4, <3>2
      <4>3. arrival'[Len(arrival) + 1] = c
        BY <2>1, AppendFacts
      <4> QED  BY <2>4, <4>1, <4>2, <4>3
    <3> QED  BY <2>2, <2>3, <3>1, <3>2
  <2> QED  BY <2>4, <2>5 DEF QueueInv
<1>6. BatchInv'
  <2>1. Taken' = Taken /\ Taken \in Nat /\ Taken <= Len(arrival) /\ Len(arrival) \in Nat
    BY <1>0
  <2>2. ASSUME NEW w \in Workers, worker[w] = "place", NEW i \in 1..Len(batch[w])
        PROVE  batch[w][i] = arrival'[Taken - Len(batch[w]) + i]
    <3>1. batch[w] \in Seq(Calls) /\ Len(batch[w]) \in Nat /\ Len(batch[w]) <= Taken
      BY <2>2, LenProperties DEF IInv, TypeOK, BatchInv
    <3>2. Taken - Len(batch[w]) + i \in 1..Len(arrival)
      BY <2>1, <3>1
    <3> QED  BY <1>0, <2>2, <3>2 DEF IInv, BatchInv
  <2>3. \A w \in Workers : (worker'[w] = "place" <=> worker[w] = "place")
    BY DEF IInv, TypeOK, Enqueue
  <2>4. batch' = batch /\ handled' = handled
    BY DEF Enqueue
  <2> QED  BY <2>1, <2>2, <2>3, <2>4 DEF IInv, BatchInv
<1>7. PlacedInv'
  <2>1. placed' = placed /\ batch' = batch /\ handled' = handled
    BY DEF Enqueue
  <2>2. \A w \in Workers : (worker'[w] = "place" <=> worker[w] = "place")
    BY DEF IInv, TypeOK, Enqueue
  <2>3. \A k : Behind(k) => Behind(k)'
    BY <1>0, <2>1, <2>2 DEF Behind
  <2>4. ASSUME NEW i \in 1..Len(placed)
        PROVE  \E k \in 1..Taken : arrival'[k] = placed[i] /\ Behind(k)'
    <3>1. PICK k \in 1..Taken : arrival[k] = placed[i] /\ Behind(k)
      BY DEF IInv, PlacedInv
    <3>2. k \in 1..Len(arrival)
      BY <1>0
    <3> QED  BY <1>0, <2>3, <3>1, <3>2
  <2> QED  BY <1>0, <2>1, <2>4 DEF PlacedInv
<1>8. PlacedInOrder'
  <2>1. DOMAIN arrival = 1..Len(arrival) /\ DOMAIN arrival' = 1..(Len(arrival) + 1)
    BY AppendFacts, LenProperties DEF IInv, TypeOK, Enqueue
  <2>2. placed' = placed
    BY DEF Enqueue
  <2>3. ASSUME NEW i \in DOMAIN placed, NEW j \in DOMAIN placed, i < j
        PROVE  \E k, l \in DOMAIN arrival' :
                 k < l /\ arrival'[k] = placed[i] /\ arrival'[l] = placed[j]
    <3>1. PICK k \in DOMAIN arrival, l \in DOMAIN arrival :
            k < l /\ arrival[k] = placed[i] /\ arrival[l] = placed[j]
      BY <2>3 DEF IInv, PlacedInOrder
    <3>2. /\ k \in DOMAIN arrival' /\ l \in DOMAIN arrival'
          /\ arrival'[k] = arrival[k] /\ arrival'[l] = arrival[l]
      BY <1>0, <2>1
    <3> QED  BY <3>1, <3>2
  <2> QED  BY <2>2, <2>3 DEF PlacedInOrder
<1>9. SuccessInv'
  BY DEF IInv, SuccessInv, IsPlaced, Enqueue, Refused, NeedsWorker, TypeOK
<1> QED  BY <1>1, <1>2, <1>3, <1>4, <1>5, <1>6, <1>7, <1>8, <1>9 DEF IInv

(* The end of a context touches nothing but the context. *)
LEMMA ExpireStep ==
  ASSUME IInv, NEW c \in Calls, Expire(c)
  PROVE  IInv'
<1>1. TypeOK'
  BY DEF IInv, TypeOK, Answers, Expire
<1>2. FlagInv'
  BY DEF IInv, FlagInv, Working, Expire, TypeOK
<1>3. OneWorker'
  BY DEF IInv, OneWorker, Working, Expire, TypeOK
<1>4. ClosedInv'
  BY DEF IInv, ClosedInv, ClosedIsDrained, Working, Expire, TypeOK
<1>5. QueueInv'
  BY DEF IInv, QueueInv, Taken, Expire, TypeOK
<1>6. BatchInv'
  BY DEF IInv, BatchInv, Taken, Expire, TypeOK
<1>7. PlacedInv'
  BY DEF IInv, PlacedInv, Behind, Taken, Expire, TypeOK
<1>8. PlacedInOrder'
  BY DEF IInv, PlacedInOrder, Expire, TypeOK
<1>9. SuccessInv'
  BY DEF IInv, SuccessInv, IsPlaced, Expire, TypeOK
<1> QED  BY <1>1, <1>2, <1>3, <1>4, <1>5, <1>6, <1>7, <1>8, <1>9 DEF IInv

(* A caller returns what its channel held. *)
LEMMA ReceiveOutcomeStep ==
  ASSUME IInv, NEW c \in Calls, ReceiveOutcome(c)
  PROVE  IInv'
<1>1. TypeOK'
  BY DEF IInv, TypeOK, Answers, ReceiveOutcome
<1>2. FlagInv'
  BY DEF IInv, FlagInv, Working, ReceiveOutcome, TypeOK
<1>3. OneWorker'
  BY DEF IInv, OneWorker, Working, ReceiveOutcome, TypeOK
<1>4. ClosedInv'
  BY DEF IInv, ClosedInv, ClosedIsDrained, Working, ReceiveOutcome, TypeOK
<1>5. QueueInv'
  BY DEF IInv, QueueInv, Taken, ReceiveOutcome, TypeOK
<1>6. BatchInv'
  BY DEF IInv, BatchInv, Taken, ReceiveOutcome, TypeOK
<1>7. PlacedInv'
  BY DEF IInv, PlacedInv, Behind, Taken, ReceiveOutcome, TypeOK
<1>8. PlacedInOrder'
  BY DEF IInv, PlacedInOrder, ReceiveOutcome, TypeOK
<1>9. SuccessInv'
  BY DEF IInv, SuccessInv, IsPlaced, ReceiveOutcome, TypeOK
<1> QED  BY <1>1, <1>2, <1>3, <1>4, <1>5, <1>6, <1>7, <1>8, <1>9 DEF IInv

(* A caller that leaves returns an error. *)
LEMMA GiveUpStep ==
  ASSUME IInv, NEW c \in Calls, GiveUp(c)
  PROVE  IInv'
<1>1. TypeOK'
  BY DEF IInv, TypeOK, Answers, GiveUp, DeadlineStatus
<1>2. FlagInv'
  BY DEF IInv, FlagInv, Working, GiveUp, TypeOK
<1>3. OneWorker'
  BY DEF IInv, OneWorker, Working, GiveUp, TypeOK
<1>4. ClosedInv'
  BY DEF IInv, ClosedInv, ClosedIsDrained, Working, GiveUp, TypeOK
<1>5. QueueInv'
  BY DEF IInv, QueueInv, Taken, GiveUp, TypeOK
<1>6. BatchInv'
  BY DEF IInv, BatchInv, Taken, GiveUp, TypeOK
<1>7. PlacedInv'
  BY DEF IInv, PlacedInv, Behind, Taken, GiveUp, TypeOK
<1>8. PlacedInOrder'
  BY DEF IInv, PlacedInOrder, GiveUp, TypeOK
<1>9. SuccessInv'
  BY DEF IInv, SuccessInv, IsPlaced, GiveUp, DeadlineStatus, TypeOK
<1> QED  BY <1>1, <1>2, <1>3, <1>4, <1>5, <1>6, <1>7, <1>8, <1>9 DEF IInv

(* The worker ends, and clears the flag, only with an empty queue. *)
LEMMA WorkerExitStep ==
  ASSUME IInv, NEW w \in Workers, WorkerExit(w)
  PROVE  IInv'
<1>1. TypeOK'
  BY DEF IInv, TypeOK, Answers, WorkerExit, TakeLength, RunningAfterExit
<1>2. FlagInv'
  <2>1. pending = <<>> /\ pending' = pending
    BY TakeLengthFacts DEF IInv, TypeOK, WorkerExit
  <2>2. running' = FALSE
    BY DEF WorkerExit, RunningAfterExit
  <2>3. \A v \in Workers : worker'[v] = "none"
    BY DEF IInv, TypeOK, OneWorker, Working, WorkerExit
  <2> QED  BY <2>1, <2>2, <2>3 DEF FlagInv, Working
<1>3. OneWorker'
  BY DEF IInv, OneWorker, Working, WorkerExit, TakeLength, RunningAfterExit, TypeOK
<1>4. ClosedInv'
  BY DEF IInv, ClosedInv, ClosedIsDrained, Working, WorkerExit, TakeLength, RunningAfterExit, TypeOK
<1>5. QueueInv'
  BY DEF IInv, QueueInv, Taken, WorkerExit, TakeLength, RunningAfterExit, TypeOK
<1>6. BatchInv'
  BY DEF IInv, BatchInv, Taken, WorkerExit, TakeLength, RunningAfterExit, TypeOK
<1>7. PlacedInv'
  BY DEF IInv, PlacedInv, Behind, Taken, WorkerExit, TakeLength, RunningAfterExit, BatchInv, TypeOK
<1>8. PlacedInOrder'
  BY DEF IInv, PlacedInOrder, WorkerExit, TakeLength, RunningAfterExit, TypeOK
<1>9. SuccessInv'
  BY DEF IInv, SuccessInv, IsPlaced, WorkerExit, TakeLength, RunningAfterExit, TypeOK
<1> QED  BY <1>1, <1>2, <1>3, <1>4, <1>5, <1>6, <1>7, <1>8, <1>9 DEF IInv

(* A batch is the front of the queue; what stays is still the end of the arrivals. *)
LEMMA TakeBatchStep ==
  ASSUME IInv, NEW w \in Workers, TakeBatch(w)
  PROVE  IInv'
<1>0. /\ TakeLength \in 0..Len(pending) /\ Len(pending) \in Nat /\ Len(arrival) \in Nat
      /\ batch' \in [Workers -> Seq(Calls)] /\ pending' \in Seq(Calls)
      /\ \A v \in Workers \ {w} : batch'[v] = batch[v] /\ worker'[v] = worker[v]
      /\ worker'[w] = "place" /\ handled' = handled /\ arrival' = arrival /\ placed' = placed
      /\ Len(batch'[w]) = TakeLength
      /\ \A i \in 1..TakeLength : batch'[w][i] = pending[i]
      /\ Len(pending') = Len(pending) - TakeLength
      /\ \A i \in 1..(Len(pending) - TakeLength) : pending'[i] = pending[TakeLength + i]
  <2>1. /\ pending \in Seq(Calls) /\ batch \in [Workers -> Seq(Calls)]
        /\ worker \in [Workers -> {"none", "take", "place", "reply"}]
        /\ Len(pending) \in Nat /\ Len(arrival) \in Nat
    BY LenProperties DEF IInv, TypeOK
  <2>2. TakeLength \in 0..Len(pending)
    BY <2>1, TakeLengthFacts
  <2>3. /\ batch' = [batch EXCEPT ![w] = SubSeq(pending, 1, TakeLength)]
        /\ pending' = SubSeq(pending, TakeLength + 1, Len(pending))
        /\ worker' = [worker EXCEPT ![w] = "place"]
        /\ handled' = handled /\ arrival' = arrival /\ placed' = placed
    BY DEF TakeBatch, LeftAfter
  <2>4. batch'[w] = SubSeq(pending, 1, TakeLength)
    BY <2>1, <2>3
  <2>5. /\ SubSeq(pending, 1, TakeLength) \in Seq(Calls)
        /\ Len(SubSeq(pending, 1, TakeLength)) = TakeLength
        /\ \A i \in 1..TakeLength : SubSeq(pending, 1, TakeLength)[i] = pending[i]
    BY <2>1, <2>2, SplitFacts
  <2>6. /\ pending' \in Seq(Calls)
        /\ Len(pending') = Len(pending) - TakeLength
        /\ \A i \in 1..(Len(pending) - TakeLength) : pending'[i] = pending[TakeLength + i]
    BY <2>1, <2>2, <2>3, SplitFacts
  <2>7. /\ batch' \in [Workers -> Seq(Calls)]
        /\ worker'[w] = "place"
        /\ \A v \in Workers \ {w} : batch'[v] = batch[v] /\ worker'[v] = worker[v]
    BY <2>1, <2>3, <2>5
  <2> QED  BY <2>1, <2>2, <2>3, <2>4, <2>5, <2>6, <2>7
<1>01. /\ Taken' = Taken + TakeLength /\ Taken \in Nat
       /\ Taken + Len(pending) = Len(arrival)
  BY <1>0 DEF Taken, IInv, QueueInv
<1>1. TypeOK'
  BY <1>0 DEF IInv, TypeOK, TakeBatch
<1>2. FlagInv'
  BY DEF IInv, FlagInv, Working, TakeBatch, TakeLength, LeftAfter, OneWorker, TypeOK
<1>3. OneWorker'
  BY DEF IInv, OneWorker, Working, TakeBatch, TakeLength, LeftAfter, TypeOK
<1>4. ClosedInv'
  BY DEF IInv, ClosedInv, ClosedIsDrained, Working, TakeBatch, TakeLength, LeftAfter, TypeOK
<1>5. QueueInv'
  <2>1. ASSUME NEW i \in 1..Len(pending')
        PROVE  pending'[i] = arrival'[Taken' + i]
    <3>1. TakeLength + i \in 1..Len(pending) /\ pending'[i] = pending[TakeLength + i]
      BY <1>0
    <3>2. pending[TakeLength + i] = arrival[Taken + (TakeLength + i)]
      BY <3>1 DEF IInv, QueueInv
    <3>3. Taken + (TakeLength + i) = Taken' + i
      BY <1>0, <1>01
    <3> QED  BY <1>0, <3>1, <3>2, <3>3
  <2>2. Taken' \in Nat
    BY <1>0, <1>01
  <2> QED  BY <2>1, <2>2 DEF QueueInv
<1>6. BatchInv'
  <2>1. ASSUME NEW v \in Workers \ {w}
        PROVE  worker'[v] # "place" /\ handled'[v] = 0
    BY <1>0, <2>1 DEF IInv, OneWorker, Working, BatchInv, TakeBatch
  <2>2. /\ worker'[w] = "place" /\ handled'[w] = 0
        /\ Len(batch'[w]) = TakeLength
    BY <1>0 DEF IInv, BatchInv, TakeBatch
  <2>3. ASSUME NEW i \in 1..Len(batch'[w])
        PROVE  batch'[w][i] = arrival'[Taken' - Len(batch'[w]) + i]
    <3>1. i \in 1..Len(pending) /\ batch'[w][i] = pending[i]
      BY <1>0, <2>2
    <3>2. Taken' - Len(batch'[w]) + i = Taken + i
      BY <1>0, <1>01, <2>2
    <3> QED  BY <1>0, <3>1, <3>2 DEF IInv, QueueInv
  <2>4. handled'[w] <= Len(batch'[w]) /\ Len(batch'[w]) <= Taken'
    BY <1>0, <1>01, <2>2
  <2> QED  BY <2>1, <2>2, <2>3, <2>4 DEF BatchInv
<1>7. PlacedInv'
  <2>1. \A v \in Workers : v # w => worker'[v] # "place"
    BY <1>0 DEF IInv, OneWorker, Working, TakeBatch
  <2>2. Taken' - Len(batch'[w]) + handled'[w] = Taken
    BY <1>0, <1>01 DEF IInv, BatchInv, TakeBatch
  <2>3. ASSUME NEW i \in 1..Len(placed)
        PROVE  \E k \in 1..Taken' : arrival'[k] = placed[i] /\ Behind(k)'
    <3>1. PICK k \in 1..Taken : arrival[k] = placed[i]
      BY DEF IInv, PlacedInv
    <3>2. k \in 1..Taken'
      BY <1>0, <1>01
    <3>3. Behind(k)'
      BY <2>1, <2>2 DEF Behind
    <3> QED  BY <1>0, <3>1, <3>2, <3>3
  <2> QED  BY <1>0, <2>3 DEF PlacedInv
<1>8. PlacedInOrder'
  BY DEF IInv, PlacedInOrder, TakeBatch, TakeLength, LeftAfter, TypeOK
<1>9. SuccessInv'
  BY DEF IInv, SuccessInv, IsPlaced, TakeBatch, TakeLength, LeftAfter, TypeOK
<1> QED  BY <1>1, <1>2, <1>3, <1>4, <1>5, <1>6, <1>7, <1>8, <1>9 DEF IInv

(* An order is placed behind all orders placed so far. *)
LEMMA PlaceNextStep ==
  ASSUME IInv, NEW w \in Workers, PlaceNext(w)
  PROVE  IInv'
<1>c. PICK c : c = batch[w][handled[w] + 1]
  OBVIOUS
<1>at. PICK at : at = Taken - Len(batch[w]) + handled[w] + 1
  OBVIOUS
<1>0. /\ Len(batch[w]) \in Nat /\ handled[w] \in Nat /\ Len(arrival) \in Nat
      /\ Taken \in Nat /\ Taken <= Len(arrival) /\ Len(placed) \in Nat
      /\ DOMAIN placed = 1..Len(placed) /\ DOMAIN arrival = 1..Len(arrival)
      /\ c \in Calls
      /\ at \in 1..Taken /\ arrival[at] = c
      /\ handled'[w] = handled[w] + 1
  <2>1. /\ batch[w] \in Seq(Calls) /\ handled[w] \in Nat /\ arrival \in Seq(Calls)
        /\ pending \in Seq(Calls) /\ placed \in Seq(Calls)
        /\ handled' = [handled EXCEPT ![w] = @ + 1] /\ handled \in [Workers -> Nat]
        /\ handled[w] < Len(batch[w]) /\ worker[w] = "place"
    BY DEF IInv, TypeOK, PlaceNext
  <2>2. /\ Len(batch[w]) \in Nat /\ Len(arrival) \in Nat /\ Len(pending) \in Nat
        /\ Len(placed) \in Nat
        /\ DOMAIN placed = 1..Len(placed) /\ DOMAIN arrival = 1..Len(arrival)
    BY <2>1, LenProperties
  <2>3. handled[w] + 1 \in 1..Len(batch[w])
    BY <2>1, <2>2
  <2>4. c \in Calls
    BY <1>c, <2>1, <2>3, ElementOfSeq
  <2>5. Taken \in Nat /\ Taken <= Len(arrival) /\ Len(batch[w]) <= Taken
    <3>1. Taken \in Nat /\ Taken <= Len(arrival)
      BY <2>2 DEF IInv, QueueInv, Taken
    <3>2. Len(batch[w]) <= Taken
      BY <2>1 DEF IInv, BatchInv
    <3> QED  BY <3>1, <3>2
  <2>6. at = Taken - Len(batch[w]) + (handled[w] + 1) /\ at \in 1..Taken
    BY ZenonT(30), <1>at, <2>1, <2>2, <2>5, PlaceOfNext
  <2>7. arrival[at] = c
    BY <1>c, <2>1, <2>3, <2>6 DEF IInv, BatchInv
  <2> QED  BY <2>1, <2>2, <2>4, <2>5, <2>6, <2>7
<1>01. /\ UNCHANGED <<arrival, pending, batch, worker, done, answer>>
       /\ Taken' = Taken
       /\ \/ placed' = placed /\ outcome' = [outcome EXCEPT ![c] = "retry"]
          \/ placed' = placed /\ outcome' = [outcome EXCEPT ![c] = "invalid"]
          \/ placed' = Append(placed, c) /\ outcome' = [outcome EXCEPT ![c] = "ok"]
  BY <1>c DEF PlaceNext, SkippedOutcome, Taken
<1>02. ASSUME placed' = Append(placed, c)
       PROVE  /\ placed' \in Seq(Calls) /\ DOMAIN placed' = 1..(Len(placed) + 1)
              /\ Len(placed') = Len(placed) + 1
              /\ \A i \in 1..Len(placed) : placed'[i] = placed[i]
              /\ placed'[Len(placed) + 1] = c
  <2>1. placed \in Seq(Calls) /\ c \in Calls
    BY <1>0 DEF IInv, TypeOK
  <2> QED  BY <1>02, <2>1, AppendFacts
<1>03. \A v \in Workers : worker[v] = "place" => v = w
  BY DEF IInv, OneWorker, Working, PlaceNext
<1>04. ASSUME NEW k \in Nat, Behind(k)  PROVE k < at
  <2>1. worker[w] = "place"
    BY DEF PlaceNext
  <2>2. k <= Taken - Len(batch[w]) + handled[w]
    BY <1>04, <2>1 DEF Behind
  <2> QED  BY <1>0, <1>at, <2>2
<1>1. TypeOK'
  <2>1. placed' \in Seq(Calls)
    BY <1>01, <1>02 DEF IInv, TypeOK
  <2>2. outcome' \in [Calls -> Answers]
    BY <1>0, <1>01 DEF IInv, TypeOK, Answers
  <2>3. handled' \in [Workers -> Nat]
    BY DEF IInv, TypeOK, PlaceNext
  <2> QED  BY <2>1, <2>2, <2>3 DEF IInv, TypeOK, PlaceNext
<1>2. FlagInv'
  BY DEF IInv, FlagInv, Working, PlaceNext, SkippedOutcome, OneWorker, TypeOK
<1>3. OneWorker'
  BY DEF IInv, OneWorker, Working, PlaceNext, SkippedOutcome, TypeOK
<1>4. ClosedInv'
  BY DEF IInv, ClosedInv, ClosedIsDrained, Working, PlaceNext, SkippedOutcome, TypeOK
<1>5. QueueInv'
  BY DEF IInv, QueueInv, Taken, PlaceNext, SkippedOutcome, TypeOK
<1>6. BatchInv'
  <2>1. handled'[w] <= Len(batch[w])
    BY <1>0 DEF PlaceNext
  <2>2. \A v \in Workers \ {w} : handled'[v] = handled[v]
    BY DEF IInv, TypeOK, PlaceNext
  <2>3. worker[w] = "place"
    BY DEF PlaceNext
  <2> QED  BY <1>01, <1>03, <2>1, <2>2, <2>3 DEF IInv, BatchInv
<1>7. PlacedInv'
  <2>1. ASSUME NEW k \in Nat, Behind(k) \/ k = at  PROVE Behind(k)'
    <3>1. k <= at
      BY <1>0, <1>04, <2>1
    <3> QED  BY SMTT(30), <1>0, <1>01, <1>03, <1>at, <3>1 DEF Behind
  <2>2. ASSUME NEW i \in 1..Len(placed)
        PROVE  \E k \in 1..Taken : arrival[k] = placed[i] /\ Behind(k)'
    <3>1. PICK k \in 1..Taken : arrival[k] = placed[i] /\ Behind(k)
      BY DEF IInv, PlacedInv
    <3>2. k \in Nat
      BY <1>0
    <3> QED  BY <2>1, <3>1, <3>2
  <2>3. Behind(at)'
    BY <1>0, <2>1
  <2>4. CASE placed' = placed
    BY <1>01, <2>2, <2>4 DEF PlacedInv
  <2>5. CASE placed' = Append(placed, c)
    <3>1. ASSUME NEW i \in 1..Len(placed')
          PROVE  \E k \in 1..Taken : arrival[k] = placed'[i] /\ Behind(k)'
      <4>1. CASE i \in 1..Len(placed)
        BY <1>02, <2>2, <2>5, <4>1
      <4>2. CASE i = Len(placed) + 1
        BY <1>0, <1>02, <2>3, <2>5, <4>2
      <4> QED  BY <1>0, <1>02, <2>5, <4>1, <4>2
    <3> QED  BY <1>01, <3>1 DEF PlacedInv
  <2> QED  BY <1>01, <2>4, <2>5
<1>8. PlacedInOrder'
  <2>1. CASE placed' = placed
    BY <1>01, <2>1 DEF IInv, PlacedInOrder
  <2>2. CASE placed' = Append(placed, c)
    <3>1. ASSUME NEW i \in 1..(Len(placed) + 1), NEW j \in 1..(Len(placed) + 1), i < j
          PROVE  \E k, l \in DOMAIN arrival :
                   k < l /\ arrival[k] = placed'[i] /\ arrival[l] = placed'[j]
      <4>1. i \in 1..Len(placed) /\ placed'[i] = placed[i]
        BY <1>0, <1>02, <2>2, <3>1
      <4>2. CASE j \in 1..Len(placed)
        <5>1. placed'[j] = placed[j]
          BY <1>02, <2>2, <4>2
        <5> QED  BY SMTT(30), <1>0, <3>1, <4>1, <4>2, <5>1 DEF IInv, PlacedInOrder
      <4>3. CASE j = Len(placed) + 1
        <5>1. PICK k \in 1..Taken : arrival[k] = placed[i] /\ Behind(k)
          BY <4>1 DEF IInv, PlacedInv
        <5>2. k < at
          BY <1>0, <1>04, <5>1
        <5>3. k \in DOMAIN arrival /\ at \in DOMAIN arrival
          BY <1>0
        <5>4. arrival[at] = placed'[j]
          BY <1>0, <1>02, <2>2, <4>3
        <5> QED  BY <4>1, <5>1, <5>2, <5>3, <5>4
      <4> QED  BY <1>0, <4>2, <4>3
    <3> QED  BY <1>01, <1>02, <2>2, <3>1 DEF PlacedInOrder
  <2> QED  BY <1>01, <2>1, <2>2
<1>9. SuccessInv'
  <2>1. \A d \in Calls : IsPlaced(d) => IsPlaced(d)'
    BY <1>0, <1>01, <1>02 DEF IsPlaced
  <2>2. CASE /\ placed' = placed
             /\ \/ outcome' = [outcome EXCEPT ![c] = "retry"]
                \/ outcome' = [outcome EXCEPT ![c] = "invalid"]
    BY <1>0, <1>01, <2>1, <2>2 DEF IInv, TypeOK, SuccessInv
  <2>3. CASE placed' = Append(placed, c) /\ outcome' = [outcome EXCEPT ![c] = "ok"]
    <3>1. IsPlaced(c)'
      BY SMTT(30), <1>0, <1>02, <2>3 DEF IsPlaced
    <3> QED  BY <1>0, <1>01, <2>1, <2>3, <3>1 DEF IInv, TypeOK, SuccessInv
  <2> QED  BY <1>01, <2>2, <2>3
<1> QED  BY <1>1, <1>2, <1>3, <1>4, <1>5, <1>6, <1>7, <1>8, <1>9 DEF IInv

(* A batch that finds a failure latched is answered without being placed. *)
LEMMA BatchRefusedStep ==
  ASSUME IInv, NEW w \in Workers, BatchRefused(w)
  PROVE  IInv'
<1>1. TypeOK'
  BY DEF IInv, TypeOK, Answers, BatchRefused
<1>2. FlagInv'
  BY DEF IInv, FlagInv, Working, BatchRefused, OneWorker, TypeOK
<1>3. OneWorker'
  BY DEF IInv, OneWorker, Working, BatchRefused, TypeOK
<1>4. ClosedInv'
  BY DEF IInv, ClosedInv, ClosedIsDrained, Working, BatchRefused, TypeOK
<1>5. QueueInv'
  BY DEF IInv, QueueInv, Taken, BatchRefused, TypeOK
<1>6. BatchInv'
  BY DEF IInv, BatchInv, Taken, BatchRefused, TypeOK
<1>7. PlacedInv'
  BY DEF IInv, PlacedInv, Behind, Taken, BatchRefused, BatchInv, TypeOK
<1>8. PlacedInOrder'
  BY DEF IInv, PlacedInOrder, BatchRefused, TypeOK
<1>9. SuccessInv'
  <2>1. UNCHANGED <<placed, done, answer>>
    BY DEF BatchRefused
  <2>2. \A c \in Calls : outcome'[c] = "ok" => outcome[c] = "ok"
    BY DEF IInv, TypeOK, BatchRefused
  <2> QED  BY <2>1, <2>2 DEF IInv, SuccessInv, IsPlaced
<1> QED  BY <1>1, <1>2, <1>3, <1>4, <1>5, <1>6, <1>7, <1>8, <1>9 DEF IInv

(* The end of a batch only turns successes into errors. *)
LEMMA PlaceDoneStep ==
  ASSUME IInv, NEW w \in Workers, PlaceDone(w)
  PROVE  IInv'
<1>1. TypeOK'
  BY DEF IInv, TypeOK, Answers, PlaceDone
<1>2. FlagInv'
  BY DEF IInv, FlagInv, Working, PlaceDone, OneWorker, TypeOK
<1>3. OneWorker'
  BY DEF IInv, OneWorker, Working, PlaceDone, TypeOK
<1>4. ClosedInv'
  BY DEF IInv, ClosedInv, ClosedIsDrained, Working, PlaceDone, TypeOK
<1>5. QueueInv'
  BY DEF IInv, QueueInv, Taken, PlaceDone, TypeOK
<1>6. BatchInv'
  BY DEF IInv, BatchInv, Taken, PlaceDone, TypeOK
<1>7. PlacedInv'
  BY DEF IInv, PlacedInv, Behind, Taken, PlaceDone, BatchInv, TypeOK
<1>8. PlacedInOrder'
  BY DEF IInv, PlacedInOrder, PlaceDone, TypeOK
<1>9. SuccessInv'
  <2>1. UNCHANGED <<placed, done, answer>>
    BY DEF PlaceDone
  <2>2. \A c \in Calls : outcome'[c] = "ok" => outcome[c] = "ok"
    BY DEF IInv, TypeOK, PlaceDone
  <2> QED  BY <2>1, <2>2 DEF IInv, SuccessInv, IsPlaced
<1> QED  BY <1>1, <1>2, <1>3, <1>4, <1>5, <1>6, <1>7, <1>8, <1>9 DEF IInv

(* An outcome moves into its channel. *)
LEMMA ReplyStep ==
  ASSUME IInv, NEW w \in Workers, Reply(w)
  PROVE  IInv'
<1>1. TypeOK'
  BY DEF IInv, TypeOK, Answers, Reply
<1>2. FlagInv'
  BY DEF IInv, FlagInv, Working, Reply, TypeOK
<1>3. OneWorker'
  BY DEF IInv, OneWorker, Working, Reply, TypeOK
<1>4. ClosedInv'
  BY DEF IInv, ClosedInv, ClosedIsDrained, Working, Reply, TypeOK
<1>5. QueueInv'
  BY DEF IInv, QueueInv, Taken, Reply, TypeOK
<1>6. BatchInv'
  BY DEF IInv, BatchInv, Taken, Reply, TypeOK
<1>7. PlacedInv'
  BY ZenonT(30) DEF IInv, PlacedInv, Behind, Taken, Reply, TypeOK
<1>8. PlacedInOrder'
  BY DEF IInv, PlacedInOrder, Reply, TypeOK
<1>9. SuccessInv'
  BY DEF IInv, SuccessInv, IsPlaced, Reply, TypeOK
<1> QED  BY <1>1, <1>2, <1>3, <1>4, <1>5, <1>6, <1>7, <1>8, <1>9 DEF IInv

(* The worker goes back to the queue. *)
LEMMA NextBatchStep ==
  ASSUME IInv, NEW w \in Workers, NextBatch(w)
  PROVE  IInv'
<1>1. TypeOK'
  BY DEF IInv, TypeOK, Answers, NextBatch
<1>2. FlagInv'
  BY DEF IInv, FlagInv, Working, NextBatch, OneWorker, TypeOK
<1>3. OneWorker'
  BY DEF IInv, OneWorker, Working, NextBatch, TypeOK
<1>4. ClosedInv'
  BY DEF IInv, ClosedInv, ClosedIsDrained, Working, NextBatch, TypeOK
<1>5. QueueInv'
  BY DEF IInv, QueueInv, Taken, NextBatch, TypeOK
<1>6. BatchInv'
  BY DEF IInv, BatchInv, Taken, NextBatch, TypeOK
<1>7. PlacedInv'
  BY DEF IInv, PlacedInv, Behind, Taken, NextBatch, BatchInv, TypeOK
<1>8. PlacedInOrder'
  BY DEF IInv, PlacedInOrder, NextBatch, TypeOK
<1>9. SuccessInv'
  BY DEF IInv, SuccessInv, IsPlaced, NextBatch, TypeOK
<1> QED  BY <1>1, <1>2, <1>3, <1>4, <1>5, <1>6, <1>7, <1>8, <1>9 DEF IInv

(* Closing sets the flag. *)
LEMMA CloseStep ==
  ASSUME IInv, Close
  PROVE  IInv'
<1>1. TypeOK'
  BY DEF IInv, TypeOK, Answers, Close
<1>2. FlagInv'
  BY DEF IInv, FlagInv, Working, Close, TypeOK
<1>3. OneWorker'
  BY DEF IInv, OneWorker, Working, Close, TypeOK
<1>4. ClosedInv'
  BY DEF IInv, ClosedInv, ClosedIsDrained, Working, Close, TypeOK
<1>5. QueueInv'
  BY DEF IInv, QueueInv, Taken, Close, TypeOK
<1>6. BatchInv'
  BY DEF IInv, BatchInv, Taken, Close, TypeOK
<1>7. PlacedInv'
  BY DEF IInv, PlacedInv, Behind, Taken, Close, TypeOK
<1>8. PlacedInOrder'
  BY DEF IInv, PlacedInOrder, Close, TypeOK
<1>9. SuccessInv'
  BY DEF IInv, SuccessInv, IsPlaced, Close, TypeOK
<1> QED  BY <1>1, <1>2, <1>3, <1>4, <1>5, <1>6, <1>7, <1>8, <1>9 DEF IInv

(* The WAL is closed once the workers are done. *)
LEMMA CloseWALStep ==
  ASSUME IInv, CloseWAL
  PROVE  IInv'
<1>1. TypeOK'
  BY DEF IInv, TypeOK, Answers, CloseWAL, WorkersDone
<1>2. FlagInv'
  BY DEF IInv, FlagInv, Working, CloseWAL, WorkersDone, TypeOK
<1>3. OneWorker'
  BY DEF IInv, OneWorker, Working, CloseWAL, WorkersDone, TypeOK
<1>4. ClosedInv'
  <2>1. pending = <<>>
    BY DEF IInv, FlagInv, Working, CloseWAL, WorkersDone
  <2> QED  BY <2>1 DEF ClosedInv, ClosedIsDrained, Working, CloseWAL, WorkersDone
<1>5. QueueInv'
  BY DEF IInv, QueueInv, Taken, CloseWAL, WorkersDone, TypeOK
<1>6. BatchInv'
  BY DEF IInv, BatchInv, Taken, CloseWAL, WorkersDone, TypeOK
<1>7. PlacedInv'
  BY DEF IInv, PlacedInv, Behind, Taken, CloseWAL, WorkersDone, TypeOK
<1>8. PlacedInOrder'
  BY DEF IInv, PlacedInOrder, CloseWAL, WorkersDone, TypeOK
<1>9. SuccessInv'
  BY DEF IInv, SuccessInv, IsPlaced, CloseWAL, WorkersDone, TypeOK
<1> QED  BY <1>1, <1>2, <1>3, <1>4, <1>5, <1>6, <1>7, <1>8, <1>9 DEF IInv

(* Nothing has happened in an initial state. *)
LEMMA InitIInv == Init => IInv
<1> SUFFICES ASSUME Init PROVE IInv
  OBVIOUS
<1>1. /\ Len(pending) = 0 /\ Len(arrival) = 0 /\ Len(placed) = 0
      /\ DOMAIN placed = {}
  BY EmptySeq, LenProperties DEF Init
<1>2. TypeOK
  BY EmptySeq DEF Init, TypeOK, Answers
<1>3. FlagInv /\ OneWorker /\ ClosedInv
  BY DEF Init, FlagInv, OneWorker, ClosedInv, Working
<1>4. QueueInv /\ BatchInv /\ PlacedInv /\ PlacedInOrder
  BY <1>1 DEF Init, QueueInv, BatchInv, PlacedInv, PlacedInOrder, Taken
<1>5. SuccessInv
  BY DEF Init, SuccessInv
<1> QED  BY <1>2, <1>3, <1>4, <1>5 DEF IInv

(* Every step of callers, worker and Close preserves the invariant. *)
LEMMA NextIInv == IInv /\ [Next]_vars => IInv'
<1> SUFFICES ASSUME IInv, [Next]_vars PROVE IInv'
  OBVIOUS
<1>1. ASSUME NEW c \in Calls,
             Refuse(c) \/ Enqueue(c) \/ Expire(c) \/ ReceiveOutcome(c) \/ GiveUp(c)
      PROVE  IInv'
  BY <1>1, RefuseStep, EnqueueStep, ExpireStep, ReceiveOutcomeStep, GiveUpStep
<1>2. ASSUME NEW w \in Workers, WorkerStep(w)
      PROVE  IInv'
  BY <1>2, WorkerExitStep, TakeBatchStep, BatchRefusedStep, PlaceNextStep,
     PlaceDoneStep, ReplyStep, NextBatchStep DEF WorkerStep
<1>3. CASE Close
  BY <1>3, CloseStep
<1>4. CASE CloseWAL
  BY <1>4, CloseWALStep
<1>5. CASE UNCHANGED vars
  BY <1>5 DEF vars, IInv, TypeOK, FlagInv, OneWorker, ClosedInv, ClosedIsDrained, QueueInv,
              BatchInv, PlacedInv, PlacedInOrder, SuccessInv, Working, Taken, Behind, IsPlaced
<1> QED  BY <1>1, <1>2, <1>3, <1>4, <1>5 DEF Next

(* The invariant holds throughout. *)
LEMMA Invariance == Spec => []IInv
  BY InitIInv, NextIInv, PTL DEF Spec

(* What the queue looks like in a state of the invariant. *)
LEMMA QueueFacts ==
  ASSUME IInv
  PROVE  /\ Len(arrival) \in Nat /\ Len(pending) \in Nat /\ Len(placed) \in Nat
         /\ Taken \in Nat /\ Taken <= Len(arrival)
         /\ DOMAIN arrival = 1..Len(arrival) /\ DOMAIN placed = 1..Len(placed)
         /\ \A w \in Workers : /\ Len(batch[w]) \in Nat /\ handled[w] \in Nat
                               /\ DOMAIN batch[w] = 1..Len(batch[w])
<1>1. /\ arrival \in Seq(Calls) /\ pending \in Seq(Calls) /\ placed \in Seq(Calls)
      /\ batch \in [Workers -> Seq(Calls)] /\ handled \in [Workers -> Nat]
  BY DEF IInv, TypeOK
<1>2. /\ Len(arrival) \in Nat /\ Len(pending) \in Nat /\ Len(placed) \in Nat
      /\ DOMAIN arrival = 1..Len(arrival) /\ DOMAIN placed = 1..Len(placed)
  BY <1>1, LenProperties
<1>3. \A w \in Workers : /\ Len(batch[w]) \in Nat /\ handled[w] \in Nat
                         /\ DOMAIN batch[w] = 1..Len(batch[w])
  BY <1>1, LenProperties
<1>4. Taken \in Nat /\ Taken <= Len(arrival)
  BY <1>2 DEF IInv, QueueInv, Taken
<1> QED  BY <1>2, <1>3, <1>4

(* What is placed was gone through. *)
LEMMA PlacedWasHandled ==
  ASSUME IInv, NEW c \in Calls, IsPlaced(c)
  PROVE  WasHandled(c)
<1>1. PICK i \in 1..Len(placed) : placed[i] = c
  BY QueueFacts DEF IsPlaced
<1> QED  BY <1>1 DEF IInv, PlacedInv, WasHandled

(* What the worker has gone through stays so. *)
LEMMA HandledStays ==
  ASSUME IInv, [Next]_vars, NEW c \in Calls, WasHandled(c)
  PROVE  WasHandled(c)'
<1>0. PICK k \in 1..Taken : arrival[k] = c /\ Behind(k)
  BY DEF WasHandled
<1>1. CASE UNCHANGED <<arrival, pending, batch, handled, worker>>
  BY <1>0, <1>1 DEF WasHandled, Behind, Taken
<1>2. ASSUME NEW d \in Calls, Enqueue(d)
      PROVE  WasHandled(c)'
  <2>1. /\ pending \in Seq(Calls) /\ arrival \in Seq(Calls)
        /\ pending' = Append(pending, d) /\ arrival' = Append(arrival, d)
        /\ batch' = batch /\ handled' = handled
    BY <1>2 DEF IInv, TypeOK, Enqueue
  <2>2. /\ Len(pending') = Len(pending) + 1 /\ Len(arrival') = Len(arrival) + 1
        /\ \A j \in 1..Len(arrival) : arrival'[j] = arrival[j]
    BY <2>1, AppendFacts
  <2>3. Taken' = Taken /\ k \in 1..Len(arrival)
    BY <2>2, QueueFacts DEF Taken
  <2>4. \A w \in Workers : worker'[w] = "place" => worker[w] = "place"
    BY <1>2 DEF IInv, TypeOK, Enqueue
  <2>5. Behind(k)'
    BY <1>0, <2>1, <2>3, <2>4 DEF Behind
  <2> QED  BY <1>0, <2>2, <2>3, <2>5 DEF WasHandled
<1>3. ASSUME NEW w \in Workers, TakeBatch(w)
      PROVE  WasHandled(c)'
  <2>1. /\ pending \in Seq(Calls) /\ batch \in [Workers -> Seq(Calls)]
        /\ worker \in [Workers -> {"none", "take", "place", "reply"}]
    BY DEF IInv, TypeOK
  <2>2. /\ TakeLength \in 0..Len(pending)
        /\ batch' = [batch EXCEPT ![w] = SubSeq(pending, 1, TakeLength)]
        /\ pending' = SubSeq(pending, TakeLength + 1, Len(pending))
        /\ worker' = [worker EXCEPT ![w] = "place"] /\ worker[w] = "take"
        /\ handled' = handled /\ arrival' = arrival
    BY <1>3, <2>1, TakeLengthFacts DEF TakeBatch, LeftAfter
  <2>3. Len(pending') = Len(pending) - TakeLength /\ Len(batch'[w]) = TakeLength
    BY <2>1, <2>2, SplitFacts
  <2>31. /\ Len(arrival') = Len(arrival) /\ Len(arrival) \in Nat
         /\ Len(pending) \in Nat /\ TakeLength \in Nat
    BY <2>2, QueueFacts
  <2>4. Taken' = Taken + TakeLength
    BY <2>3, <2>31 DEF Taken
  <2>5. handled[w] = 0 /\ \A v \in Workers \ {w} : worker'[v] = "none"
    BY <2>1, <2>2 DEF IInv, BatchInv, OneWorker, Working
  <2>6. k <= Taken' - Len(batch'[w]) + handled'[w]
    BY <2>2, <2>3, <2>4, <2>5, QueueFacts
  <2>7. Behind(k)'
    BY <2>5, <2>6 DEF Behind
  <2>8. k \in 1..Taken'
    BY <2>2, <2>4, QueueFacts
  <2> QED  BY <1>0, <2>2, <2>7, <2>8 DEF WasHandled
<1>4. ASSUME NEW w \in Workers, PlaceNext(w)
      PROVE  WasHandled(c)'
  <2>1. /\ UNCHANGED <<arrival, pending, batch, worker>>
        /\ handled' = [handled EXCEPT ![w] = @ + 1] /\ handled \in [Workers -> Nat]
    BY <1>4 DEF IInv, TypeOK, PlaceNext
  <2>2. \A v \in Workers : handled'[v] \in Nat /\ handled[v] <= handled'[v]
    BY <2>1
  <2>3. \A v \in Workers : worker[v] = "place" => k <= Taken - Len(batch[v]) + handled'[v]
    BY <1>0, <2>2, QueueFacts DEF Behind
  <2>4. Taken' = Taken
    BY <2>1 DEF Taken
  <2> QED  BY <1>0, <2>1, <2>3, <2>4 DEF WasHandled, Behind
<1>5. ASSUME NEW w \in Workers,
             WorkerExit(w) \/ BatchRefused(w) \/ PlaceDone(w) \/ Reply(w) \/ NextBatch(w)
      PROVE  WasHandled(c)'
  <2>1. UNCHANGED <<arrival, pending>>
    BY <1>5 DEF WorkerExit, BatchRefused, PlaceDone, Reply, NextBatch
  <2>2. \A v \in Workers : worker'[v] = "place" => v # w /\ worker[v] = "place"
    BY <1>5 DEF IInv, TypeOK, WorkerExit, BatchRefused, PlaceDone, Reply, NextBatch
  <2>3. \A v \in Workers \ {w} : batch'[v] = batch[v] /\ handled'[v] = handled[v]
    BY <1>5 DEF IInv, TypeOK, WorkerExit, BatchRefused, PlaceDone, Reply, NextBatch
  <2>4. Taken' = Taken
    BY <2>1 DEF Taken
  <2>5. Behind(k)'
    BY <1>0, <2>2, <2>3, <2>4 DEF Behind
  <2> QED  BY <1>0, <2>1, <2>4, <2>5 DEF WasHandled
<1>6. CASE \E d \in Calls : Refuse(d) \/ Expire(d) \/ ReceiveOutcome(d) \/ GiveUp(d)
  BY <1>1, <1>6 DEF Refuse, Expire, ReceiveOutcome, GiveUp
<1>7. CASE Close \/ CloseWAL \/ UNCHANGED vars
  BY <1>1, <1>7 DEF Close, CloseWAL, vars
<1> QED  BY <1>2, <1>3, <1>4, <1>5, <1>6, <1>7 DEF Next, WorkerStep

(* A call is admitted at most once: only a new call is, and it is new no more. *)
LEMMA AdmittedOnceStep ==
  ASSUME IInv, AdmittedOnce, [Next]_vars
  PROVE  AdmittedOnce'
<1>1. ASSUME NEW c \in Calls, Enqueue(c)
      PROVE  AdmittedOnce'
  <2>1. /\ arrival \in Seq(Calls) /\ arrival' = Append(arrival, c)
        /\ call \in [Calls -> {"new", "waiting", "returned"}]
        /\ call[c] = "new" /\ call' = [call EXCEPT ![c] = "waiting"]
    BY <1>1 DEF IInv, TypeOK, Enqueue
  <2>2. /\ DOMAIN arrival' = 1..(Len(arrival) + 1)
        /\ \A i \in 1..Len(arrival) : arrival'[i] = arrival[i]
        /\ arrival'[Len(arrival) + 1] = c
    BY <2>1, AppendFacts
  <2>3. /\ Len(arrival) \in Nat /\ DOMAIN arrival = 1..Len(arrival)
        /\ \A i \in 1..Len(arrival) : arrival[i] \in Calls
    BY <2>1, QueueFacts, ElementOfSeq
  <2>4. \A i \in 1..Len(arrival) : arrival[i] # c /\ call'[arrival[i]] # "new"
    BY <2>1, <2>3 DEF AdmittedOnce
  <2>5. ASSUME NEW i \in DOMAIN arrival', NEW j \in DOMAIN arrival', arrival'[i] = arrival'[j]
        PROVE  i = j
    <3>1. CASE i \in 1..Len(arrival) /\ j \in 1..Len(arrival)
      BY <2>2, <2>3, <2>5, <3>1 DEF AdmittedOnce
    <3>2. CASE i = Len(arrival) + 1 \/ j = Len(arrival) + 1
      BY <2>2, <2>3, <2>4, <2>5, <3>2
    <3> QED  BY <2>2, <2>3, <2>5, <3>1, <3>2
  <2>6. ASSUME NEW i \in DOMAIN arrival'  PROVE call'[arrival'[i]] # "new"
    <3>1. CASE i \in 1..Len(arrival)
      BY <2>2, <2>4, <3>1
    <3>2. CASE i = Len(arrival) + 1
      BY <2>1, <2>2, <3>2
    <3> QED  BY <2>2, <2>3, <3>1, <3>2
  <2> QED  BY <2>5, <2>6 DEF AdmittedOnce
<1>2. ASSUME arrival' = arrival, \A c \in Calls : call'[c] = "new" => call[c] = "new"
      PROVE  AdmittedOnce'
  <2>1. \A i \in DOMAIN arrival : arrival[i] \in Calls
    BY QueueFacts, ElementOfSeq DEF IInv, TypeOK
  <2> QED  BY <1>2, <2>1 DEF AdmittedOnce
<1>3. ASSUME NEW c \in Calls, Refuse(c) \/ Expire(c) \/ ReceiveOutcome(c) \/ GiveUp(c)
      PROVE  AdmittedOnce'
  <2>1. arrival' = arrival /\ \A d \in Calls : call'[d] = "new" => call[d] = "new"
    BY <1>3 DEF IInv, TypeOK, Refuse, Expire, ReceiveOutcome, GiveUp
  <2> QED  BY <1>2, <2>1
<1>4. ASSUME NEW w \in Workers, WorkerStep(w)
      PROVE  AdmittedOnce'
  <2>1. UNCHANGED <<arrival, call>>
    BY <1>4 DEF WorkerStep, WorkerExit, TakeBatch, BatchRefused, PlaceNext, PlaceDone,
                Reply, NextBatch
  <2> QED  BY <1>2, <2>1
<1>5. CASE Close \/ CloseWAL \/ UNCHANGED vars
  <2>1. UNCHANGED <<arrival, call>>
    BY <1>5 DEF Close, CloseWAL, vars
  <2> QED  BY <1>2, <2>1
<1> QED  BY <1>1, <1>3, <1>4, <1>5 DEF Next

(* A batch being placed was taken from the arrivals. *)
LEMMA BatchWasTaken ==
  ASSUME IInv, NEW w \in Workers, worker[w] = "place", NEW c \in Calls, HeldBy(w, c)
  PROVE  \E k \in 1..Taken : arrival[k] = c
<1>1. PICK i \in 1..Len(batch[w]) : batch[w][i] = c
  BY QueueFacts DEF HeldBy
<1>2. /\ Len(batch[w]) <= Taken /\ arrival[Taken - Len(batch[w]) + i] = c
  BY <1>1 DEF IInv, BatchInv
<1>3. Taken - Len(batch[w]) + i \in 1..Taken
  BY <1>2, QueueFacts
<1> QED  BY <1>2, <1>3

(* Whatever a worker replies to, it has gone through. *)
LEMMA RepliesStep ==
  ASSUME IInv, RepliesInv, [Next]_vars
  PROVE  RepliesInv'
<1>1. ASSUME \A v \in Workers : worker'[v] = "reply" => worker[v] = "reply" /\ batch'[v] = batch[v]
      PROVE  RepliesInv'
  BY <1>1, HandledStays DEF RepliesInv, HeldBy
<1>2. ASSUME NEW c \in Calls,
             Refuse(c) \/ Enqueue(c) \/ Expire(c) \/ ReceiveOutcome(c) \/ GiveUp(c)
      PROVE  RepliesInv'
  <2>1. \A v \in Workers : worker'[v] = "reply" => worker[v] = "reply" /\ batch'[v] = batch[v]
    BY <1>2 DEF IInv, TypeOK, Refuse, Enqueue, Expire, ReceiveOutcome, GiveUp
  <2> QED  BY <1>1, <2>1
<1>3. ASSUME NEW w \in Workers,
             WorkerExit(w) \/ TakeBatch(w) \/ PlaceNext(w) \/ NextBatch(w)
      PROVE  RepliesInv'
  <2>1. \A v \in Workers : worker'[v] = "reply" => worker[v] = "reply" /\ batch'[v] = batch[v]
    BY <1>3 DEF IInv, TypeOK, WorkerExit, TakeBatch, PlaceNext, NextBatch
  <2> QED  BY <1>1, <2>1
<1>4. ASSUME NEW w \in Workers, BatchRefused(w) \/ PlaceDone(w)
      PROVE  RepliesInv'
  <2>1. /\ UNCHANGED <<batch, arrival, pending>> /\ worker[w] = "place"
        /\ \A v \in Workers : worker'[v] # "place"
        /\ \A v \in Workers : worker'[v] = "reply" => v = w
    BY <1>4 DEF IInv, TypeOK, OneWorker, Working, BatchRefused, PlaceDone
  <2>2. ASSUME NEW c \in Calls, HeldBy(w, c)  PROVE WasHandled(c)'
    <3>1. PICK k \in 1..Taken : arrival[k] = c
      BY <2>1, <2>2, BatchWasTaken
    <3>2. Taken' = Taken
      BY <2>1 DEF Taken
    <3> QED  BY <2>1, <3>1, <3>2 DEF WasHandled, Behind
  <2> QED  BY <2>1, <2>2 DEF RepliesInv, HeldBy
<1>5. ASSUME NEW w \in Workers, Reply(w)
      PROVE  RepliesInv'
  <2>1. /\ worker' = worker /\ worker[w] = "reply" /\ batch[w] # <<>>
        /\ batch \in [Workers -> Seq(Calls)] /\ batch' = [batch EXCEPT ![w] = Tail(@)]
    BY <1>5 DEF IInv, TypeOK, Reply
  <2>2. \A c \in Calls : HeldBy(w, c)' => HeldBy(w, c)
    <3>1. /\ batch'[w] = Tail(batch[w]) /\ batch[w] \in Seq(Calls)
      BY <2>1
    <3>2. /\ Len(Tail(batch[w])) = Len(batch[w]) - 1
          /\ DOMAIN Tail(batch[w]) = 1..(Len(batch[w]) - 1)
          /\ \A i \in 1..(Len(batch[w]) - 1) : Tail(batch[w])[i] = batch[w][i + 1]
      BY <2>1, <3>1, HeadTailProperties, LenProperties
    <3>3. \A i \in 1..(Len(batch[w]) - 1) : i + 1 \in DOMAIN batch[w]
      BY QueueFacts
    <3> QED  BY <3>1, <3>2, <3>3 DEF HeldBy
  <2>3. \A v \in Workers \ {w} : batch'[v] = batch[v]
    BY <2>1
  <2>4. \A v \in Workers, c \in Calls : HeldBy(v, c)' => HeldBy(v, c)
    BY <2>2, <2>3 DEF HeldBy
  <2> QED  BY <2>1, <2>4, HandledStays DEF RepliesInv
<1>6. CASE Close \/ CloseWAL \/ UNCHANGED vars
  <2>1. UNCHANGED <<worker, batch>>
    BY <1>6 DEF Close, CloseWAL, vars
  <2> QED  BY <1>1, <2>1
<1> QED  BY <1>2, <1>3, <1>4, <1>5, <1>6 DEF Next, WorkerStep

(* The request a worker comes to is an arrival nobody has gone through, and is
   one afterwards. *)
LEMMA NextIsFresh ==
  ASSUME IInv, AdmittedOnce, NEW w \in Workers, PlaceNext(w),
         NEW c, c = batch[w][handled[w] + 1]
  PROVE  /\ c \in Calls
         /\ \E k \in DOMAIN arrival : arrival[k] = c
         /\ ~WasHandled(c)
         /\ WasHandled(c)'
<1>1. PICK at : at = Taken - Len(batch[w]) + handled[w] + 1
  OBVIOUS
<1>2. /\ batch[w] \in Seq(Calls) /\ handled[w] \in Nat /\ Len(batch[w]) \in Nat
      /\ handled[w] < Len(batch[w]) /\ worker[w] = "place"
      /\ Taken \in Nat /\ Taken <= Len(arrival) /\ Len(arrival) \in Nat
      /\ DOMAIN arrival = 1..Len(arrival)
  BY QueueFacts DEF IInv, TypeOK, PlaceNext
<1>3. handled[w] + 1 \in 1..Len(batch[w]) /\ Len(batch[w]) <= Taken
  BY <1>2 DEF IInv, BatchInv
<1>4. c \in Calls
  BY <1>2, <1>3, ElementOfSeq
<1>5. at = Taken - Len(batch[w]) + (handled[w] + 1) /\ at \in 1..Taken
  BY <1>1, <1>2, <1>3, PlaceOfNext
<1>6. arrival[at] = c
  BY <1>2, <1>3, <1>5 DEF IInv, BatchInv
<1>7. ~WasHandled(c)
  <2>1. ASSUME NEW k \in 1..Taken, arrival[k] = arrival[at], Behind(k)  PROVE FALSE
    <3>1. k = at
      BY <1>2, <1>5, <2>1 DEF AdmittedOnce
    <3>2. k <= Taken - Len(batch[w]) + handled[w]
      BY <1>2, <2>1 DEF Behind
    <3> QED  BY <1>1, <1>2, <1>3, <3>1, <3>2
  <2> QED  BY <1>6, <2>1 DEF WasHandled
<1>8. WasHandled(c)'
  <2>1. /\ UNCHANGED <<arrival, pending, batch, worker>>
        /\ handled' = [handled EXCEPT ![w] = @ + 1] /\ handled \in [Workers -> Nat]
    BY DEF IInv, TypeOK, PlaceNext
  <2>2. handled'[w] = handled[w] + 1 /\ Taken' = Taken
    BY <2>1 DEF Taken
  <2>3. \A v \in Workers : worker[v] = "place" => v = w
    BY <1>2 DEF IInv, OneWorker, Working
  <2>4. Behind(at)'
    BY <1>2, <1>3, <1>5, <2>1, <2>2, <2>3 DEF Behind
  <2> QED  BY <1>5, <1>6, <2>1, <2>2, <2>4 DEF WasHandled
<1> QED  BY <1>2, <1>4, <1>5, <1>6, <1>7, <1>8

(* Refusals stay true: an outcome exists only for a request the worker has gone
   through, and a refused request is not placed. *)
LEMMA RefusedStep ==
  ASSUME IInv, RInv, [Next]_vars
  PROVE  RefusedInv'
<1>0. AdmittedOnce /\ RepliesInv /\ RefusedInv /\ RepliesInv' /\ TypeOK
  BY RepliesStep DEF RInv, IInv
<1>a. \A c \in Calls : IsPlaced(c) => WasHandled(c)
  BY PlacedWasHandled
<1>b. \A c \in Calls : WasHandled(c) => WasHandled(c)'
  BY HandledStays
<1>1. ASSUME UNCHANGED <<outcome, done, answer, placed, arrival, call>>
      PROVE  RefusedInv'
  BY <1>0, <1>1, <1>b DEF RefusedInv, IsPlaced
<1>2. ASSUME NEW c \in Calls, Refuse(c)
      PROVE  RefusedInv'
  <2>1. /\ UNCHANGED <<outcome, done, placed, arrival>>
        /\ call' = [call EXCEPT ![c] = "returned"] /\ call[c] = "new"
        /\ \A d \in Calls \ {c} : answer'[d] = answer[d]
    BY <1>0, <1>2 DEF TypeOK, Refuse
  <2>2. \A i \in DOMAIN arrival : arrival[i] # c
    BY <1>0, <2>1 DEF AdmittedOnce
  <2>3. ~WasHandled(c)
    <3>1. \A k \in 1..Taken : k \in DOMAIN arrival
      BY QueueFacts
    <3> QED  BY <2>2, <3>1 DEF WasHandled
  <2>4. ~IsPlaced(c)
    BY <1>a, <2>3
  <2>5. call'[c] = "returned" /\ \A d \in Calls \ {c} : call'[d] = call[d]
    BY <1>0, <2>1 DEF TypeOK
  <2> QED  BY <1>0, <1>b, <2>1, <2>2, <2>4, <2>5 DEF RefusedInv, IsPlaced
<1>3. ASSUME NEW c \in Calls, Enqueue(c)
      PROVE  RefusedInv'
  <2>1. /\ UNCHANGED <<outcome, done, answer, placed>>
        /\ call[c] = "new" /\ call' = [call EXCEPT ![c] = "waiting"]
        /\ arrival \in Seq(Calls) /\ arrival' = Append(arrival, c)
    BY <1>0, <1>3 DEF TypeOK, Enqueue
  <2>2. \A d \in Calls \ {c} : call'[d] = call[d]
    BY <1>0, <2>1 DEF TypeOK
  <2>3. \A d \in Calls \ {c} :
          (\A i \in DOMAIN arrival : arrival[i] # d) => \A i \in DOMAIN arrival' : arrival'[i] # d
    <3>1. /\ DOMAIN arrival' = 1..(Len(arrival) + 1)
          /\ \A i \in 1..Len(arrival) : arrival'[i] = arrival[i]
          /\ arrival'[Len(arrival) + 1] = c
      BY <2>1, AppendFacts
    <3>2. Len(arrival) \in Nat /\ DOMAIN arrival = 1..Len(arrival)
      BY QueueFacts
    <3> QED  BY <3>1, <3>2
  <2>4. ~WasHandled(c)' => answer'[c] # "invalid"
    BY <1>0, <1>b, <2>1 DEF RefusedInv
  <2> QED  BY <1>0, <1>b, <2>1, <2>2, <2>3, <2>4 DEF RefusedInv, IsPlaced
<1>4. ASSUME NEW c \in Calls, Expire(c)
      PROVE  RefusedInv'
  BY <1>1, <1>4 DEF Expire
<1>5. ASSUME NEW c \in Calls, ReceiveOutcome(c)
      PROVE  RefusedInv'
  <2>1. /\ UNCHANGED <<outcome, placed, arrival>>
        /\ done[c] # "none" /\ answer'[c] = done[c] /\ done'[c] = "none"
        /\ \A d \in Calls \ {c} : /\ answer'[d] = answer[d] /\ done'[d] = done[d]
                                   /\ call'[d] = call[d]
    BY <1>0, <1>5 DEF TypeOK, ReceiveOutcome
  <2>2. WasHandled(c)
    BY <1>0, <2>1 DEF RefusedInv
  <2> QED  BY <1>0, <1>b, <2>1, <2>2 DEF RefusedInv, IsPlaced
<1>6. ASSUME NEW c \in Calls, GiveUp(c)
      PROVE  RefusedInv'
  <2>1. /\ UNCHANGED <<outcome, done, placed, arrival>>
        /\ answer'[c] = "retry"
        /\ \A d \in Calls \ {c} : answer'[d] = answer[d] /\ call'[d] = call[d]
    BY <1>0, <1>6 DEF TypeOK, GiveUp, DeadlineStatus
  <2> QED  BY <1>0, <1>b, <2>1 DEF RefusedInv, IsPlaced
<1>7. ASSUME NEW w \in Workers, WorkerExit(w) \/ TakeBatch(w) \/ NextBatch(w)
      PROVE  RefusedInv'
  BY <1>1, <1>7 DEF WorkerExit, TakeBatch, NextBatch
<1>8. ASSUME NEW w \in Workers, BatchRefused(w) \/ PlaceDone(w)
      PROVE  RefusedInv'
  <2>1. /\ UNCHANGED <<done, answer, placed, arrival, call, batch>> /\ worker'[w] = "reply"
        /\ \A c \in Calls : outcome'[c] # outcome[c] => HeldBy(w, c) /\ outcome'[c] = "retry"
    BY <1>0, <1>8 DEF TypeOK, BatchRefused, PlaceDone
  <2>2. \A c \in Calls : HeldBy(w, c) => WasHandled(c)'
    BY <1>0, <2>1 DEF RepliesInv, HeldBy
  <2> QED  BY <1>0, <1>b, <2>1, <2>2 DEF RefusedInv, IsPlaced
<1>9. ASSUME NEW w \in Workers, PlaceNext(w)
      PROVE  RefusedInv'
  <2>0. PICK c : c = batch[w][handled[w] + 1]
    OBVIOUS
  <2>1. /\ c \in Calls /\ ~WasHandled(c) /\ WasHandled(c)'
        /\ \E k \in DOMAIN arrival : arrival[k] = c
    BY <1>0, <1>9, <2>0, NextIsFresh
  <2>2. ~IsPlaced(c) /\ done[c] = "none" /\ answer[c] # "invalid"
    BY <1>0, <1>a, <2>1 DEF RefusedInv
  <2>3. /\ UNCHANGED <<done, answer, arrival, call>>
        /\ \A d \in Calls \ {c} : outcome'[d] = outcome[d]
        /\ \/ placed' = placed
           \/ placed' = Append(placed, c) /\ outcome'[c] = "ok"
    BY <1>0, <1>9, <2>0, <2>1 DEF TypeOK, PlaceNext
  <2>4. \A d \in Calls \ {c} : IsPlaced(d)' => IsPlaced(d)
    <3>1. CASE placed' = placed
      BY <3>1 DEF IsPlaced
    <3>2. CASE placed' = Append(placed, c)
      <4>1. placed \in Seq(Calls) /\ Len(placed) \in Nat /\ DOMAIN placed = 1..Len(placed)
        BY <1>0, QueueFacts DEF TypeOK
      <4>2. /\ DOMAIN placed' = 1..(Len(placed) + 1)
            /\ \A i \in 1..Len(placed) : placed'[i] = placed[i]
            /\ placed'[Len(placed) + 1] = c
        BY <2>1, <3>2, <4>1, AppendFacts
      <4> QED  BY <4>1, <4>2 DEF IsPlaced
    <3> QED  BY <2>3, <3>1, <3>2
  <2>5. outcome'[c] = "invalid" => ~IsPlaced(c)'
    BY <2>2, <2>3 DEF IsPlaced
  <2> QED  BY <1>0, <1>b, <2>1, <2>2, <2>3, <2>4, <2>5 DEF RefusedInv
<1>10. ASSUME NEW w \in Workers, Reply(w)
       PROVE  RefusedInv'
  <2>0. PICK c : c = Head(batch[w])
    OBVIOUS
  <2>1. /\ batch[w] \in Seq(Calls) /\ batch[w] # <<>> /\ worker[w] = "reply"
        /\ done' = [done EXCEPT ![c] = outcome[c]] /\ outcome' = [outcome EXCEPT ![c] = "none"]
        /\ UNCHANGED <<answer, placed, arrival, call>>
    BY <1>0, <1>10, <2>0 DEF TypeOK, Reply
  <2>2. c \in Calls /\ HeldBy(w, c)
    <3>1. Len(batch[w]) \in Nat /\ Len(batch[w]) # 0
      BY <2>1, LenProperties, EmptySeq
    <3>2. 1 \in 1..Len(batch[w]) /\ c = batch[w][1]
      BY <2>0, <2>1, <3>1
    <3> QED  BY <2>1, <3>2, ElementOfSeq, QueueFacts DEF HeldBy
  <2>3. WasHandled(c)
    BY <1>0, <2>1, <2>2 DEF RepliesInv
  <2>4. /\ done'[c] = outcome[c] /\ outcome'[c] = "none"
        /\ \A d \in Calls \ {c} : done'[d] = done[d] /\ outcome'[d] = outcome[d]
    BY <1>0, <2>1, <2>2 DEF TypeOK
  <2> QED  BY <1>0, <1>b, <2>1, <2>2, <2>3, <2>4 DEF RefusedInv, IsPlaced
<1>11. CASE Close \/ CloseWAL \/ UNCHANGED vars
  BY <1>1, <1>11 DEF Close, CloseWAL, vars
<1> QED  BY <1>2, <1>3, <1>4, <1>5, <1>6, <1>7, <1>8, <1>9, <1>10, <1>11 DEF Next, WorkerStep

(* The refusals' invariant holds throughout. *)
LEMMA RefusalInvariance == Spec => []RInv
<1>1. Init => RInv
  <2> SUFFICES ASSUME Init PROVE RInv
    OBVIOUS
  <2>1. DOMAIN arrival = {} /\ DOMAIN placed = {}
    BY EmptySeq, LenProperties DEF Init
  <2>2. AdmittedOnce /\ RepliesInv
    BY <2>1 DEF Init, AdmittedOnce, RepliesInv
  <2>3. RefusedInv
    BY <2>1 DEF Init, RefusedInv
  <2> QED  BY <2>2, <2>3 DEF RInv
<1>2. IInv /\ RInv /\ [Next]_vars => RInv'
  BY AdmittedOnceStep, RepliesStep, RefusedStep DEF RInv
<1> QED  BY <1>1, <1>2, Invariance, PTL DEF Spec

(* drainOrders and enqueue agree on the running flag: there is never a second
   worker, whatever the number of callers. *)
THEOREM AtMostOneWorker == Spec => []OneWorker
<1>1. IInv => OneWorker  BY DEF IInv
<1> QED  BY <1>1, Invariance, PTL

(* No wakeup is lost: a queued request always has a worker that will come back
   to the queue. *)
THEOREM NoLostWakeup == Spec => []NothingStranded
<1>1. IInv => NothingStranded  BY DEF IInv, FlagInv, NothingStranded
<1> QED  BY <1>1, Invariance, PTL

(* Orders reach the batches in the order in which they were admitted. *)
THEOREM FirstInFirstPlaced == Spec => []PlacedInOrder
<1>1. IInv => PlacedInOrder  BY DEF IInv
<1> QED  BY <1>1, Invariance, PTL

(* Place returns success only for an order that a batch admitted, although a
   caller may leave and its context end at any moment. *)
THEOREM SuccessMeansPlaced == Spec => []SuccessIsPlaced
<1>1. IInv => SuccessIsPlaced  BY DEF IInv, SuccessInv, IsPlaced, SuccessIsPlaced
<1> QED  BY <1>1, Invariance, PTL

(* Close leaves no request queued and no worker behind that could use the WAL
   again. *)
THEOREM CloseDrains == Spec => []ClosedIsDrained
<1>1. IInv => ClosedIsDrained  BY DEF IInv, ClosedInv, ClosedIsDrained
<1> QED  BY <1>1, Invariance, PTL

(* The handler answers 400 only to requests whose orders are not placed and never
   will be: whatever may still be placed, its client is told to retry. *)
THEOREM RefusalIsFinal == Spec => []RefusedNeverPlaced
<1>1. RInv => RefusedNeverPlaced
  BY DEF RInv, RefusedInv, IsPlaced, RefusedNeverPlaced
<1> QED  BY <1>1, RefusalInvariance, PTL
=============================================================================
