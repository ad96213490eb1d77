----------------------------- MODULE OrderQueue -----------------------------
(***************************************************************************)
(* Order admission (go-backend/internal/trading/order_batch.go): callers   *)
(* of Place append to a bounded queue, a worker goroutine that exists only *)
(* while there is work takes batches off its front, and Close waits for    *)
(* the worker before the WAL is closed.                                    *)
(*                                                                         *)
(* pendingMu makes an admission and a take atomic.  Here only the loop of  *)
(* placeBatchWithQuotes over its requests appears, one at a time, and      *)
(* whether the batch succeeds; TradingService models what it does.  A      *)
(* caller whose context ends leaves while its order is queued, is being    *)
(* placed, or is already answered.  An error is what durableOrderHandler   *)
(* makes of it: "retry" (503: the client asks again with the same id) or   *)
(* "invalid" (400: the order is refused).                                  *)
(***************************************************************************)
EXTENDS Naturals, Sequences

CONSTANTS
  Calls,      \* calls of Place, each made once
  Workers,    \* goroutines that can be started
  QueueBound, \* maxQueuedOrders
  BatchSize   \* cfg.OrderBatchSize

ASSUME QueueAssumption ==
  /\ QueueBound \in Nat \ {0}
  /\ BatchSize \in Nat \ {0}

VARIABLES
  call,     \* where each caller is: not called yet, waiting, returned
  expired,  \* the callers whose context has ended
  pending,  \* s.pending
  running,  \* s.running
  closed,   \* s.closed
  walOpen,  \* the WAL has not been closed by Close
  worker,   \* what each goroutine does
  batch,    \* the requests each goroutine holds
  handled,  \* how many of them placeBatchWithQuotes has gone through
  outcome,  \* outcomes[i] of a placed batch
  done,     \* request.done, a channel of capacity one
  answer,   \* what Place returned
  arrival,  \* every admitted call, in order of admission
  placed    \* every call whose order a batch admitted, in order

vars == <<call, expired, pending, running, closed, walOpen, worker, batch, handled,
          outcome, done, answer, arrival, placed>>

Answers == {"none", "ok", "invalid", "retry"}

TypeOK ==
  /\ call \in [Calls -> {"new", "waiting", "returned"}]
  /\ expired \in SUBSET Calls
  /\ pending \in Seq(Calls)
  /\ running \in BOOLEAN
  /\ closed \in BOOLEAN
  /\ walOpen \in BOOLEAN
  /\ worker \in [Workers -> {"none", "take", "place", "reply"}]
  /\ batch \in [Workers -> Seq(Calls)]
  /\ handled \in [Workers -> Nat]
  /\ outcome \in [Calls -> Answers]
  /\ done \in [Calls -> Answers]
  /\ answer \in [Calls -> Answers]
  /\ arrival \in Seq(Calls)
  /\ placed \in Seq(Calls)

Init ==
  /\ call = [c \in Calls |-> "new"]
  /\ expired = {}
  /\ pending = <<>>
  /\ running = FALSE
  /\ closed = FALSE
  /\ walOpen = TRUE
  /\ worker = [w \in Workers |-> "none"]
  /\ batch = [w \in Workers |-> <<>>]
  /\ handled = [w \in Workers |-> 0]
  /\ outcome = [c \in Calls |-> "none"]
  /\ done = [c \in Calls |-> "none"]
  /\ answer = [c \in Calls |-> "none"]
  /\ arrival = <<>>
  /\ placed = <<>>

-----------------------------------------------------------------------------
(* The caller. *)

Refused(c) == c \in expired \/ closed \/ Len(pending) >= QueueBound

(* enqueue returns at once: context over, service closed or queue full.  The
   handler knows the first and the last error, not that of a closed service. *)
Refusal(c) == IF c \notin expired /\ closed THEN "invalid" ELSE "retry"

Refuse(c) ==
  /\ call[c] = "new"
  /\ Refused(c)
  /\ call' = [call EXCEPT ![c] = "returned"]
  /\ answer' = [answer EXCEPT ![c] = Refusal(c)]
  /\ UNCHANGED <<expired, pending, running, closed, walOpen, worker, batch,
                 handled, outcome, done, arrival, placed>>

(* Mutation: a worker is started whenever the queue was empty. *)
NeedsWorkerWhenEmpty == pending = <<>>

NeedsWorker == ~running

(* One goroutine is as good as another. *)
FreeSlot == CHOOSE w \in Workers : worker[w] = "none"

(* enqueue admits the request and starts a worker if none is running. *)
Enqueue(c) ==
  /\ call[c] = "new"
  /\ ~Refused(c)
  /\ call' = [call EXCEPT ![c] = "waiting"]
  /\ pending' = Append(pending, c)
  /\ arrival' = Append(arrival, c)
  /\ IF NeedsWorker
     THEN /\ running' = TRUE
          /\ \E w \in Workers :
               /\ w = FreeSlot /\ worker[w] = "none"
               /\ worker' = [worker EXCEPT ![w] = "take"]
     ELSE UNCHANGED <<running, worker>>
  /\ UNCHANGED <<expired, closed, walOpen, batch, handled, outcome, done,
                 answer, placed>>

(* A deadline passes or a client disconnects, at any moment of its call. *)
Expire(c) ==
  /\ call[c] # "returned"
  /\ c \notin expired
  /\ expired' = expired \cup {c}
  /\ UNCHANGED <<call, pending, running, closed, walOpen, worker, batch,
                 handled, outcome, done, answer, arrival, placed>>

(* The two arms of enqueue's select; when both are ready either may run. *)
ReceiveOutcome(c) ==
  /\ call[c] = "waiting"
  /\ done[c] # "none"
  /\ call' = [call EXCEPT ![c] = "returned"]
  /\ answer' = [answer EXCEPT ![c] = done[c]]
  /\ done' = [done EXCEPT ![c] = "none"]
  /\ UNCHANGED <<expired, pending, running, closed, walOpen, worker, batch,
                 handled, outcome, arrival, placed>>

(* Mutation: the handler does not tell deadlines and disconnects from errors of
   the order. *)
DeadlineStatusInvalid == "invalid"

(* DeadlineExceeded and Canceled are among the errors to retry. *)
DeadlineStatus == "retry"

GiveUp(c) ==
  /\ call[c] = "waiting"
  /\ c \in expired
  /\ call' = [call EXCEPT ![c] = "returned"]
  /\ answer' = [answer EXCEPT ![c] = DeadlineStatus]
  /\ UNCHANGED <<expired, pending, running, closed, walOpen, worker, batch,
                 handled, outcome, done, arrival, placed>>

-----------------------------------------------------------------------------
(* The worker. *)

(* Mutation: the worker takes full batches only. *)
TakeLengthFull == IF Len(pending) >= BatchSize THEN BatchSize ELSE 0

TakeLength == IF Len(pending) <= BatchSize THEN Len(pending) ELSE BatchSize

(* Mutation: the front of the queue is taken without being removed. *)
LeftAfterNone(n) == pending

(* What stays in the queue once its first n requests are taken. *)
LeftAfter(n) == SubSeq(pending, n + 1, Len(pending))

(* Mutation: a worker that ends leaves the flag set. *)
RunningAfterExitSet == TRUE

RunningAfterExit == FALSE

(* drainOrders finds nothing: under the same lock the flag is cleared. *)
WorkerExit(w) ==
  /\ worker[w] = "take"
  /\ TakeLength = 0
  /\ running' = RunningAfterExit
  /\ worker' = [worker EXCEPT ![w] = "none"]
  /\ UNCHANGED <<call, expired, pending, closed, walOpen, batch, handled,
                 outcome, done, answer, arrival, placed>>

TakeBatch(w) ==
  /\ worker[w] = "take"
  /\ TakeLength > 0
  /\ batch' = [batch EXCEPT ![w] = SubSeq(pending, 1, TakeLength)]
  /\ pending' = LeftAfter(TakeLength)
  /\ worker' = [worker EXCEPT ![w] = "place"]
  /\ UNCHANGED <<call, expired, running, closed, walOpen, handled, outcome,
                 done, answer, arrival, placed>>

(* Mutation: a request whose context ended is skipped and keeps the zero
   outcome, which is success. *)
SkippedOutcomeNil == "ok"

SkippedOutcome == "retry"

HeldBy(w, c) == \E i \in DOMAIN batch[w] : batch[w][i] = c

(* A failure is latched when the batch has the lock: none of it is looked at. *)
BatchRefused(w) ==
  /\ worker[w] = "place"
  /\ handled[w] = 0
  /\ outcome' = [c \in Calls |-> IF HeldBy(w, c) THEN "retry" ELSE outcome[c]]
  /\ worker' = [worker EXCEPT ![w] = "reply"]
  /\ UNCHANGED <<call, expired, pending, running, closed, walOpen, batch, handled,
                 done, answer, arrival, placed>>

(* One turn of the loop over the requests: the context is looked at again, an
   inadmissible order is an error of its own request only, any other order
   becomes part of the batch. *)
PlaceNext(w) ==
  /\ worker[w] = "place"
  /\ handled[w] < Len(batch[w])
  /\ handled' = [handled EXCEPT ![w] = @ + 1]
  /\ LET c == batch[w][handled[w] + 1]
     IN  \/ /\ c \in expired
            /\ outcome' = [outcome EXCEPT ![c] = SkippedOutcome]
            /\ UNCHANGED placed
         \/ /\ c \notin expired
            /\ outcome' = [outcome EXCEPT ![c] = "invalid"]
            /\ UNCHANGED placed
         \/ /\ c \notin expired
            /\ outcome' = [outcome EXCEPT ![c] = "ok"]
            /\ placed' = Append(placed, c)
  /\ UNCHANGED <<call, expired, pending, running, closed, walOpen, worker,
                 batch, done, answer, arrival>>

(* The batch is committed, or it failed and every order it admitted is
   uncertain. *)
PlaceDone(w) ==
  /\ worker[w] = "place"
  /\ handled[w] = Len(batch[w])
  /\ \/ UNCHANGED outcome
     \/ outcome' = [c \in Calls |-> IF HeldBy(w, c) /\ outcome[c] = "ok" THEN "retry"
                                   ELSE outcome[c]]
  /\ handled' = [handled EXCEPT ![w] = 0]
  /\ worker' = [worker EXCEPT ![w] = "reply"]
  /\ UNCHANGED <<call, expired, pending, running, closed, walOpen, batch, done,
                 answer, arrival, placed>>

(* Mutation: the channel has no buffer, a send needs a caller that listens. *)
CanSendUnbuffered(c) == done[c] = "none" /\ call[c] = "waiting"

(* A send blocks while the channel, of capacity one, holds a value. *)
CanSend(c) == done[c] = "none"

(* request.done <- outcomes[i] *)
Reply(w) ==
  /\ worker[w] = "reply"
  /\ batch[w] # <<>>
  /\ LET c == Head(batch[w])
     IN  /\ CanSend(c)
         /\ done' = [done EXCEPT ![c] = outcome[c]]
         /\ outcome' = [outcome EXCEPT ![c] = "none"]
  /\ batch' = [batch EXCEPT ![w] = Tail(@)]
  /\ UNCHANGED <<call, expired, pending, running, closed, walOpen, worker,
                 handled, answer, arrival, placed>>

NextBatch(w) ==
  /\ worker[w] = "reply"
  /\ batch[w] = <<>>
  /\ worker' = [worker EXCEPT ![w] = "take"]
  /\ UNCHANGED <<call, expired, pending, running, closed, walOpen, batch,
                 handled, outcome, done, answer, arrival, placed>>

WorkerStep(w) ==
  \/ WorkerExit(w) \/ TakeBatch(w) \/ BatchRefused(w) \/ PlaceNext(w) \/ PlaceDone(w)
  \/ Reply(w) \/ NextBatch(w)

-----------------------------------------------------------------------------
(* Close. *)

Close ==
  /\ ~closed
  /\ closed' = TRUE
  /\ UNCHANGED <<call, expired, pending, running, walOpen, worker, batch,
                 handled, outcome, done, answer, arrival, placed>>

(* Mutation: Close does not wait for the worker. *)
WorkersDoneAlways == TRUE

(* s.workers.Wait() returns. *)
WorkersDone == \A w \in Workers : worker[w] = "none"

CloseWAL ==
  /\ closed /\ walOpen
  /\ WorkersDone
  /\ walOpen' = FALSE
  /\ UNCHANGED <<call, expired, pending, running, closed, worker, batch,
                 handled, outcome, done, answer, arrival, placed>>

Next ==
  \/ \E c \in Calls :
       Refuse(c) \/ Enqueue(c) \/ Expire(c) \/ ReceiveOutcome(c) \/ GiveUp(c)
  \/ \E w \in Workers : WorkerStep(w)
  \/ Close
  \/ CloseWAL

Spec == Init /\ [][Next]_vars

(* Goroutines are scheduled, and a batch that has s.mu has a deadline of its
   own; the operations it waits for there are assumed to end.  Nothing makes a
   client call, a context end or an operator close the service. *)
FairSpec ==
  /\ Spec
  /\ \A w \in Workers : WF_vars(WorkerStep(w))
  /\ \A c \in Calls : WF_vars(ReceiveOutcome(c))
  /\ WF_vars(CloseWAL)

-----------------------------------------------------------------------------
Working(w) == worker[w] # "none"

(* enqueue's promise to "start a worker only while work exists": two workers
   would place two batches at once, in either order. *)
OneWorker == \A v, w \in Workers : Working(v) /\ Working(w) => v = w

(* No lost wakeup: whenever a request is queued a worker is there to take it,
   although the worker decides to end and the caller decides not to start one
   independently. *)
NothingStranded == pending # <<>> => \E w \in Workers : Working(w)

(* Orders are placed in the order of admission, none of them twice. *)
PlacedInOrder ==
  \A i, j \in DOMAIN placed :
    i < j => \E k, l \in DOMAIN arrival :
               k < l /\ arrival[k] = placed[i] /\ arrival[l] = placed[j]

(* A caller is told of success only if its order was placed, whatever became
   of its context meanwhile. *)
SuccessIsPlaced ==
  \A c \in Calls : answer[c] = "ok" => \E i \in DOMAIN placed : placed[i] = c

(* An order that was refused as invalid was not placed and never will be,
   whatever the queue holds: "the reservation still survives and may complete"
   is for answers that ask for a retry. *)
RefusedNeverPlaced ==
  \A c \in Calls : answer[c] = "invalid" => \A i \in DOMAIN placed : placed[i] # c

(* Close drains: once the WAL is closed no admitted request is queued or in a
   worker's hands, so none can reopen it. *)
ClosedIsDrained ==
  ~walOpen => pending = <<>> /\ \A w \in Workers : ~Working(w)

(* Every caller that waits gets an answer, its own context's end not needed. *)
EveryCallReturns == \A c \in Calls : call[c] = "waiting" ~> call[c] = "returned"

(* Close comes to its end, with a full queue behind it and callers gone. *)
CloseEnds == closed ~> ~walOpen

-----------------------------------------------------------------------------
(* The inductive invariant of the proofs. *)

(* The flag stands for the worker. *)
FlagInv ==
  /\ running <=> \E w \in Workers : Working(w)
  /\ pending # <<>> => running

(* The part of the arrivals that workers have taken. *)
Taken == Len(arrival) - Len(pending)

(* The queue is the end of the arrivals, a batch being placed comes right
   before it. *)
QueueInv ==
  /\ Taken \in Nat
  /\ \A i \in 1..Len(pending) : pending[i] = arrival[Taken + i]

BatchInv ==
  \A w \in Workers :
    IF worker[w] = "place"
    THEN /\ handled[w] <= Len(batch[w])
         /\ Len(batch[w]) <= Taken
         /\ \A i \in 1..Len(batch[w]) :
              batch[w][i] = arrival[Taken - Len(batch[w]) + i]
    ELSE handled[w] = 0

(* Where an admitted order may stand among the arrivals: before every request
   its batch has yet to handle. *)
Behind(k) ==
  \A w \in Workers :
    worker[w] = "place" => k <= Taken - Len(batch[w]) + handled[w]

PlacedInv ==
  \A i \in 1..Len(placed) :
    \E k \in 1..Taken : arrival[k] = placed[i] /\ Behind(k)

(* Wherever a success is on its way, the order is placed. *)
IsPlaced(c) == \E i \in DOMAIN placed : placed[i] = c
SuccessInv ==
  \A c \in Calls :
    outcome[c] = "ok" \/ done[c] = "ok" \/ answer[c] = "ok" => IsPlaced(c)

ClosedInv == ~walOpen => closed /\ ClosedIsDrained

IInv ==
  /\ TypeOK
  /\ FlagInv
  /\ OneWorker
  /\ ClosedInv
  /\ QueueInv
  /\ BatchInv
  /\ PlacedInv
  /\ PlacedInOrder
  /\ SuccessInv

-----------------------------------------------------------------------------
(* On top of it, what the refusals need. *)

(* A call is admitted once. *)
AdmittedOnce ==
  /\ \A i, j \in DOMAIN arrival : arrival[i] = arrival[j] => i = j
  /\ \A i \in DOMAIN arrival : call[arrival[i]] # "new"

(* The worker has gone through the call. *)
WasHandled(c) == \E k \in 1..Taken : arrival[k] = c /\ Behind(k)

RepliesInv ==
  \A w \in Workers, c \in Calls :
    worker[w] = "reply" /\ HeldBy(w, c) => WasHandled(c)

(* A call nobody has gone through has no outcome, and if it was refused it was
   never admitted; a refused call is not placed. *)
RefusedInv ==
  /\ \A c \in Calls : ~WasHandled(c) => outcome[c] = "none" /\ done[c] = "none"
  /\ \A c \in Calls :
       ~WasHandled(c) /\ answer[c] = "invalid" =>
         call[c] = "returned" /\ \A i \in DOMAIN arrival : arrival[i] # c
  /\ \A c \in Calls :
       outcome[c] = "invalid" \/ done[c] = "invalid" \/ answer[c] = "invalid"
         => ~IsPlaced(c)

RInv == AdmittedOnce /\ RepliesInv /\ RefusedInv
=============================================================================
