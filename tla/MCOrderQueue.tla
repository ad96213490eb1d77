---------------------------- MODULE MCOrderQueue ----------------------------
(* Three calls against a queue of two and batches of two: the queue fills up,
   a call waits behind a batch in flight, a batch is partial, and the worker
   ends and is started again.  Two goroutine slots, so that a second worker
   could exist. *)
EXTENDS OrderQueue, TLC

CONSTANTS c1, c2, c3, w1, w2

MCCalls == {c1, c2, c3}
MCWorkers == {w1, w2}
=============================================================================
