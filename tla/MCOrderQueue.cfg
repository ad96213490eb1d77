SPECIFICATION FairSpec
\* A closed service whose callers have all returned has nothing left to do.
CHECK_DEADLOCK FALSE
CONSTANTS
  c1 = c1
  c2 = c2
  c3 = c3
  w1 = w1
  w2 = w2
  Calls <- MCCalls
  Workers <- MCWorkers
  QueueBound = 2
  BatchSize = 2
INVARIANTS
  OneWorker
  NothingStranded
  PlacedInOrder
  SuccessIsPlaced
  RefusedNeverPlaced
  ClosedIsDrained
PROPERTIES
  EveryCallReturns
  CloseEnds
