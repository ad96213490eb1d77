SPECIFICATION FairSpec
CONSTANTS
  alice = alice
  m1 = m1
  m2 = m2
  s1 = s1
  s2 = s2
  e1 = e1
  e2 = e2
  o1 = o1
  o2 = o2
  o3 = o3
  NoMarket = NoMarket
  NoOrder = NoOrder
  NoTaker = NoTaker
  Users <- MCUsers
  Markets <- MCMarkets
  Symbols <- MCSymbols
  Engines <- MCEngines
  OrderIds <- MCOrderIds
  Partition <- MCPartition
  Requests <- MCRequests
  Creations <- MCCreations
  DepositSizes = {150}
  MaxBatch = 2
  MaxDeposited = 150
  MaxFaults = 2
INVARIANT BookMirrorsLedger
PROPERTIES
  ReservationSettles
  ServesAgain
