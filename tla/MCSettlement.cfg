SPECIFICATION Spec
CONSTANTS
  alice = alice
  bob = bob
  m1 = m1
  s1 = s1
  e1 = e1
  o1 = o1
  o2 = o2
  o3 = o3
  o4 = o4
  o5 = o5
  NoMarket = NoMarket
  NoOrder = NoOrder
  NoTaker = NoTaker
  Users <- MCUsers
  Markets <- MCMarkets
  Symbols <- MCSymbols
  Engines <- MCEngines
  OrderIds <- MCOrderIds
  Partition <- MCPartition
  Requests <- MCSettlementRequests
  Creations <- MCCreations
  DepositSizes = {120}
  MaxBatch = 1
  MaxDeposited = 240
  MaxFaults = 0
INVARIANT
  WinnersPaid
