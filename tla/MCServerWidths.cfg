SPECIFICATION FairSpec
CONSTANTS
  alice = alice
  m1 = m1
  s1 = s1
  o1 = o1
  o2 = o2
  NoMarket = NoMarket
  NoOrder = NoOrder
  NoRequest = NoRequest
  NoOp = NoOp
  NoSnapshot = NoSnapshot
  Users <- MCUsers
  Markets <- MCMarkets
  Symbols <- MCSymbols
  OrderIds <- MCOrderIds
  Requests <- MCRequests
  MaxInt = 2
  MaxUint32 = 3
  MaxBigint = 1000
  QueueBound = 1
  MaxDeposited = 150
  MaxWaiting = 1
  MaxFaults = 0
PROPERTY ComesUp
