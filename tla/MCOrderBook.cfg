SPECIFICATION Spec
CONSTANTS
  Submissions <- MCSubmissions
  MaxOrders = 6
  NoTaker = NoTaker
INVARIANTS
  LookupExact
  QuotesSound
  GarbageBounded
PROPERTIES
  ImplementsMatchingBook
