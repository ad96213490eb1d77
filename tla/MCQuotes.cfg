SPECIFICATION Spec
CONSTANTS
  Prices = {1, 2}
  Subscribers = {s1, s2}
  Capacity = 1
  MaxSequence = 3
  MaxRebuilds = 1
  NoQuote = NoQuote
INVARIANTS
  QuotesCoherent
  NewestWins
  NoSendOnClosed
PROPERTY StaleEnds
CHECK_DEADLOCK FALSE
