\* The lookups are interchangeable and all properties are safety.
CONSTANTS
  c1 = c1
  l1 = l1
  l2 = l2
  Codes = {c1}
  Lookups = {l1, l2}
  IdleTimeout = 1
  TTL = 1
  MaxTime = 3
  MaxPrice = 2
  MaxRate = 2
  MaxCap = 1
SPECIFICATION QuoteSpec
SYMMETRY MCSymmetry
CHECK_DEADLOCK FALSE
INVARIANTS NeverBackwards CacheAgrees ExchangeFirst
