SPECIFICATION FairSpec
CONSTANTS
  i1 = i1
  i2 = i2
  h1 = h1
  h2 = h2
  g1 = g1
  a = a
  b = b
  Keep = Keep
  NoRow = NoRow
  NoEntry = NoEntry
  Titles = {a, b}
  MaxId = 2
  MaxWrites = 3
  Instances = {i1}
  Handlers = {h1, h2}
  GqlHandlers = {g1}
  Faults = TRUE
  GqlFaults = TRUE
  Ttl = 1
  Jitter = 1
INVARIANTS
  TypeOK
PROPERTIES
  StaleTableRefined
  EventuallyCoherent
CHECK_DEADLOCK FALSE
