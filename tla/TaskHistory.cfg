SPECIFICATION HistorySpec
CONSTANTS
  i1 = i1
  i2 = i2
  h1 = h1
  h2 = h2
  g1 = g1
  a = a
  b = b
  Keep = Keep
  NoRow = NoRow
  NoEntry = NoEntry
  Titles = {a}
  MaxId = 2
  MaxWrites = 5
  Instances = {i1}
  Handlers = {h1}
  GqlHandlers = {g1}
  Faults = TRUE
  GqlFaults = TRUE
  Ttl = 1
  Jitter = 0
INVARIANTS
  LostOnlyByOverlap
  RefusedOnlyByHole
  RefusalsBounded
CHECK_DEADLOCK FALSE
