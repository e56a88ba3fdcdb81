SPECIFICATION Spec
CONSTANTS
  i1 = i1
  i2 = i2
  h1 = h1
  h2 = h2
  g1 = g1
  a = a
  b = b
  Keep = Keep
  NoRow = NoRow
  NoEntry = NoEntry
  Titles = {a, b}
  MaxId = 2
  MaxWrites = 4
  Instances = {i1}
  Handlers = {h1, h2}
  GqlHandlers = {}
  Faults = FALSE
  GqlFaults = FALSE
  Ttl = 2
  Jitter = 1
INVARIANTS
  StaleOnlyByRace
  CreateNeverRefused
CHECK_DEADLOCK FALSE
