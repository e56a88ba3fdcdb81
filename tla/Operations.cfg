SPECIFICATION FairOpSpec
CONSTANTS
  i1 = i1
  h1 = h1
  g1 = g1
  a = a
  b = b
  Keep = Keep
  NoRow = NoRow
  NoEntry = NoEntry
  NullArg = NullArg
  Titles = {a, b}
  MaxId = 2
  MaxWrites = 3
  Instances = {i1}
  Handlers = {h1}
  GqlHandlers = {g1}
  Faults = FALSE
  GqlFaults = TRUE
  Ttl = 1
  Jitter = 0
  MaxFields = 2
  Documents <- MCDocuments
INVARIANTS
  OpTypeOK
  AnsweredCreatesMade
  NullsExplained
  PayloadsOwn
PROPERTIES
  EveryOperationAnswered
  PlatformRefined
CHECK_DEADLOCK FALSE
