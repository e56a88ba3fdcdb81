SPECIFICATION PathSpec
CONSTANTS
  p1 = p1
  p2 = p2
  x = x
  NoToken = NoToken
  NoId = NoId
  Tokens = {1, 2}
  MaxRequests = 2
  MaxAge = 1
  Pages = {p1, p2}
  ClientIds = {x}
  Bearers = {"none", "demo"}
  Endpoints <- MCEverything
SYMMETRY PageSymmetry
INVARIANTS
  PathTypeOK
  LoggedAsAnswered
  QuietMetrics
  ScrapeCountsOnce
CHECK_DEADLOCK FALSE
