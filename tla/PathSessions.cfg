SPECIFICATION PathSpec
CONSTANTS
  p1 = p1
  p2 = p2
  x = x
  NoToken = NoToken
  NoId = NoId
  Tokens = {1, 2, 3}
  MaxRequests = 3
  MaxAge = 2
  Pages = {p1, p2}
  ClientIds = {}
  Bearers = {"none"}
  Endpoints <- MCWrites
INVARIANTS
  SteadySessionPasses
CHECK_DEADLOCK FALSE
