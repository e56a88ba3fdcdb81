SPECIFICATION Spec
CONSTANTS
  m1 = m1
  m2 = m2
  ok = ok
  flaky = flaky
  fail = fail
  Malformed = Malformed
  Tasks = {ok, flaky, fail}
  FlakyTasks = {flaky}
  FailTasks = {fail}
  Producers = {p1}
  MsgIds = {m1}
  MaxAttempts = 3
  MaxLives = 3
  Prefetch = 1
  MaxEnqueues = 1
  ForeignBodies <- NoForeign
INVARIANTS
  DeadOnlyWhenExhausted
  DuplicationBounded
CHECK_DEADLOCK FALSE
