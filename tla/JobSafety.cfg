SPECIFICATION Spec
CONSTANTS
  m1 = m1
  m2 = m2
  ok = ok
  flaky = flaky
  fail = fail
  Malformed = Malformed
  MsgIds = {m1, m2}
  Tasks = {ok, flaky, fail}
  FlakyTasks = {flaky}
  FailTasks = {fail}
  MaxAttempts = 2
  Producers = {p1}
  MaxLives = 2
  Prefetch = 2
  MaxEnqueues = 2
  ForeignBodies <- SomeForeign
INVARIANTS
  TypeOK
  NoJobLost
  SettlementsValid
  EffectsBounded
  DeadOnlyWhenExhausted
  DuplicationBounded
  AcceptedTracked
PROPERTIES
  DeliveryRefined
CHECK_DEADLOCK FALSE
