SPECIFICATION FairSpec
CONSTANTS
  m1 = m1
  m2 = m2
  ok = ok
  flaky = flaky
  fail = fail
  Malformed = Malformed
  Tasks = {ok, flaky, fail}
  FlakyTasks = {flaky}
  FailTasks = {fail}
  Producers = {p1}
  MsgIds = {m1}
  MaxAttempts = 2
  MaxLives = 2
  Prefetch = 1
  MaxEnqueues = 2
  ForeignBodies <- JustMalformed
PROPERTIES
  TransientJobsSucceed
  JobsHaveOutcome
  QueueDrains
CHECK_DEADLOCK FALSE
