SPECIFICATION StoreSpec
CONSTANTS
  c1 = c1
  c2 = c2
  c3 = c3
  t1 = t1
  t2 = t2
  a = a
  NoTask = NoTask
  Callers = {c1, c2, c3}
  Ids = {t1, t2}
  Task = {a}
INVARIANTS
  StoreTypeOK
  ListIsSnapshot
  WritesHit
