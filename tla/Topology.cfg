SPECIFICATION FairSpec
CONSTANTS
  c1 = c1
  c2 = c2
  c3 = c3
  jobs = jobs
  jobs2 = jobs2
  dlx = dlx
  dlx2 = dlx2
  dlq = dlq
  NoName = NoName
  NoQueue = NoQueue
  Clients = {c1, c2, c3}
  Workers = {c3}
  Names = {jobs, jobs2, dlx, dlx2, dlq}
  Configs <- SeveralConfigs
  MaxFailures = 1
INVARIANTS
  RejectsReachDlq
  DlqIsNobodysMain
PROPERTIES
  WorkersComeUp
CHECK_DEADLOCK FALSE
