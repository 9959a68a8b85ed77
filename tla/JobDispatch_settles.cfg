CONSTANTS
  j1 = j1  j2 = j2   w1 = w1  w2 = w2  t1 = t1  t2 = t2   m1 = m1
  Jobs = {j1, j2}
  Models = {m1}
  NoModel = NoModel
  NoWorker = NoWorker
  NoJob = NoJob
  JobLimit <- LimitOne
  Workers = {w1, w2}
  Tasks = {t1, t2}
  ModelOf <- OneModel
  Capacity = 1
  FailingJobs = {}
  BilledJobs = {}
  MaxLost = 1
  CrashPcs = {"idle", "load", "check", "yield", "prepare", "work", "final", "clear", "release"}
  FaultKinds = {}
  MaxFaults = 0
  MaxPins = 0
SPECIFICATION FairSpec
PROPERTY EveryJobSettles
CHECK_DEADLOCK FALSE
