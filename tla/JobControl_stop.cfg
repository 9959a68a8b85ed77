CONSTANTS
  j1 = j1  j2 = j2  w1 = w1  w2 = w2  t1 = t1  t2 = t2  r1 = r1  r2 = r2  m1 = m1
  Jobs = {j1}
  Models = {m1}
  NoModel = NoModel
  NoWorker = NoWorker
  NoJob = NoJob
  JobLimit <- LimitOne
  Workers = {w1, w2}
  Tasks = {t1, t2}
  ModelOf <- OneModel
  Capacity = 1
  FailingJobs = {}
  BilledJobs = {}
  MaxLost = 1
  CrashPcs = {"idle", "load", "check", "yield", "prepare", "work", "final", "clear", "release"}
  FaultKinds = {"slow"}
  MaxFaults = 1
  MaxPins = 0
  Requests = {r1}
  Ops = {"cancel", "pause"}
  MaxRequests = 1
SPECIFICATION FairControlSpec
PROPERTIES StopIsHeard OrphanStaysCanceled
CHECK_DEADLOCK FALSE
