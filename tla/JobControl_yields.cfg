CONSTANTS
  j1 = j1  j2 = j2   w1 = w1  w2 = w2  t1 = t1  t2 = t2  r1 = r1  r2 = r2  m1 = m1
  Jobs = {j1, j2}
  Models = {m1}
  NoModel = NoModel
  NoWorker = NoWorker
  NoJob = NoJob
  JobLimit <- LimitOne
  Workers = {w1}
  Tasks = {t1, t2}
  ModelOf <- OneModel
  Capacity = 2
  FailingJobs = {}
  BilledJobs = {}
  MaxLost = 0
  CrashPcs = {"idle", "load", "check", "yield", "prepare", "work", "final", "clear", "release"}
  FaultKinds = {}
  MaxFaults = 0
  MaxPins = 1
  Requests = {r1}
  Ops = {"cancel"}
  MaxRequests = 1
SPECIFICATION ControlSpec
SYMMETRY SymmetricInJobs
INVARIANTS SingleRunner
CHECK_DEADLOCK FALSE
