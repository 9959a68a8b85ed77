CONSTANTS
  j1 = j1  j2 = j2   w1 = w1  w2 = w2  t1 = t1  t2 = t2   m1 = m1
  Jobs = {j1, j2}
  Models = {m1}
  NoModel = NoModel
  NoWorker = NoWorker
  NoJob = NoJob
  JobLimit <- LimitTwo
  Workers = {w1, w2}
  Tasks = {t1, t2}
  ModelOf <- OneModel
  Capacity = 1
  FailingJobs = {}
  BilledJobs = {}
  MaxLost = 0
  CrashPcs = {"idle", "load", "check", "yield", "prepare", "work", "final", "clear", "release"}
  FaultKinds = {"handover", "runner"}
  MaxFaults = 1
  MaxPins = 1
SPECIFICATION Spec
SYMMETRY SymmetricInJobs
INVARIANTS SingleRunner PinReachesRunners
CHECK_DEADLOCK FALSE
