\* One worker, one job, a thread other than main that pushes it.
CONSTANTS
  Workers = {w1}
  Clients = {c1}
  Main = main
  AnyWorker = any
  MaxJobs = 1
SPECIFICATION Spec
INVARIANTS
  PushReadsLiveJob
CHECK_DEADLOCK FALSE
