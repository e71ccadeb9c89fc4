\* Two workers, one job, main and one more thread, under fairness.
CONSTANTS
  Workers = {w1, w2}
  Clients = {c1}
  Main = main
  AnyWorker = any
  MaxJobs = 1
SPECIFICATION FairSpec
PROPERTIES
  JobReclaimed
  WaitReturns
  DestroyEnds
  ImplementsService
CHECK_DEADLOCK FALSE
