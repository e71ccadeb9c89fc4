\* Two workers, two jobs, main and one more thread.
CONSTANTS
  Workers = {w1, w2}
  Clients = {c1}
  Main = main
  AnyWorker = any
  MaxJobs = 2
SPECIFICATION Spec
SYMMETRY Symmetry
INVARIANTS
  TypeOK
  HeldJobAlive
  MainJobIntact
  CanceledNeverCalled
  ResultReleased
  NoOvertaking
  NoLostWakeup
  WaitNeverEarly
  DestroyDrains
CHECK_DEADLOCK FALSE
