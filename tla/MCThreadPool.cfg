CONSTANTS
  NumThreads = 2
  Task = {t1, t2, t3}
  Callback = {t1, t3}
  Poller = {p1, p2}
  None = None
SPECIFICATION FairSpec
INVARIANTS
  NoLostWakeup
  IInv
PROPERTIES
  ImplementsService
  AcceptedRuns
  DestroyReturns
CHECK_DEADLOCK FALSE
