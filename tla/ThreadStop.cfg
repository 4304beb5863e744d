SPECIFICATION FairSpec
CONSTANTS
  Threads = {t1, t2}
  Worker = worker
  Controller = controller
  NoThread = nobody
  MaxPasses = 2
  MaxStops = 1
INVARIANTS TypeOK StopIsTotal
PROPERTIES EndsUnlessHeapHeld
CHECK_DEADLOCK FALSE
