SPECIFICATION Spec
CONSTANTS
  Threads = {t1, t2}
  Worker = worker
  Controller = controller
  NoThread = nobody
  MaxPasses = 2
  MaxStops = 1
INVARIANTS ControllerToleratesExit
CHECK_DEADLOCK FALSE
