SPECIFICATION Spec
CONSTANTS
  Cap = 2
  Samples = {1}
  MaxEvents = 3
  Forever = 9
  DemoMaps = {mapA}
  NoMap = noMap
  QueueCap = 2
  MaxLines = 1
  MaxTime = 2
  MaxTimeLinux = 2
INVARIANTS TypeOK MotionServed DemosAsAnnounced OriginalReached
CHECK_DEADLOCK FALSE
