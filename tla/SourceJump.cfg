SPECIFICATION Spec
CONSTANTS
  Maps = {a, b}
  NoMap = none
  MaxRequests = 4
INVARIANTS TypeOK OneWorker PendingIsServed StoppedForGood
CHECK_DEADLOCK FALSE
