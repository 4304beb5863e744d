SPECIFICATION FairSpec
CONSTANTS
  MaxToggles = 2
  MaxSessions = 2
INVARIANTS TypeOK UnloadSafeMeansQuiet FreedOnlyWhenQuiet StartsFresh
PROPERTIES WorkerEnds
CHECK_DEADLOCK FALSE
