SPECIFICATION Spec
CONSTANTS
  N = 3
  MaxCalls = 3
  MaxForeign = 1
INVARIANTS TypeOK QuiescentMeansRestored
PROPERTIES OkMeansUniform
CHECK_DEADLOCK FALSE
