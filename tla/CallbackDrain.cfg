SPECIFICATION Spec
CONSTANTS
  Threads = {t1, t2, t3}
SYMMETRY ThreadSymmetry
INVARIANTS TypeOK OnlyOverlookedAtRisk OnlyOverlookedSwallowed BlockOutlivesCallbacks
CHECK_DEADLOCK FALSE
