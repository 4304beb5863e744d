SPECIFICATION Spec
CONSTANTS
  N = 2
  MaxToggles = 3
  MaxForeign = 1
INVARIANTS TypeOK MixedHasCause FlagIsTrue
PROPERTIES ImplementsAtomicSwitch
CHECK_DEADLOCK FALSE
