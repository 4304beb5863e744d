SPECIFICATION LogSpec
CONSTANTS
  Writers = {w1, w2}
  NoWriter = nobody
  Slots = 2
  MaxRecords = 5
INVARIANTS LogTypeOK EmittedWhole
PROPERTIES PresentIsEmitted
CHECK_DEADLOCK FALSE
