SPECIFICATION Spec
CONSTANTS
  m1 = m1
  m2 = m2
  a1 = a1
  A = A
  Maps = {m1, m2}
  Assets = {a1}
  Packs <- MCPacks
  Fixers = {m1, m2, game, launcher}
  Main = game
  Sweep = launcher
  None = none
  Half = half
  Players = players
  Versions = {A, B}
  Earlier <- MCEarlier
  Listed = {A, B}
  Other = other
  Whole = 2
  MaxWatch = 1
  MaxIdle = 2
  MaxAsks = 2
  MaxTroubles = 1
INVARIANTS TypeOK MapAsAsked
PROPERTIES LooseFilesSafe WatchersFinish
CHECK_DEADLOCK FALSE
