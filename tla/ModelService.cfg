SPECIFICATION ServiceSpec
CONSTANTS
  t1 = t1
  t2 = t2
  Terminal = {t1, t2}
  Gives <- TwoTerminals
  MaxProc = 3
  Passes = 2
  MaxCommands = 2
  MaxExits = 1
INVARIANTS
  StopHolds
  UpIsOurs
PROPERTIES
  KeepsServing
CHECK_DEADLOCK FALSE
