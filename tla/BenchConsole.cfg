SPECIFICATION ConsoleSpec
CONSTANTS
  j1 = j1
  j2 = j2
  x = x
  y = y
  Job = {j1, j2}
  NoJob = NoJob
  Id = {x, y}
  IdOf <- OwnIds
  Torn = Torn
  Suite <- TwoJobs
  First = "A"
  Second = "B"
  Side <- BothSides
  Runs = 1
  MaxControl = 1
  MaxRestarts = 1
  MaxTailErrors = 1
INVARIANTS
  ShownIsTrue
PROPERTIES
  EndIsShown
CHECK_DEADLOCK FALSE
