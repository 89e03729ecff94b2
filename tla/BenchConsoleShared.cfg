SPECIFICATION ConsoleSpec
CONSTANTS
  j1 = j1
  j2 = j2
  x = x
  y = y
  Job = {j1, j2}
  NoJob = NoJob
  Id = {x}
  IdOf <- OneId
  Torn = Torn
  Suite <- TwoJobs
  First = "A"
  Second = "B"
  Side <- BothSides
  Runs = 2
  MaxControl = 1
  MaxRestarts = 1
  MaxTailErrors = 1
INVARIANTS
  ShownIsTrue
CHECK_DEADLOCK FALSE
