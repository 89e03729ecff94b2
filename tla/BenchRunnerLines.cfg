SPECIFICATION Spec
CONSTANTS
  j1 = j1
  j2 = j2
  j3 = j3
  x = x
  y = y
  Job = {j1, j2}
  NoJob = NoJob
  Id = {x, y}
  IdOf <- OwnIds
  Torn = Torn
  Suite <- TwoJobs
  First = "A"
  Second = "B"
  Side <- BothSides
  Runs = 1
  MaxControl = 2
  MaxRestarts = 1
INVARIANTS
  TypeOK
  EveryJobSomewhere
  EventsBacked
  SummaryTrue
  OnlyOnRequest
  SuiteOrder
PROPERTIES
  ImplementsLife
