SPECIFICATION FairSpec
CONSTANTS
  j1 = j1
  j2 = j2
  j3 = j3
  x = x
  y = y
  Job = {j1, j2, j3}
  NoJob = NoJob
  Id = {x, y}
  IdOf <- TwoFiles
  Torn = Torn
  Suite <- ThreeJobs
  First = "A"
  Second = "B"
  Side <- BothSides
  Runs = 1
  MaxControl = 1
  MaxRestarts = 1
INVARIANTS
  TypeOK
  EveryJobSomewhere
  EventsBacked
  SummaryTrue
  OnlyOnRequest
  SuiteOrder
PROPERTIES
  ImplementsLife
  RunEnds
