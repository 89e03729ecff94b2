INIT OfflineInit
NEXT OfflineNext
CONSTANTS
  Runner = {r1, r2, r3}
  Inode = {i1, i2, i3}
  None = None
  Watermark = {50, 70, 80}
  Fill = 90
  Default = 70
  Gap = 2
  Logged <- Records
  MaxLogged = 4
  Size = {110}
  Pause = {1, 2}
  Break = {3, 5}
  DayLength = 7
  Days = 2
  PerDay = 2
  MaxMessages = 2
  Turns = 4
  MaxLine = 5
  Exact = 3
  Variant = {"tier0+tier1", "tier1+hooks"}
  Baseline = "tier0+tier1"
  Fixture <- OneFixture
  Seeds = 2
  Chosen <- Lists
  Outcome <- Outcomes
  MaxRuns = 2
  Document <- Documents
  MaxJobs = 2
  Readable = {"there"}
INVARIANTS
  SessionsBySilence
  RowsAgree
  SuggestionBest
  SyntheticSplit
  BodiesAreRequests
  ReportIsTrue
  FilesWhole
  FailuresCost
  JobsAsWritten
  ActiveOwnsItsLock
  NeverWedged
CHECK_DEADLOCK FALSE
