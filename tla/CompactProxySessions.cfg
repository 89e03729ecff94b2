SPECIFICATION Spec
CONSTANTS
  Session = {s1, s2}
  Req = {r1, r2}
  CallId = {c1, c2}
  NoCall = NoCall
  NoReq = NoReq
  Modes <- Enforce
  KeepTurns = 2
  KeepTokens = 2
  JevTurnCap = 1
  JevTokenCap = 1
  JevMinCap = 2
  MinTokens = 3
  ResultTokens <- JustThree
  EstTokens <- ExactEstimate
  SummaryTokens <- Light
  SummarizerMode = "off"
  FilterMode = "shadow"
  Flags <- PlainOnly
  ResultRoles <- OpenAI
  GlobalIds = TRUE
  DiskFaults = FALSE
  MaxLen = 7
  MaxExpands = 1
INVARIANTS
  StubsRehydrate
PROPERTY
  OriginalsStay
SYMMETRY Symmetry
