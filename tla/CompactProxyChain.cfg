SPECIFICATION Spec
CONSTANTS
  Session = {s1}
  Req = {r1, r2}
  CallId = {c1, c2, c3}
  NoCall = NoCall
  NoReq = NoReq
  Modes <- Enforce
  KeepTurns = 2
  KeepTokens = 2
  JevTurnCap = 1
  JevTokenCap = 1
  JevMinCap = 2
  MinTokens = 3
  ResultTokens <- JustThree
  EstTokens <- ExactEstimate
  SummaryTokens <- Light
  SummarizerMode = "off"
  FilterMode = "shadow"
  Flags <- PlainOnly
  ResultRoles <- OpenAI
  GlobalIds = TRUE
  DiskFaults = FALSE
  MaxLen = 9
  MaxExpands = 1
INVARIANTS
  StubsRehydrate
  RepliesAreOriginals
PROPERTY
  OriginalsStay
SYMMETRY Symmetry
