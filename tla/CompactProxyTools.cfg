SPECIFICATION Spec
CONSTANTS
  Session = {s1}
  Req = {r1}
  CallId = {c1, c2}
  NoCall = NoCall
  NoReq = NoReq
  Modes <- ShadowEnforce
  KeepTurns = 2
  KeepTokens = 2
  JevTurnCap = 1
  JevTokenCap = 1
  JevMinCap = 2
  MinTokens = 3
  ResultTokens <- JustThree
  EstTokens <- ExactEstimate
  SummaryTokens <- Light
  SummarizerMode = "off"
  FilterMode = "enforce"
  Flags <- PlainOnly
  ResultRoles <- OpenAI
  GlobalIds = TRUE
  DiskFaults = FALSE
  MaxLen = 6
  MaxExpands = 1
INVARIANTS
  ShadowKeepsTools
SYMMETRY Symmetry
