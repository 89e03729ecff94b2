SPECIFICATION Spec
CONSTANTS
  Session = {s1}
  Req = {r1}
  CallId = {c1, c2, c3, c4}
  NoCall = NoCall
  NoReq = NoReq
  Modes <- Enforce
  KeepTurns = 4
  KeepTokens = 4
  JevTurnCap = 2
  JevTokenCap = 2
  JevMinCap = 2
  MinTokens = 3
  ResultTokens <- JustThree
  EstTokens <- ExactEstimate
  SummaryTokens <- Light
  SummarizerMode = "off"
  FilterMode = "shadow"
  Flags <- PlainOnly
  ResultRoles <- OpenAI
  GlobalIds = TRUE
  DiskFaults = FALSE
  MaxLen = 6
  MaxExpands = 3
INVARIANTS
  VerbatimRepliesSpliced
SYMMETRY Symmetry
