SPECIFICATION Spec
CONSTANTS
  Session = {s1}
  Req = {r1}
  CallId = {c1, c2, c3}
  NoCall = NoCall
  NoReq = NoReq
  Modes <- AllModes
  KeepTurns = 2
  KeepTokens = 3
  JevTurnCap = 1
  JevTokenCap = 3
  JevMinCap = 2
  MinTokens = 3
  ResultTokens <- JustThree
  EstTokens <- LowEstimate
  SummaryTokens <- Light
  SummarizerMode = "enforce"
  FilterMode = "enforce"
  Flags <- AllFlags
  ResultRoles <- BothShapes
  GlobalIds = TRUE
  DiskFaults = TRUE
  MaxLen = 8
  MaxExpands = 2
INVARIANTS
  TypeOK
  WindowUntouched
  OnlyEnforceRewrites
  FreshExpandDelivered
  OriginalsOnDisk
SYMMETRY Symmetry
