SPECIFICATION FairSpec
CONSTANTS
  Text <- TwoTexts
  System = "system"
  HasSystem = TRUE
  Cap = 5
  Streams <- ThreeStreams
  Stored <- Files
  MaxLines = 3
INVARIANTS
  ReplyIsTheStream
  RequestAsksTheLine
  PromptIsClean
PROPERTIES
  TurnEnds
CHECK_DEADLOCK FALSE
