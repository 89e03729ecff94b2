SPECIFICATION FairSpec
CONSTANTS
  Text <- TwoTexts
  System = "system"
  HasSystem = TRUE
  Cap = 2
  Streams <- ThreeStreams
  Stored <- Files
  MaxLines = 2
INVARIANT TypedLineSent
CHECK_DEADLOCK FALSE
