SPECIFICATION FairSpec
CONSTANTS
  Text <- TwoTexts
  System = "system"
  HasSystem = TRUE
  Cap = 5
  Streams <- ThreeStreams
  Stored <- Files
  MaxLines = 1
INVARIANT InterruptReturns
CHECK_DEADLOCK FALSE
