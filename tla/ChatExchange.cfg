SPECIFICATION FairSpec
CONSTANTS
  h1 = h1
  h2 = h2
  Hook <- BothHooks
  NoList = NoList
  Setups <- AllSetups
  MaxChunks = 1
INVARIANTS
  OneResponse
  RefusedNotSent
  EditsAreSent
PROPERTIES
  ChatEnds
CHECK_DEADLOCK FALSE
