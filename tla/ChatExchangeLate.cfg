SPECIFICATION Spec
CONSTANTS
  h1 = h1
  h2 = h2
  Hook <- BothHooks
  NoList = NoList
  Setups <- SlowSummarizer
  MaxChunks = 2
INVARIANTS
  LateHookHarmless
CHECK_DEADLOCK FALSE
