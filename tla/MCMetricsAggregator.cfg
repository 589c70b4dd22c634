\* Two token counts flushed one at a time, two SIGTERMs.
SPECIFICATION FairSpec
CONSTANTS
  Item = {i1, i2}
  Signal = {s1, s2}
  FlushMax = 1
  Live = TRUE
  Budget = TRUE
  SteadyState = TRUE
INVARIANTS
  TokensAreAccounted
  CompleteIsTruthful
  ExitAfterWrite
  TerminalFrameIsLastOnceStarted

  
