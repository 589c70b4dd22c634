\* Two phases; signals in every state, an aggregator that may crash.
SPECIFICATION FairSpec
CONSTANTS
    Phases = 2
    LateSignal = TRUE
    Crashes = TRUE
INVARIANTS
  RunEndIsSound
PROPERTIES
  CompleteIsNotAborted
  AbortEndsRun
CHECK_DEADLOCK FALSE
