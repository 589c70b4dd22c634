\* Liveness, so no symmetry: the endpoint may never answer, only the idle
\* guard bounds the run.
SPECIFICATION FairSpec
CONSTANTS
  Query = {q1, q2, q3, q4}
  None = None
  NumPhases = 2
  PhaseType <- TwoTypes
  Strategy <- TwoStrategies
  TotalSamples <- TwoTotals
  Target <- TwoTargets
  DrainAfter <- TwoDrains
  DrainTimeout <- TwoTimeouts
  MaxDuration <- TwoCaps
  IdleTimeout = TRUE
  Faults = {"issue_raises"}
PROPERTIES
  GuardedSessionEnds
