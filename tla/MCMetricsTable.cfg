\* Warmup that is not drained, a capped Poisson performance phase, accuracy;
\* all faults of the environment.
SPECIFICATION Spec
CONSTANTS
  Query = {q1, q2, q3, q4}
  None = None
  NumPhases = 3
  PhaseType <- ThreeTypes
  Strategy <- ThreeStrategies
  TotalSamples <- ThreeTotals
  Target <- ThreeTargets
  DrainAfter <- ThreeDrains
  DrainTimeout <- ThreeTimeouts
  MaxDuration <- ThreeCaps
  IdleTimeout = TRUE
  Faults = {"stop", "transport_closed", "issue_raises", "receiver_raises"}
SYMMETRY QuerySymmetry
INVARIANTS
  InflightIsExact
  
  
  
  
