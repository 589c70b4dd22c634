\* Two new runs and an old one, of which one may stay; two troubles.
SPECIFICATION Spec
CONSTANTS
  Runs = {a, b, c}
  Old = {c}
  MaxConcurrentRuns = 1
  MaxStoredRuns = 1
  Troubles = 2
SYMMETRY RunSymmetry
INVARIANTS
  ServiceIsTruthful
PROPERTY OverStaysOver
CHECK_DEADLOCK FALSE
