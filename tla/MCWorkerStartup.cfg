\* Three workers; two wait attempts fit in the configured timeout, or there
\* is no timeout.
SPECIFICATION FairSpec
CONSTANTS
  Worker = {w1, w2, w3}
  Timeouts = {0, 2}
  Crashes = TRUE
INVARIANTS
  ReadyMeansAllSignalled
  NoWorkerLeftBehind
PROPERTIES
  DeathEndsStartup
