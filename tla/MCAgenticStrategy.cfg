CONSTANTS
  Conv <- MCConv
  Turns <- MCTurns
  Delayed <- MCDelayed
  Budget = 3
  Target = 2
  StopIssuing = {TRUE, FALSE}
  Faults = {"issue_raises", "elapse", "cap", "stop", "error_answer"}
SPECIFICATION FairSpec
INVARIANTS
  TrajectoriesAreOrderly
  CleanRunIsComplete
PROPERTIES
  ExecuteEnds
