CONSTANTS
  Conv <- MCConv
  Turns <- MCTurns
  Delayed <- MCDelayed
  Budget = 2
  Target = 2
  StopIssuing = {FALSE}
  Faults = {}
SPECIFICATION Spec
INVARIANT TurnEndsOnceEver
