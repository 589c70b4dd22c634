\* Six records on the bus, the fifth is ENDED; sends and writes may fail.
\* Two workers of three messages; in the faulty runs sends may fail, message 2
\* does not decode and message 3 is longer than the receive buffer.
SPECIFICATION Spec
CONSTANTS
    N = 6
    Ended = 5
    Threshold = 2
    FlushInterval = 2
    SendErrors = TRUE
    WriteErrors = TRUE
    Senders = {a, b}
    M = 3
    Undecodable = {2}
    Oversized = {3}
    Closing = TRUE
INVARIANTS
  
  NoWakeupLost
PROPERTIES
  TransportsAreInOrder
  
  EveryMessageArrives
CHECK_DEADLOCK FALSE
