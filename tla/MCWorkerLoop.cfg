\* Two queries, one of them streamed, over a pool of one or of two
\* connections; every fault of the endpoint, of encoding and of shutdown.
SPECIFICATION FairSpec
CONSTANTS
    NQ = 2
    Conns = {c1, c2, c3}
    MaxConns = {1, 2}
    WarmCount = 1
    Troubles = 1
    EncodeFails = TRUE
    BadBytes = TRUE
    Streaming = {2}
    Shutdowns = TRUE
INVARIANTS
  RequestsAreSound
PROPERTIES
  EveryQueryAnswered
CHECK_DEADLOCK FALSE
