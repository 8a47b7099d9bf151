SPECIFICATION FairSpec
CONSTANTS
  Requests = {1, 2}
  MaxConns = 1
  MaxPings = 2
  StdinRoom = 1
  StdoutRoom = 1
  OneAtATime = FALSE
PROPERTY EveryRequestEnds
CHECK_DEADLOCK FALSE
