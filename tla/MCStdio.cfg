SPECIFICATION Spec
CONSTANTS
  Requests = {1, 2}
  MaxConns = 2
  MaxPings = 1
  StdinRoom = 2
  StdoutRoom = 1
  OneAtATime = FALSE
INVARIANTS
  PendingMatches
  LiveNeverReplaced
PROPERTIES
  KeepsPromise
CHECK_DEADLOCK FALSE
