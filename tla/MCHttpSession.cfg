SPECIFICATION FairSpec
CONSTANTS
  Requests = {1, 2}
  MaxSessions = 3
INVARIANTS
  SessionKept
  InitializedInSession
  NoNeedlessFetch
PROPERTIES
  KeepsPromise
  EveryRequestEnds
CHECK_DEADLOCK FALSE
