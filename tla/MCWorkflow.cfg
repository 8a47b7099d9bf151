SPECIFICATION Spec
CONSTANTS
  a = a
  get = get
  put = put
  NoLimit = NoLimit
  ReadOnly = {get}
  SpecTools = {put}
  Unsettled = {put}
  Runs = {1, 2}
  Callers = {a}
  Tools = {get, put}
  CallerOf <- MCCallerOf
  StepsOf <- MCStepsOf
  PerCaller <- MCPerCaller
  PerTool <- MCPerTool
  Overlay <- MCOverlay
  MAX_BUCKETS = 3
  IDLE_EVICT_S = 1
  MaxTime = 2
  MaxRehints = 1
INVARIANTS
  VerdictSound
  OutcomeSound
  RefusalsCostNothing
  LimitKept
