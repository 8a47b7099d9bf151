SPECIFICATION FairSpec
CONSTANTS
  k1 = k1
  k2 = k2
  k3 = k3
  list = list
  get = get
  put = put
  api = api
  Tasks = {k1, k2, k3}
  Tools = {get}
  Upstreams = {api}
  UpstreamOf <- MCUpstreamOf
  Cacheable = {}
  Writes = {}
  Guarded = {get}
  Paginated = {get}
  MaxPages = 2
  Fickle = {}
  Slots = 1
  Deadline = 1
  TTL = 0
  MaxEntries = 1
  MaxVersion = 0
  Threshold = 2
  Cooldown = 1
  StaleAfter = 3
  CountMax = 2
INVARIANTS
  TypeOK
  OneProbe
PROPERTIES
  ClosedBySuccess
  BreakerRecovers
  EveryCallEnds
