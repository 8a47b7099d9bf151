SPECIFICATION Spec
CONSTANTS
  k1 = k1
  k2 = k2
  k3 = k3
  list = list
  get = get
  put = put
  api = api
  Tasks = {k1, k2}
  Tools = {list, get, put}
  Upstreams = {api}
  UpstreamOf <- MCUpstreamOf
  Cacheable = {list, get}
  Writes = {put}
  Guarded = {}
  Paginated = {list}
  MaxPages = 2
  Fickle = {get}
  Slots = 2
  Deadline = 1
  TTL = 1
  MaxEntries = 1
  MaxVersion = 2
  Threshold = 1
  Cooldown = 1
  StaleAfter = 1
  CountMax = 1
INVARIANTS
  SlotsConserved
  StaleExplained
  CachedListsEnded
