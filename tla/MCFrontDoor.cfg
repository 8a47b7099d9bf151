SPECIFICATION Spec
CONSTANTS
  k1 = k1
  k2 = k2
  t1 = t1
  t2 = t2
  NoToken = NoToken
  r1 = r1
  r2 = r2
  Requests = {r1, r2}
  Nobody = Nobody
  Kinds <- MCKinds
  Confs <- MCConfs
  Kids = {k1, k2}
  FirstKids = {k1}
  Leaving = {k1}
  Tokens = {t1, t2}
  Revocable = {t1}
  KidOf <- MCKidOf
  ExpOf <- MCExpOf
  Fits <- MCFits
  JWKS_MIN_REFRESH = 1
  JWKS_MAX_AGE = 2
  JWKS_FETCH_TIMEOUT = 1
  CacheTtl = 1
  AskTimeout = 1
  INTROSPECTION_CACHE_MAX = 1
  Leeway = 1
  MaxTime = 3
PROPERTIES
  ProcessScopesGuarded
  WithdrawnKeyDies
  UnknownOnlyAfterLooking
  RevocationBites
SYMMETRY Interchangeable
CHECK_DEADLOCK FALSE
